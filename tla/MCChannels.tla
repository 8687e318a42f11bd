----------------------------- MODULE MCChannels -----------------------------
EXTENDS Channels

\* An RTP source listens on two ports, a UDP source on one; both send to the
\* destination that the first channel has from the start.
MCProfiles == {[ports |-> {1, 2}, out |-> "o1"], [ports |-> {2}, out |-> "o1"]}
MCFresh == [c \in Ids |-> [ports |-> {c}, out |-> IF c = Main THEN "o1" ELSE "o2"]]
MCInputs == 1..2
=============================================================================
