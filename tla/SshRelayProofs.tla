--------------------------- MODULE SshRelayProofs ----------------------------
(***************************************************************************)
(* Proofs that the relay gives each sender what NdiSender assumes of the    *)
(* other end of its control pipe, for any number of sessions; with that,   *)
(* what is proved of the sender alone holds of the two together.           *)
(***************************************************************************)
EXTENDS SshRelay, NdiSenderProofs

USE DEF relayVars, vars, pipeVars, mainVars, queueVars, runVars, senderVars, Within

\* A sender that serves SRT has no relay; another is started by the upload of its
\* session and by nothing else.
Roles ==
    /\ srt \in BOOLEAN /\ (srt => relayAt = "stopped" /\ ~beats)
    /\ at # "absent" => srt \/ session > watched \/ (session = watched /\ relayAt # "upload")

RelayInv == RelayTypeOK /\ Roles

LEMMA InitRelay == Init => RelayInv
<1> SUFFICES ASSUME Init PROVE RelayInv
  OBVIOUS
<1>1. watched \in 1..MaxSessions /\ session \in 0..MaxSessions
  BY SessionsAssumption DEF Init
<1>2. RelayTypeOK
  BY <1>1 DEF Init, RelayTypeOK, RelayPlaces, Processes
<1>3. Roles
  BY DEF Init, SenderInit, Roles
<1> QED  BY <1>2, <1>3 DEF RelayInv

LEMMA SessionNumbers == ASSUME RelayTypeOK PROVE session \in Nat /\ watched \in Nat /\ MaxSessions \in Nat
BY SessionsAssumption DEF RelayTypeOK

\* The sender by itself neither starts nor touches the pipe.
LEMMA SenderAlone ==
    ASSUME Sender
    PROVE  UNCHANGED <<srt, pipeVars>> /\ (at = "absent" => at' = "absent")
<1>1. CASE Main
  BY <1>1 DEF Main, RunBegins, Connects, Probes, LoopTurns, ReadsFrame, PutsMarker, JoinsWriter,
     WaitsFfmpeg, Releases, MainEnds, MainRetries, Ends, GoTo, Leave
<1>2. CASE \E r \in Runs : Writer(r) \/ FfmpegDies(r)
  BY <1>2 DEF Writer, WriterGets, WriterAccounts, WriterWrites, FfmpegDies
<1>3. CASE Watchers \/ Operator
  BY <1>3 DEF Watchers, ControlEnds, HeartbeatLate, StopFileSeen, WatchdogDies, SetsStop, Operator
<1> QED  BY <1>1, <1>2, <1>3 DEF Sender

LEMMA RelayTypes ==
    ASSUME RelayTypeOK, Relay
    PROVE  RelayTypeOK'
<1> USE DEF RelayTypeOK, RelayGoTo, RelayPlaces, Processes
<1>1. CASE Begins
  <2>1. session' \in 0..MaxSessions
    BY <1>1, SessionsAssumption DEF Begins
  <2> QED  BY <1>1, <2>1 DEF Begins
<1>2. CASE Uploads \/ Turns \/ Forwards
  BY <1>2 DEF Uploads, Turns, Forwards
<1>3. CASE Finishes \/ Waits \/ Joins \/ Closes(FALSE) \/ EndsRelay
  BY <1>3 DEF Finishes, Waits, Joins, Closes, EndsRelay
<1> QED  BY <1>1, <1>2, <1>3 DEF Relay

\* What the relay does to the sender is what the other end of a pipe may do.
LEMMA RelayIsOutside ==
    ASSUME RelayInv, Relay
    PROVE  Roles' /\ [Outside]_senderVars
<1> USE DEF RelayInv, Roles, Alone, RelayGoTo
<1>0. session \in Nat /\ watched \in Nat /\ ~srt
  <2>1. relayAt # "stopped"
    BY DEF Relay, Begins, Uploads, Turns, Forwards, Finishes, Waits, Joins, Closes, EndsRelay
  <2> QED  BY <2>1, SessionNumbers
<1>1. CASE Begins
  <2>1. session' = session \/ (session' = session + 1 /\ relayAt' = "upload")
    BY <1>1 DEF Begins
  <2>2. UNCHANGED <<watched, senderVars>> /\ relayAt' # "stopped" /\ relayAt = "head"
    BY <1>1 DEF Begins
  <2>3. at # "absent" => session >= watched
    BY <1>0, <2>2
  <2>4. at # "absent" => session' > watched \/ (session' = watched /\ relayAt' # "upload")
    <3>1. CASE session' = session
      <4>1. relayAt' = "upload" => session' = session + 1
        BY <1>1 DEF Begins
      <4> QED  BY <1>0, <2>2, <2>3, <3>1, <4>1
    <3>2. CASE session' = session + 1
      BY <1>0, <2>3, <3>2
    <3> QED  BY <2>1, <3>1, <3>2
  <2> QED  BY <1>0, <2>2, <2>4
<1>2. CASE Uploads
  <2>1. at # "absent" => session # watched
    BY <1>0, <1>2 DEF Uploads
  <2>2. UNCHANGED <<session, watched, srt>> /\ relayAt' \in {"loop", "finish"}
    BY <1>2 DEF Uploads
  <2>3. Roles'
    BY <1>0, <1>2, <2>1, <2>2 DEF Uploads
  <2>4. CASE UNCHANGED senderVars
    BY <2>3, <2>4
  <2>5. CASE session = watched /\ beats' = TRUE /\ at' = "head" /\ UNCHANGED <<srt, run, raised, stopFile, watchdog, control, runVars>>
    BY <1>0, <2>1, <2>3, <2>5 DEF Outside
  <2>6. CASE session # watched /\ beats' = FALSE /\ at' = at /\ UNCHANGED <<srt, run, raised, stopFile, watchdog, control, runVars>>
    BY <1>0, <2>3, <2>6 DEF Outside
  <2> QED  BY <1>2, <2>4, <2>5, <2>6 DEF Uploads
<1>3. CASE Turns \/ Forwards
  BY <1>0, <1>3 DEF Turns, Forwards
<1>4. CASE Finishes
  <2>1. Roles'
    BY <1>0, <1>4 DEF Finishes
  <2> QED  BY <1>0, <1>4, <2>1 DEF Finishes, Outside
<1>5. CASE Waits \/ Joins \/ Closes(FALSE) \/ EndsRelay
  BY <1>0, <1>5 DEF Waits, Joins, Closes, EndsRelay
<1> QED  BY <1>1, <1>2, <1>3, <1>4, <1>5 DEF Relay

LEMMA WorldIsOutside ==
    ASSUME RelayInv, HeartbeatFails \/ World
    PROVE  RelayInv' /\ [Outside]_senderVars
<1> USE DEF RelayInv, Roles, RelayTypeOK, RelayPlaces, Processes
<1>1. CASE HeartbeatFails
  BY <1>1 DEF HeartbeatFails, Alone, Outside
<1>2. CASE Signal \/ SshDies \/ SinkDies \/ FarEndWrites
  <2>1. UNCHANGED <<senderVars, watched, relayAt, session>>
    BY <1>2 DEF Signal, SshDies, SinkDies, FarEndWrites
  <2>2. relayStop' \in BOOLEAN /\ output' \in BOOLEAN /\ diagnosing' = diagnosing /\ ssh' \in Processes /\ sink' \in Processes
    BY <1>2 DEF Signal, SshDies, SinkDies, FarEndWrites
  <2> QED  BY <2>1, <2>2
<1>3. CASE ControlCloses
  BY <1>3 DEF ControlCloses, Outside
<1>4. CASE DiagnosticsEnd
  BY <1>4 DEF DiagnosticsEnd
<1>5. CASE Closes(TRUE)
  <2>1. UNCHANGED <<senderVars, watched, session>> /\ relayAt = "close" /\ relayAt' \in {"head", "end"}
    BY <1>5 DEF Closes, RelayGoTo, Alone
  <2>2. output' = FALSE /\ diagnosing' = FALSE /\ UNCHANGED <<relayStop, ssh, sink>>
    BY <1>5 DEF Closes, RelayGoTo
  <2> QED  BY <2>1, <2>2
<1> QED  BY <1>1, <1>2, <1>3, <1>4, <1>5 DEF World

LEMMA NextRelay ==
    RelayInv /\ [Next]_vars => RelayInv' /\ [Sender \/ Outside]_senderVars
<1> SUFFICES ASSUME RelayInv, [Next]_vars PROVE RelayInv' /\ [Sender \/ Outside]_senderVars
  OBVIOUS
<1>1. CASE Sender /\ UNCHANGED relayVars
  BY <1>1, SenderAlone DEF RelayInv, RelayTypeOK, Roles
<1>2. CASE Relay
  BY <1>2, RelayTypes, RelayIsOutside DEF RelayInv
<1>3. CASE HeartbeatFails \/ World
  BY <1>3, WorldIsOutside
<1>4. CASE UNCHANGED vars
  BY <1>4 DEF RelayInv, RelayTypeOK, Roles
<1> QED  BY <1>1, <1>2, <1>3, <1>4 DEF Next

LEMMA RelayInvariant == Spec => []RelayInv
BY InitRelay, NextRelay, PTL DEF Spec

\* The types of the relay's state.
THEOREM RelayIsTyped == Spec => []RelayTypeOK
BY RelayInvariant, PTL DEF RelayInv

\* Relay and sender together implement the sender with any other end: whatever is
\* proved of the sender alone holds of the sender of every session.
THEOREM RelayKeepsSender == Spec => SenderSpec
<1>1. Init => SenderInit
  BY DEF Init
<1> QED  BY <1>1, RelayInvariant, NextRelay, PTL DEF Spec, SenderSpec

\* The account of the queue is exact also under the relay.
THEOREM GatewayAccountIsExact == Spec => []BytesAccounted
BY RelayKeepsSender, AccountIsExact, PTL

\* No two runs of a sender overlap, with a relay or without.
THEOREM GatewayRunsAreSeparate == Spec => []RunsDoNotOverlap
BY RelayKeepsSender, RunsAreSeparate, PTL
=============================================================================
