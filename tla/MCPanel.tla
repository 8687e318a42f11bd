------------------------------ MODULE MCPanel ------------------------------
EXTENDS PanelRecovery

\* What a superseded run or session left behind and nobody reads again is not
\* part of the state's identity: no action and no property looks at it.
Past(r) == r < run /\ exited[r]
RunView(r) ==
    IF Past(r)
    THEN <<pc[r] \in HoldsStopLock, pc[r]>>
    ELSE <<cancel[r], expected[r], ready[r], startSent[r], started[r], exited[r], reason[r],
           entry[r], runKey[r], runProfile[r], proc[r], asked[r], pipe[r], pc[r], outcome[r]>>
SessionView(s) ==
    IF s # session
    THEN <<active[s], key[s], timer[s]>>
    ELSE <<active[s], key[s], timer[s], armed[s], enabled[s], exhausted[s], attempts[s],
           profile[s]>>
View == <<panelVars, run, session, sessions,
          [r \in Runs |-> RunView(r)], [s \in Sessions |-> SessionView(s)],
          [r \in Runs |-> sessionOf[r] = session /\ r <= run],
          [t \in Callers |-> pc[t]], target>>
=============================================================================
