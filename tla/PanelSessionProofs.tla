------------------------- MODULE PanelSessionProofs -------------------------
(***************************************************************************)
(* Proofs that a session always has somebody who drives or ends it, that   *)
(* it never exceeds its budget of restarts, that its end leaves nothing    *)
(* behind, and that Panel implements Recovery: every step of the panel is, *)
(* for the session, a step the contract allows.  And that the phase shown  *)
(* is true: an active one of its run, and "idle" of a panel at rest.       *)
(***************************************************************************)
EXTENDS PanelProofs, PanelRecovery, FiniteSetTheorems

USE DEF panelVars, sessionVars, runVars, procVars, threadVars

-----------------------------------------------------------------------------
(* Why a run ends: who asks for it leaves the reason before asking.        *)

\* A run not launched yet has nothing to clean up; a collected one is clean.
Unlaunched == \A r \in Runs : r > run => ~expected[r] /\ ~runKey[r]
Collected == \A r \in Runs : exited[r] => cancel[r] /\ ~runKey[r]

\* Whoever is inside _terminate, of a run that exists, has marked it expected.
StopIsExpected ==
    \A t \in Threads : pc[t] \in {"stop_lock"} \cup HoldsStopLock =>
        Target(t) \in Runs /\ expected[Target(t)]

\* A run that is expected to end has its reason, and nobody signals another.
ExpectedHasReason == \A r \in Runs : expected[r] => reason[r] # "none"
OutcomeIsSet == \A r \in Runs : pc[r] \in FinishPoints => outcome[r] # "none"
AskedIsExpected == \A r \in Runs : asked[r] # "no" => expected[r]
EndedWasAsked == \A r \in Runs : proc[r] = "ended" => asked[r] # "no"

\* A collected run has an entry, whose reason is its own only if nobody asked.
ExitHasReason ==
    \A r \in Runs : exited[r] => entry[r] # "none" /\ (expected[r] => entry[r] # "process_exit")

EndInv ==
    /\ Unlaunched /\ Collected /\ StopIsExpected /\ ExpectedHasReason
    /\ OutcomeIsSet /\ AskedIsExpected /\ EndedWasAsked /\ ExitHasReason

LEMMA CallersAreNotRuns == \A t \in Callers : t \notin Runs
BY ThreadAssumption, BoundsAssumption DEF Runs

LEMMA InitEnd == Init => EndInv
BY CallersAreNotRuns DEF Init, EndInv, Unlaunched, Collected, StopIsExpected, ExpectedHasReason, OutcomeIsSet,
   AskedIsExpected, EndedWasAsked, ExitHasReason, HoldsStopLock, FinishPoints, Threads

\* A launch, of a run nobody has asked to end.
LEMMA LaunchEnd ==
    ASSUME TypeInv, EncoderInv, EndInv, NEW s, NEW k, NEW rev, Launch(s, k, rev)
    PROVE  EndInv'
<1>0. /\ run \in Nat /\ run' = run + 1 /\ run' \in Runs
      /\ UNCHANGED <<cancel, expected, exited, reason, entry, asked, outcome, target>>
  BY DEF Launch, TypeInv, TypeOK, PanelType
<1>1. /\ runKey' = [runKey EXCEPT ![run'] = k] /\ proc' = [proc EXCEPT ![run'] = "fresh"]
      /\ pc' = [pc EXCEPT ![run'] = "send_probe"]
  BY <1>0 DEF Launch
<1>2. ~exited[run']
  BY <1>0 DEF EncoderInv, RunsInv, Unborn
<1>3. Unlaunched'
  BY <1>0, <1>1 DEF EndInv, Unlaunched, Runs, TypeInv, TypeOK, RunType
<1>4. Collected'
  BY <1>0, <1>1, <1>2 DEF EndInv, Collected, TypeInv, TypeOK, RunType
<1>5. StopIsExpected'
  BY <1>0, <1>1 DEF EndInv, StopIsExpected, Target, HoldsStopLock, TypeInv, TypeOK, ThreadType
<1>6. OutcomeIsSet'
  BY <1>0, <1>1 DEF EndInv, OutcomeIsSet, FinishPoints, TypeInv, TypeOK, ThreadType, Threads
<1>7. ExpectedHasReason' /\ AskedIsExpected'
  BY <1>0 DEF EndInv, ExpectedHasReason, AskedIsExpected
<1>8. EndedWasAsked' /\ ExitHasReason'
  BY <1>0, <1>1, <1>2 DEF EndInv, EndedWasAsked, ExitHasReason, TypeInv, TypeOK, ProcType
<1> QED  BY <1>3, <1>4, <1>5, <1>6, <1>7, <1>8 DEF EndInv

\* A step that touches none of this.
LEMMA EndFrame ==
    ASSUME EndInv,
           UNCHANGED <<run, cancel, expected, exited, reason, entry, runKey, proc, asked, pc, outcome,
               target>>
    PROVE  EndInv'
BY DEF EndInv, Unlaunched, Collected, StopIsExpected, ExpectedHasReason, OutcomeIsSet, AskedIsExpected,
   EndedWasAsked, ExitHasReason, Target

LEMMA StopBeginEnd ==
    ASSUME TypeInv, EncoderInv, EndInv, NEW t \in Callers, StopBegin(t)
    PROVE  EndInv'
<1>0. /\ UNCHANGED <<run, exited, entry, runKey, proc, asked, outcome>>
      /\ reason' = [r \in Runs |-> StopReason(r)]
  BY DEF StopBegin
<1>1. \A r \in Runs : reason[r] # "none" \/ r = run => reason'[r] # "none"
  BY <1>0 DEF StopReason, TypeInv, TypeOK, RunType
<1>2. t \in Threads /\ t \notin Runs /\ Rest(t) \in {"idle", "done"}
  BY CallersAreNotRuns DEF Threads, Rest
<1>3. CASE run = 0 \/ (run # 0 /\ exited[run])
  <2>1. UNCHANGED <<cancel, expected, target>> /\ pc' = [pc EXCEPT ![t] = Rest(t)]
    BY <1>3 DEF StopBegin
  <2>2. StopIsExpected'
    BY <1>2, <2>1 DEF EndInv, StopIsExpected, Target, HoldsStopLock, TypeInv, TypeOK, ThreadType
  <2>3. OutcomeIsSet'
    BY <1>0, <1>2, <2>1 DEF EndInv, OutcomeIsSet, TypeInv, TypeOK, ThreadType, Threads
  <2> QED  BY <1>0, <1>1, <2>1, <2>2, <2>3 DEF EndInv, Unlaunched, Collected, ExpectedHasReason,
           AskedIsExpected, EndedWasAsked, ExitHasReason
<1>4. CASE ~(run = 0 \/ (run # 0 /\ exited[run]))
  <2>0. run \in Runs /\ ~exited[run] /\ run \in Nat
    BY <1>4, BoundsAssumption DEF TypeInv, TypeOK, PanelType, Runs
  <2>1. /\ expected' = [expected EXCEPT ![run] = TRUE] /\ cancel' = [cancel EXCEPT ![run] = TRUE]
        /\ target' = [target EXCEPT ![t] = run] /\ pc' = [pc EXCEPT ![t] = "stop_lock"]
    BY <1>4 DEF StopBegin
  <2>2. StopIsExpected'
    BY <1>2, <2>0, <2>1 DEF EndInv, StopIsExpected, Target, TypeInv, TypeOK, ThreadType, RunType, Threads
  <2>3. OutcomeIsSet'
    BY <1>0, <1>2, <2>1 DEF EndInv, OutcomeIsSet, TypeInv, TypeOK, ThreadType, Threads
  <2>4. Unlaunched' /\ Collected'
    BY <1>0, <2>0, <2>1 DEF EndInv, Unlaunched, Collected, TypeInv, TypeOK, RunType, Runs
  <2>5. ExpectedHasReason' /\ AskedIsExpected'
    BY <1>0, <1>1, <2>0, <2>1 DEF EndInv, ExpectedHasReason, AskedIsExpected, TypeInv, TypeOK, RunType
  <2>6. EndedWasAsked' /\ ExitHasReason'
    BY <1>0, <2>0, <2>1 DEF EndInv, EndedWasAsked, ExitHasReason, TypeInv, TypeOK, RunType
  <2> QED  BY <2>2, <2>3, <2>4, <2>5, <2>6 DEF EndInv
<1> QED  BY <1>3, <1>4

LEMMA RequestEnd == ASSUME TypeInv, EncoderInv, EndInv, Requests PROVE EndInv'
<1>1. ASSUME LaunchFails PROVE EndInv'
  BY <1>1, EndFrame DEF LaunchFails
<1>2. ASSUME NEW auto \in BOOLEAN, NEW k \in Keys, Start(auto, k) PROVE EndInv'
  BY <1>1, <1>2, LaunchEnd DEF Start
<1>3. ASSUME NEW k \in Keys, Probe(k) PROVE EndInv'
  BY <1>1, <1>3, LaunchEnd DEF Probe
<1>4. ASSUME SaveConfig \/ StartPreview \/ StopPreview PROVE EndInv'
  BY <1>4, EndFrame DEF SaveConfig, StartPreview, StopPreview
<1>5. ASSUME NEW t \in Callers, Close(t) PROVE EndInv'
  <2>1. /\ UNCHANGED <<run, cancel, expected, exited, reason, entry, runKey, proc, asked, outcome, target>>
        /\ pc' = [pc EXCEPT ![t] = "closing"] /\ t \notin Runs /\ pc \in [Threads -> Points]
    BY <1>5, CallersAreNotRuns DEF Close, TypeInv, TypeOK, ThreadType
  <2>2. StopIsExpected' /\ OutcomeIsSet'
    BY <2>1 DEF EndInv, StopIsExpected, OutcomeIsSet, Target, HoldsStopLock, Threads
  <2> QED  BY <2>1, <2>2 DEF EndInv, Unlaunched, Collected, ExpectedHasReason, AskedIsExpected, EndedWasAsked,
           ExitHasReason
<1> QED  BY <1>2, <1>3, <1>4, <1>5, StopBeginEnd DEF Requests

LEMMA RetryingEnd ==
    ASSUME TypeInv, EncoderInv, EndInv, NEW s \in Sessions, Retrying(s)
    PROVE  EndInv'
<1>1. CASE TimerFires(s) \/ TimerCancelled(s) \/ (Restart(s) /\ ~MayRestart(s))
  BY <1>1, EndFrame DEF TimerFires, TimerCancelled, Restart
<1>2. CASE Restart(s) /\ MayRestart(s)
  <2>1. Launch(s, key[s], profile[s]) \/ LaunchFails
    BY <1>2 DEF Restart
  <2> QED  BY <2>1, LaunchEnd, EndFrame DEF LaunchFails
<1> QED  BY <1>1, <1>2 DEF Retrying

\* A configure thread that moves on without marking anything as expected.
LEMMA PointMoves ==
    ASSUME TypeInv, EndInv, NEW r \in Runs,
           UNCHANGED <<run, cancel, expected, exited, reason, entry, runKey, asked, target>>,
           NEW p \in Points \ ({"stop_lock"} \cup HoldsStopLock), pc' = [pc EXCEPT ![r] = p],
           NEW o \in Reasons, outcome' = [outcome EXCEPT ![r] = o],
           p \in FinishPoints => o # "none",
           \A q \in Runs : proc'[q] \in {"ended", "crashed"} => proc'[q] = proc[q],
           \A q \in Runs : exited[q] => proc'[q] = proc[q]
    PROVE  EndInv'
<1>1. StopIsExpected'
  BY DEF EndInv, StopIsExpected, Target, TypeInv, TypeOK, ThreadType
<1>2. OutcomeIsSet'
  BY DEF EndInv, OutcomeIsSet, TypeInv, TypeOK, ThreadType, Threads
<1>3. Unlaunched' /\ Collected' /\ ExpectedHasReason' /\ AskedIsExpected'
  BY DEF EndInv, Unlaunched, Collected, ExpectedHasReason, AskedIsExpected
<1>4. EndedWasAsked' /\ ExitHasReason'
  BY DEF EndInv, EndedWasAsked, ExitHasReason
<1> QED  BY <1>1, <1>2, <1>3, <1>4 DEF EndInv

LEMMA ConfiguringEnd ==
    ASSUME TypeInv, EncoderInv, EndInv, NEW r \in Runs, Configuring(r)
    PROVE  EndInv'
<1>0. /\ pc \in [Threads -> Points] /\ r \in Threads /\ outcome \in [Runs -> Reasons]
      /\ outcome[r] \in Reasons /\ outcome = [outcome EXCEPT ![r] = outcome[r]]
  BY DEF TypeInv, TypeOK, ThreadType, Threads
<1>1. CASE SendProbe(r) \/ SendStart(r)
  <2>1. \A q \in Runs : proc'[q] # proc[q] => Alive(q) /\ proc'[q] \in {"probing", "ordered"}
    BY <1>1 DEF SendProbe, SendStart, Reaches, TypeInv, TypeOK, ProcType
  <2>2. \A q \in Runs : exited[q] => proc'[q] = proc[q]
    BY <2>1 DEF EncoderInv, RunsInv, ExitedIsDead
  <2>3. PICK p \in {"await_ready", "await_started", "done", "send_failed"}, o \in Reasons :
           /\ pc' = [pc EXCEPT ![r] = p] /\ outcome' = [outcome EXCEPT ![r] = o]
           /\ p = "send_failed" => o # "none"
    BY <1>0, <1>1 DEF SendProbe, SendStart, GoTo, Reasons, Failures
  <2> QED  BY <1>1, <2>1, <2>2, <2>3, PointMoves DEF SendProbe, SendStart, GoTo, Moves, Points, FinishPoints,
              HoldsStopLock
<1>2. CASE AwaitOver(r) \/ AwaitFails(r) \/ TelemetryEnds(r)
  <2>3. PICK p \in {"decide", "telemetry", "done", "timed_out"}, o \in Reasons :
           /\ pc' = [pc EXCEPT ![r] = p] /\ outcome' = [outcome EXCEPT ![r] = o]
           /\ p = "timed_out" => o # "none"
    BY <1>0, <1>2 DEF AwaitOver, AwaitFails, TelemetryEnds, GoTo, Reasons, Failures
  <2> QED  BY <1>2, <2>3, PointMoves DEF AwaitOver, AwaitFails, TelemetryEnds, GoTo, Moves, Points,
              FinishPoints, HoldsStopLock
<1>3. CASE Decide(r)
  <2>3. PICK p \in {"unsupported", "complete", "done", "send_start"}, o \in Reasons :
           /\ pc' = [pc EXCEPT ![r] = p] /\ outcome' = [outcome EXCEPT ![r] = o]
           /\ p \in {"unsupported", "complete"} => o # "none"
    BY <1>0, <1>3 DEF Decide, GoTo, Reasons, Failures
  <2> QED  BY <1>3, <2>3, PointMoves DEF Decide, GoTo, Points, FinishPoints, HoldsStopLock
<1>4. CASE FinishEnd(r)
  <2>1. pc' = [pc EXCEPT ![r] = "done"] /\ outcome' = [outcome EXCEPT ![r] = outcome[r]]
    BY <1>0, <1>4 DEF FinishEnd, GoTo
  <2> QED  BY <1>0, <1>4, <2>1, PointMoves DEF FinishEnd, GoTo, Points, FinishPoints, HoldsStopLock
<1>5. CASE FinishBegin(r) /\ (r # run \/ cancel[r])
  <2>1. pc' = [pc EXCEPT ![r] = "done"] /\ outcome' = [outcome EXCEPT ![r] = outcome[r]]
    BY <1>0, <1>5 DEF FinishBegin, GoTo
  <2>2. UNCHANGED <<run, cancel, expected, exited, reason, entry, runKey, asked, target, proc>>
    BY <1>5 DEF FinishBegin, GoTo
  <2>3. "done" \in Points \ ({"stop_lock"} \cup HoldsStopLock) /\ "done" \notin FinishPoints
    BY DEF Points, FinishPoints, HoldsStopLock
  <2>4. /\ \A q \in Runs : proc'[q] \in {"ended", "crashed"} => proc'[q] = proc[q]
        /\ \A q \in Runs : exited[q] => proc'[q] = proc[q]
    BY <2>2
  <2> QED  BY <1>0, <2>1, <2>2, <2>3, <2>4, PointMoves
<1>6. CASE FinishBegin(r) /\ ~(r # run \/ cancel[r])
  <2>0. r = run /\ ~exited[r] /\ outcome[r] # "none" /\ run \in Nat
    BY <1>6 DEF FinishBegin, EndInv, Collected, OutcomeIsSet, TypeInv, TypeOK, PanelType
  <2>1. /\ UNCHANGED <<run, cancel, exited, entry, runKey, proc, asked, outcome, target>>
        /\ expected' = [expected EXCEPT ![r] = TRUE] /\ reason' = [reason EXCEPT ![r] = outcome[r]]
        /\ pc' = [pc EXCEPT ![r] = "stop_lock"]
    BY <1>6 DEF FinishBegin, GoTo
  <2>2. StopIsExpected'
    BY <2>1 DEF EndInv, StopIsExpected, Target, TypeInv, TypeOK, ThreadType, RunType, Threads
  <2>3. OutcomeIsSet'
    BY <1>0, <2>1 DEF EndInv, OutcomeIsSet, FinishPoints
  <2>4. Unlaunched' /\ Collected'
    BY <2>0, <2>1 DEF EndInv, Unlaunched, Collected, TypeInv, TypeOK, RunType
  <2>5. ExpectedHasReason' /\ AskedIsExpected'
    BY <2>0, <2>1 DEF EndInv, ExpectedHasReason, AskedIsExpected, TypeInv, TypeOK, RunType
  <2>6. EndedWasAsked' /\ ExitHasReason'
    BY <2>0, <2>1 DEF EndInv, EndedWasAsked, ExitHasReason, TypeInv, TypeOK, RunType
  <2> QED  BY <2>2, <2>3, <2>4, <2>5, <2>6 DEF EndInv
<1> QED  BY <1>1, <1>2, <1>3, <1>4, <1>5, <1>6 DEF Configuring

\* _terminate asks only the run it was called for, which is expected to end.
LEMMA StoppingEnd ==
    ASSUME TypeInv, EncoderInv, EndInv, NEW t \in Threads, Stopping(t)
    PROVE  EndInv'
<1>0. /\ UNCHANGED <<run, exited, reason, entry, runKey, proc, outcome>>
      /\ pc \in [Threads -> Points] /\ expected \in [Runs -> BOOLEAN] /\ cancel \in [Runs -> BOOLEAN]
  BY DEF Stopping, TerminateBegin, ProcessGone, Escalate, StopEnd, Terminating, TypeInv, TypeOK, ThreadType,
     RunType
<1>1. CASE TerminateBegin(t) \/ ProcessGone(t) \/ Escalate(t)
  <2>0. Target(t) \in Runs /\ expected[Target(t)]
    BY <1>1 DEF TerminateBegin, ProcessGone, Escalate, EndInv, StopIsExpected, HoldsStopLock
  <2>1. target' = target /\ expected' = expected /\ \A r \in Runs : cancel[r] => cancel'[r]
    BY <1>0, <1>1, <2>0 DEF TerminateBegin, ProcessGone, Escalate, GoTo
  <2>7. \A r \in Runs : asked'[r] # asked[r] => r = Target(t) /\ asked'[r] # "no"
    <3>1. asked \in [Runs -> {"no", "quit", "term", "kill"}]
      BY DEF TypeInv, TypeOK, ProcType
    <3>2. asked' = asked \/ \E a \in {"quit", "term", "kill"} \cup {asked[Target(t)]} :
              (a = "no" => asked[Target(t)] = a) /\ asked' = [asked EXCEPT ![Target(t)] = a]
      BY <1>1 DEF TerminateBegin, ProcessGone, Escalate
    <3> QED  BY <2>0, <3>1, <3>2
  <2>2. PICK p \in {"wait_quit", "settle", "wait_term", "wait_kill", "idle", "done"} :
           pc' = [pc EXCEPT ![t] = p]
    BY <1>1 DEF TerminateBegin, ProcessGone, Escalate, GoTo, Rest
  <2>3. StopIsExpected'
    BY <1>0, <2>0, <2>1, <2>2 DEF EndInv, StopIsExpected, Target, HoldsStopLock
  <2>4. OutcomeIsSet'
    BY <1>0, <2>2 DEF EndInv, OutcomeIsSet, FinishPoints, Threads
  <2>5. Unlaunched' /\ Collected' /\ ExpectedHasReason'
    BY <1>0, <2>1 DEF EndInv, Unlaunched, Collected, ExpectedHasReason
  <2>6. AskedIsExpected' /\ EndedWasAsked' /\ ExitHasReason'
    BY <1>0, <2>0, <2>1, <2>7 DEF EndInv, AskedIsExpected, EndedWasAsked, ExitHasReason
  <2> QED  BY <2>3, <2>4, <2>5, <2>6 DEF EndInv
<1>2. CASE StopEnd(t)
  <2>1. /\ t \in Callers /\ t \notin Runs /\ target \in [Callers -> 0..MaxRuns]
        /\ UNCHANGED <<cancel, expected, asked>> /\ target' = [target EXCEPT ![t] = 0]
        /\ pc' = [pc EXCEPT ![t] = Rest(t)] /\ Rest(t) \in {"idle", "done"}
    BY <1>2, CallersAreNotRuns DEF StopEnd, Rest, TypeInv, TypeOK, ThreadType
  <2>2. StopIsExpected' /\ OutcomeIsSet'
    BY <1>0, <2>1 DEF EndInv, StopIsExpected, OutcomeIsSet, Target, HoldsStopLock, FinishPoints, Threads
  <2> QED  BY <1>0, <2>1, <2>2 DEF EndInv, Unlaunched, Collected, ExpectedHasReason, AskedIsExpected,
           EndedWasAsked, ExitHasReason
<1> QED  BY <1>1, <1>2 DEF Stopping

LEMMA ProcessEnd ==
    ASSUME TypeInv, EncoderInv, EndInv, NEW r \in Runs, NEW l \in Lines, Emit(r, l) \/ ProcessExit(r)
    PROVE  EndInv'
<1>1. UNCHANGED <<run, cancel, expected, exited, reason, entry, runKey, asked, pc, outcome, target>>
  BY DEF Emit, ProcessExit, Environment
<1>2. /\ ~exited[r] /\ \A q \in Runs : q # r => proc'[q] = proc[q]
      /\ proc'[r] = "ended" => asked[r] # "no"
  <2>1. ~exited[r] /\ \A q \in Runs : q # r => proc'[q] = proc[q]
    BY DEF Emit, ProcessExit, EncoderInv, RunsInv, ExitedIsDead, TypeInv, TypeOK, ProcType
  <2>2. proc'[r] = "ended" => asked[r] # "no"
    BY DEF Emit, ProcessExit, AfterLine, Alive, LiveStates, TypeInv, TypeOK, ProcType
  <2> QED  BY <2>1, <2>2
<1>3. EndedWasAsked' /\ ExitHasReason'
  BY <1>1, <1>2 DEF EndInv, EndedWasAsked, ExitHasReason
<1> QED  BY <1>1, <1>3 DEF EndInv, Unlaunched, Collected, StopIsExpected, ExpectedHasReason, OutcomeIsSet,
         AskedIsExpected, Target

\* The exit of a run is written down with the reason it was given.
LEMMA CollectorEnd ==
    ASSUME TypeInv, EncoderInv, EndInv, NEW r \in Runs, Collecting(r)
    PROVE  EndInv'
<1>1. CASE LineReady(r) \/ LineStarted(r) \/ LineSignal(r) \/ LineChanged(r)
  <2>1. UNCHANGED <<run, cancel, expected, exited, entry, runKey, proc, asked, pc, outcome, target>>
    BY <1>1 DEF LineReady, LineStarted, LineSignal, LineChanged, NextLine
  <2>2. \A q \in Runs : reason[q] # "none" => reason'[q] # "none"
    BY <1>1 DEF LineReady, LineStarted, LineSignal, LineChanged, TypeInv, TypeOK, RunType
  <2> QED  BY <2>1, <2>2 DEF EndInv, Unlaunched, Collected, StopIsExpected, ExpectedHasReason, OutcomeIsSet,
           AskedIsExpected, EndedWasAsked, ExitHasReason, Target
<1>2. CASE CollectExit(r)
  <2>0. /\ UNCHANGED <<run, expected, reason, proc, asked, pc, outcome, target>>
        /\ cancel' = [cancel EXCEPT ![r] = TRUE] /\ runKey' = [runKey EXCEPT ![r] = FALSE]
        /\ exited' = [exited EXCEPT ![r] = TRUE] /\ ~exited[r] /\ proc[r] \in {"crashed", "ended"}
    BY <1>2 DEF CollectExit
  <2>1. r = run
    BY <2>0 DEF EncoderInv, RunsInv, Unborn, Superseded, TypeInv, TypeOK, PanelType, Runs
  <2>2. entry' = [entry EXCEPT ![r] = IF reason[r] = "none" THEN "process_exit" ELSE reason[r]]
    BY <1>2, <2>1 DEF CollectExit
  <2>3. proc[r] = "ended" => reason[r] # "none" /\ reason[r] \in Reasons
    BY DEF EndInv, EndedWasAsked, AskedIsExpected, ExpectedHasReason, TypeInv, TypeOK, RunType
  <2>4. reason[r] # "process_exit" /\ (reason[r] = "none" => ~expected[r])
    BY DEF EndInv, ExpectedHasReason, TypeInv, TypeOK, RunType, Reasons, Failures
  <2>5. ExitHasReason'
    BY <2>0, <2>2, <2>3, <2>4 DEF EndInv, ExitHasReason, TypeInv, TypeOK, RunType
  <2>6. Unlaunched' /\ Collected'
    BY <2>0 DEF EndInv, Unlaunched, Collected, TypeInv, TypeOK, RunType
  <2> QED  BY <2>0, <2>5, <2>6 DEF EndInv, StopIsExpected, ExpectedHasReason, OutcomeIsSet, AskedIsExpected,
           EndedWasAsked, Target
<1> QED  BY <1>1, <1>2 DEF Collecting

LEMMA NextEnd == TypeInv /\ EncoderInv /\ EndInv /\ [Next]_vars => EndInv'
<1> SUFFICES ASSUME TypeInv, EncoderInv, EndInv, [Next]_vars PROVE EndInv'
  OBVIOUS
<1>1. CASE Requests
  BY <1>1, RequestEnd
<1>2. ASSUME NEW s \in Sessions, Retrying(s) PROVE EndInv'
  BY <1>2, RetryingEnd
<1>3. ASSUME NEW r \in Runs, Configuring(r) PROVE EndInv'
  BY <1>3, ConfiguringEnd
<1>4. ASSUME NEW r \in Runs, Collecting(r) PROVE EndInv'
  BY <1>4, CollectorEnd
<1>5. ASSUME NEW r \in Runs, ProcessExit(r) PROVE EndInv'
  BY <1>5, ProcessEnd DEF Lines
<1>6. ASSUME NEW r \in Runs, NEW l \in Lines, Emit(r, l) PROVE EndInv'
  BY <1>6, ProcessEnd
<1>7. ASSUME NEW t \in Threads, Stopping(t) PROVE EndInv'
  BY <1>7, StoppingEnd
<1>8. CASE UNCHANGED vars
  BY <1>8, EndFrame DEF vars
<1> QED  BY <1>1, <1>2, <1>3, <1>4, <1>5, <1>6, <1>7, <1>8 DEF Next

-----------------------------------------------------------------------------
(* The sessions.                                                           *)

\* An active session is the panel's, the last run is its own, and nobody has
\* asked that run to end; once the run is collected, a restart is on its way.
ActiveOwnsRun ==
    \A s \in Sessions : active[s] => s = session /\ run # 0 /\ sessionOf[run] = s /\ ~expected[run]
WaitsArmed ==
    \A s \in Sessions : active[s] /\ exited[run] =>
        armed[s] /\ enabled[s] /\ (closing \/ timer[s] # "none")
KeyOfActive == \A s \in Sessions : key[s] => active[s]

\* A session not started yet is blank, and no run is one of it.
Unstarted ==
    \A s \in Sessions : s > sessions =>
        ~active[s] /\ ~armed[s] /\ ~exhausted[s] /\ attempts[s] = 0
OfStarted == \A r \in Runs : sessionOf[r] <= sessions

SessionInv ==
    /\ ActiveOwnsRun /\ WaitsArmed /\ KeyOfActive /\ Unstarted /\ OfStarted
    /\ RestartWaitHasTimer /\ ProfileShownIsRun /\ PreviewHasEncoder /\ BudgetRespected

LEMMA InitSession == Init => SessionInv
<1> SUFFICES ASSUME Init PROVE SessionInv
  OBVIOUS
<1>1. ActiveOwnsRun /\ WaitsArmed /\ KeyOfActive /\ Unstarted /\ OfStarted
  BY DEF Init, ActiveOwnsRun, WaitsArmed, KeyOfActive, Unstarted, OfStarted
<1>2. RestartWaitHasTimer /\ ProfileShownIsRun /\ PreviewHasEncoder
  BY DEF Init, RestartWaitHasTimer, ProfileShownIsRun, PreviewHasEncoder
<1>3. BudgetRespected
  BY DEF Init, BudgetRespected
<1> QED  BY <1>1, <1>2, <1>3 DEF SessionInv

LEMMA RunInRange ==
    ASSUME TypeInv
    PROVE  run \in Nat /\ (run # 0 => run \in Runs)
BY BoundsAssumption DEF TypeInv, TypeOK, PanelType, Runs

\* A step that launches nothing, collects nothing and starts no session, but may
\* cancel one: then it leaves "restart_wait".
LEMMA SessionFrame ==
    ASSUME TypeInv, EncoderInv, SessionInv,
           UNCHANGED <<run, session, sessions, enabled, exhausted, attempts, profile, revision,
                       sessionOf, exited, runProfile>>,
           \A s \in Sessions : active'[s] => active[s] /\ (expected'[run] => expected[run]),
           \A s \in Sessions : key'[s] => key[s] /\ active'[s],
           \A s \in Sessions : (armed[s] => armed'[s]) /\ (armed'[s] => armed[s] \/ active[s]),
           \A s \in Sessions : active'[s] /\ timer'[s] = "none" => timer[s] = "none" \/ closing,
           closing => closing',
           phase' = "restart_wait" => phase = "restart_wait" /\ active' = active,
           \A r \in Runs : exited[r] => proc'[r] = proc[r],
           preview' => preview \/ (run # 0 /\ ~exited[run])
    PROVE  SessionInv'
<1>0. run # 0 => run \in Runs
  BY RunInRange
<1>1. ActiveOwnsRun' /\ WaitsArmed' /\ KeyOfActive'
  BY DEF SessionInv, ActiveOwnsRun, WaitsArmed, KeyOfActive
<1>2. Unstarted' /\ OfStarted'
  BY DEF SessionInv, Unstarted, OfStarted
<1>3. RestartWaitHasTimer'
  BY <1>0, SessionInRange DEF SessionInv, RestartWaitHasTimer, Alive
<1>4. ProfileShownIsRun'
  BY SessionInRange DEF SessionInv, ProfileShownIsRun
<1>5. PreviewHasEncoder'
  BY DEF SessionInv, PreviewHasEncoder
<1>6. BudgetRespected'
  <2>1. \A s \in 1..sessions : s \in Sessions
    BY BoundsAssumption DEF TypeInv, TypeOK, PanelType, Sessions
  <2> QED  BY <2>1 DEF SessionInv, BudgetRespected, Launches
<1> QED  BY <1>1, <1>2, <1>3, <1>4, <1>5, <1>6 DEF SessionInv

\* What a launch gives: a run of its session that nobody has asked to end.
LEMMA LaunchFacts ==
    ASSUME TypeInv, EncoderInv, EndInv, NEW s \in 0..MaxSessions, NEW k, NEW rev \in 0..MaxRevision,
           Launch(s, k, rev)
    PROVE  /\ run' = run + 1 /\ run' \in Runs /\ run' # 0
           /\ sessionOf' = [sessionOf EXCEPT ![run'] = s] /\ sessionOf'[run'] = s
           /\ runProfile'[run'] = rev
           /\ ~expected'[run'] /\ ~exited'[run'] /\ exited' = exited
           /\ phase' = "probing" /\ UNCHANGED <<preview, closing, revision>>
<1>1. run' = run + 1 /\ run' \in Runs /\ run \in Nat
  BY DEF Launch, TypeInv, TypeOK, PanelType
<1> QED  BY <1>1 DEF Launch, EncoderInv, RunsInv, Unborn, EndInv, Unlaunched, Runs, TypeInv, TypeOK, RunType

\* A launch counts once, for its own session.
LEMMA LaunchCount ==
    ASSUME TypeInv, NEW s \in 0..MaxSessions, NEW k, NEW rev, Launch(s, k, rev), NEW x \in Sessions
    PROVE  /\ Cardinality(Launches(x)) \in Nat /\ Cardinality(Launches(x)') \in Nat
           /\ Cardinality(Launches(x)') <= Cardinality(Launches(x)) + 1
           /\ x # s => Launches(x)' = Launches(x)
<1>0. /\ run \in Nat /\ run' = run + 1 /\ run' \in Runs
      /\ sessionOf' = [sessionOf EXCEPT ![run'] = s] /\ sessionOf \in [Runs -> 0..MaxSessions]
      /\ 1..run \subseteq Runs
  BY BoundsAssumption DEF Launch, TypeInv, TypeOK, PanelType, RunType, Runs
<1>1. IsFiniteSet(Launches(x)) /\ Cardinality(Launches(x)) \in Nat
  <2>1. IsFiniteSet(1..run)
    BY <1>0, FS_Interval
  <2>2. IsFiniteSet(Launches(x))
    BY <2>1, FS_Subset DEF Launches
  <2> QED  BY <2>2, FS_CardinalityType
<1>2. Launches(x)' = IF x = s THEN Launches(x) \cup {run'} ELSE Launches(x)
  BY <1>0 DEF Launches, Runs
<1>3. run' \notin Launches(x)
  BY <1>0 DEF Launches
<1>4. Cardinality(Launches(x) \cup {run'}) = Cardinality(Launches(x)) + 1
  BY <1>1, <1>3, FS_AddElement
<1> QED  BY <1>1, <1>2, <1>4

LEMMA NothingLaunched ==
    ASSUME TypeInv, SessionInv, NEW x \in Sessions, x > sessions
    PROVE  Launches(x) = {}
BY RunInRange, BoundsAssumption DEF SessionInv, OfStarted, Launches, TypeInv, TypeOK, PanelType, RunType,
   Runs, Sessions

LEMMA StartSession ==
    ASSUME TypeInv, EncoderInv, EndInv, SessionInv, NEW auto \in BOOLEAN, NEW k \in Keys, Start(auto, k)
    PROVE  SessionInv'
<1>0. PICK s \in Sessions :
        /\ s = sessions + 1 /\ sessions \in Nat /\ sessions' = s /\ session' = s /\ s \in 0..MaxSessions
        /\ revision \in 0..MaxRevision
  BY BoundsAssumption DEF Start, NewSession, TypeInv, TypeOK, PanelType, Sessions
<1>1. \A x \in Sessions : ~active[x] /\ ~key[x]
  BY DEF Start, Admits, Busy, SessionInv, ActiveOwnsRun, KeyOfActive, Sessions
<1>2. /\ enabled' = [enabled EXCEPT ![s] = auto] /\ profile' = [profile EXCEPT ![s] = revision]
      /\ UNCHANGED <<armed, exhausted, attempts, timer>>
  BY <1>0 DEF Start, NewSession
<1>3. ~armed[s] /\ ~exhausted[s] /\ attempts[s] = 0
  BY <1>0 DEF SessionInv, Unstarted
<1>4. CASE /\ Launch(s, k, revision)
           /\ active' = [active EXCEPT ![s] = TRUE] /\ key' = [key EXCEPT ![s] = k]
  <2>1. /\ run' = run + 1 /\ run' \in Runs /\ run' # 0
        /\ sessionOf' = [sessionOf EXCEPT ![run'] = s] /\ sessionOf'[run'] = s
        /\ runProfile'[run'] = revision
        /\ ~expected'[run'] /\ ~exited'[run'] /\ exited' = exited
        /\ phase' = "probing" /\ UNCHANGED <<preview, closing, revision>>
    BY <1>0, <1>4, LaunchFacts
  <2>2. active'[s] /\ \A x \in Sessions : (active'[x] => x = s) /\ (key'[x] => x = s)
    BY <1>0, <1>1, <1>4 DEF TypeInv, TypeOK, SessionType
  <2>3. ActiveOwnsRun' /\ WaitsArmed' /\ KeyOfActive'
    BY <1>0, <2>1, <2>2 DEF ActiveOwnsRun, WaitsArmed, KeyOfActive
  <2>4. Unstarted' /\ OfStarted'
    BY <1>0, <1>2, <2>1, <2>2 DEF SessionInv, Unstarted, OfStarted, Sessions, TypeInv, TypeOK, RunType
  <2>5. RestartWaitHasTimer' /\ ProfileShownIsRun' /\ PreviewHasEncoder'
    BY <1>0, <1>2, <2>1 DEF RestartWaitHasTimer, ProfileShownIsRun, PreviewHasEncoder, TypeInv, TypeOK,
       SessionType
  <2>6. BudgetRespected'
    <3>1. Cardinality(Launches(s)') <= attempts'[s] + 1
      <4>1. Cardinality(Launches(s)) = 0
        BY <1>0, NothingLaunched, FS_EmptySet
      <4> QED  BY <1>0, <1>2, <1>3, <1>4, <4>1, LaunchCount
    <3>2. \A x \in 1..sessions : Launches(x)' = Launches(x) /\ x \in Sessions /\ x # s
      BY <1>0, <1>4, LaunchCount, BoundsAssumption DEF Sessions
    <3>3. \A x \in 1..sessions : Cardinality(Launches(x)') <= attempts'[x] + 1
      BY <1>2, <3>2 DEF SessionInv, BudgetRespected
    <3>4. \A x \in 1..sessions' : exhausted'[x] => attempts'[x] = MaxAttempts /\ ~active'[x]
      BY <1>0, <1>2, <1>3, <2>2, <3>2 DEF SessionInv, BudgetRespected
    <3>5. \A x \in 1..sessions' : x \in 1..sessions \/ x = s
      BY <1>0
    <3> QED  BY <3>1, <3>3, <3>4, <3>5 DEF BudgetRespected
  <2> QED  BY <2>3, <2>4, <2>5, <2>6 DEF SessionInv
<1>5. CASE LaunchFails /\ phase' = "error" /\ UNCHANGED <<active, key>>
  <2>1. ActiveOwnsRun' /\ WaitsArmed' /\ KeyOfActive'
    BY <1>1, <1>5 DEF ActiveOwnsRun, WaitsArmed, KeyOfActive
  <2>2. Unstarted' /\ OfStarted'
    BY <1>0, <1>2, <1>5 DEF SessionInv, Unstarted, OfStarted, LaunchFails, Sessions, TypeInv, TypeOK, RunType
  <2>3. RestartWaitHasTimer' /\ ProfileShownIsRun' /\ PreviewHasEncoder'
    BY <1>0, <1>1, <1>5 DEF SessionInv, RestartWaitHasTimer, ProfileShownIsRun, PreviewHasEncoder, LaunchFails
  <2>4. BudgetRespected'
    <3>1. \A x \in Sessions : Launches(x)' = Launches(x)
      BY <1>5 DEF LaunchFails, Launches
    <3>2. Cardinality(Launches(s)) = 0
      BY <1>0, NothingLaunched, FS_EmptySet
    <3>3. \A x \in 1..sessions' : x \in 1..sessions \/ x = s
      BY <1>0
    <3>4. \A x \in 1..sessions : x \in Sessions
      BY <1>0, BoundsAssumption DEF Sessions
    <3>5. \A x \in 1..sessions' : Cardinality(Launches(x)') <= attempts'[x] + 1
      BY <1>2, <1>3, <3>1, <3>2, <3>3, <3>4 DEF SessionInv, BudgetRespected
    <3>6. \A x \in 1..sessions' : exhausted'[x] => attempts'[x] = MaxAttempts /\ ~active'[x]
      BY <1>2, <1>3, <1>5, <3>3 DEF SessionInv, BudgetRespected
    <3> QED  BY <3>5, <3>6 DEF BudgetRespected
  <2> QED  BY <2>1, <2>2, <2>3, <2>4 DEF SessionInv
<1> QED  BY <1>0, <1>4, <1>5 DEF Start

LEMMA ProbeSession ==
    ASSUME TypeInv, EncoderInv, EndInv, SessionInv, NEW k \in Keys, Probe(k)
    PROVE  SessionInv'
<1>0. /\ session' = 0 /\ 0 \in 0..MaxSessions /\ revision \in 0..MaxRevision
      /\ UNCHANGED <<sessions, active, armed, enabled, exhausted, attempts, key, profile, timer>>
  BY BoundsAssumption DEF Probe, TypeInv, TypeOK, PanelType
<1>1. \A x \in Sessions : ~active[x] /\ ~key[x]
  BY DEF Probe, Admits, Busy, SessionInv, ActiveOwnsRun, KeyOfActive, Sessions
<1>2. ActiveOwnsRun' /\ WaitsArmed' /\ KeyOfActive' /\ Unstarted'
  BY <1>0, <1>1 DEF SessionInv, ActiveOwnsRun, WaitsArmed, KeyOfActive, Unstarted
<1>3. \A x \in 1..sessions : x \in Sessions /\ x # 0
  BY BoundsAssumption DEF TypeInv, TypeOK, PanelType, Sessions
<1>4. CASE Launch(0, k, revision)
  <2>1. /\ run' \in Runs /\ sessionOf' = [sessionOf EXCEPT ![run'] = 0] /\ runProfile'[run'] = revision
        /\ ~exited'[run'] /\ run' # 0 /\ phase' = "probing" /\ UNCHANGED <<preview, closing, revision>>
    BY <1>0, <1>4, LaunchFacts
  <2>2. OfStarted'
    BY <1>0, <2>1 DEF SessionInv, OfStarted, TypeInv, TypeOK, PanelType, RunType
  <2>3. RestartWaitHasTimer' /\ ProfileShownIsRun' /\ PreviewHasEncoder'
    BY <1>0, <2>1 DEF RestartWaitHasTimer, ProfileShownIsRun, PreviewHasEncoder
  <2>4. BudgetRespected'
    BY <1>0, <1>3, <1>4, LaunchCount DEF SessionInv, BudgetRespected
  <2> QED  BY <1>2, <2>2, <2>3, <2>4 DEF SessionInv
<1>5. CASE LaunchFails /\ phase' = "error"
  <2>2. OfStarted' /\ RestartWaitHasTimer' /\ ProfileShownIsRun' /\ PreviewHasEncoder'
    BY <1>0, <1>5 DEF SessionInv, OfStarted, LaunchFails, RestartWaitHasTimer, ProfileShownIsRun,
       PreviewHasEncoder
  <2>4. BudgetRespected'
    BY <1>0, <1>5 DEF SessionInv, BudgetRespected, LaunchFails, Launches
  <2> QED  BY <1>2, <2>2, <2>4 DEF SessionInv
<1> QED  BY <1>4, <1>5 DEF Probe

LEMMA RequestSession == ASSUME TypeInv, EncoderInv, EndInv, SessionInv, Requests PROVE SessionInv'
<1>1. ASSUME SaveConfig PROVE SessionInv'
  <2>0. /\ UNCHANGED <<closing, preview, run, session, sessions, active, armed, enabled, exhausted,
                       attempts, key, profile, timer, sessionOf, exited, expected, runProfile, proc>>
        /\ phase' = "idle" /\ (run = 0 \/ exited[run])
    BY <1>1 DEF SaveConfig, Busy
  <2>1. \A x \in Sessions : ~active[x]
    BY <1>1 DEF SaveConfig, Busy, SessionInv, ActiveOwnsRun, Sessions
  <2>2. RestartWaitHasTimer' /\ ProfileShownIsRun' /\ PreviewHasEncoder'
    BY <2>0, <2>1, SessionInRange DEF SessionInv, RestartWaitHasTimer, ProfileShownIsRun, PreviewHasEncoder
  <2> QED  BY <2>0, <2>2 DEF SessionInv, ActiveOwnsRun, WaitsArmed, KeyOfActive, Unstarted, OfStarted,
              BudgetRespected, Launches
<1>2. ASSUME StartPreview \/ StopPreview PROVE SessionInv'
  <2>1. preview' => preview \/ (run # 0 /\ ~exited[run])
    BY <1>2, RunInRange DEF StartPreview, StopPreview, MayPreview, EncoderInv, RunsInv, ExitedIsDead
  <2>2. \A x \in Sessions : key[x] => active[x]
    BY DEF SessionInv, KeyOfActive
  <2> QED  BY <1>2, <2>1, <2>2, SessionFrame DEF StartPreview, StopPreview
<1>3. ASSUME NEW t \in Callers, Close(t) PROVE SessionInv'
  BY <1>3, SessionFrame DEF Close, SessionInv, KeyOfActive
<1>4. ASSUME NEW t \in Callers, StopBegin(t) PROVE SessionInv'
  <2>1. \A x \in Sessions : ~active'[x] /\ ~key'[x]
    BY <1>4 DEF StopBegin, CancelSession, SessionInv, ActiveOwnsRun, KeyOfActive
  <2> QED  BY <1>4, <2>1, SessionFrame DEF StopBegin
<1> QED  BY <1>1, <1>2, <1>3, <1>4, StartSession, ProbeSession DEF Requests

\* The two ways out of Panel._schedule_restart.
LEMMA ScheduleOutcome ==
    ASSUME TypeInv, NEW n \in 0..MaxAttempts, ScheduleRestart(n)
    PROVE  \/ /\ CanRetry /\ n < MaxAttempts /\ phase' = "restart_wait"
              /\ UNCHANGED <<active, key, exhausted>>
              /\ session \in Sessions /\ session <= sessions
              /\ timer' = [timer EXCEPT ![session] = "waiting"] /\ timer'[session] = "waiting"
           \/ /\ ~(CanRetry /\ n < MaxAttempts) /\ phase' = "error" /\ CancelSession
              /\ \A s \in Sessions : exhausted'[s] => exhausted[s] \/ (s = session /\ n = MaxAttempts)
<1>1. CASE CanRetry /\ n < MaxAttempts
  BY <1>1, SessionInRange DEF ScheduleRestart, CanRetry, TypeInv, TypeOK, SessionType
<1>2. CASE ~(CanRetry /\ n < MaxAttempts)
  <2>1. phase' = "error" /\ CancelSession
    BY <1>2 DEF ScheduleRestart
  <2>2. exhausted' = [s \in Sessions |-> exhausted[s] \/ (s = session /\ CanRetry)]
    BY <1>2 DEF ScheduleRestart
  <2>3. CanRetry => n = MaxAttempts
    BY <1>2, BoundsAssumption
  <2>4. \A s \in Sessions : exhausted'[s] => exhausted[s] \/ (s = session /\ n = MaxAttempts)
    BY <2>2, <2>3
  <2> QED  BY <1>2, <2>1, <2>4
<1> QED  BY <1>1, <1>2

\* A failed or a finished run hands the session over to a restart, or ends it.
LEMMA ScheduleSession ==
    ASSUME TypeInv, EncoderInv, EndInv, SessionInv, NEW n \in 0..MaxAttempts, ScheduleRestart(n),
           run \in Runs, exited'[run], ~Alive(run),
           \A r \in Runs : exited[r] => exited'[r],
           UNCHANGED <<run, session, sessions, closing, revision, armed, enabled, profile, sessionOf,
                       expected, runProfile, proc>>,
           preview' => preview /\ exited[run],
           session # 0 => attempts'[session] = n /\ attempts[session] <= n,
           \A s \in Sessions : s # session => attempts'[s] = attempts[s]
    PROVE  SessionInv'
<1>0. \A s \in Sessions : active[s] => s = session
  BY DEF SessionInv, ActiveOwnsRun
<1>1. PICK wait \in BOOLEAN :
        IF wait
        THEN /\ CanRetry /\ n < MaxAttempts /\ phase' = "restart_wait"
             /\ UNCHANGED <<active, key, exhausted>>
             /\ session \in Sessions /\ session <= sessions
             /\ timer' = [timer EXCEPT ![session] = "waiting"] /\ timer'[session] = "waiting"
        ELSE /\ phase' = "error" /\ CancelSession
             /\ \A s \in Sessions : exhausted'[s] => exhausted[s] \/ (s = session /\ n = MaxAttempts)
  BY ScheduleOutcome
<1>2. ~wait => \A s \in Sessions : ~active'[s] /\ ~key'[s]
  BY <1>0, <1>1 DEF CancelSession, SessionInv, KeyOfActive
<1>3. ActiveOwnsRun' /\ WaitsArmed' /\ KeyOfActive'
  BY <1>0, <1>1, <1>2 DEF SessionInv, ActiveOwnsRun, WaitsArmed, KeyOfActive, CanRetry
<1>4. \A s \in Sessions : s > sessions => s # session
  BY DEF TypeInv, TypeOK, PanelType, Sessions
<1>5. Unstarted' /\ OfStarted'
  BY <1>0, <1>1, <1>2, <1>4 DEF SessionInv, Unstarted, OfStarted
<1>6. RestartWaitHasTimer'
  BY <1>1 DEF RestartWaitHasTimer, CanRetry, Alive, Runs
<1>7. ProfileShownIsRun' /\ PreviewHasEncoder'
  BY <1>1, <1>2, SessionInRange DEF SessionInv, ProfileShownIsRun, PreviewHasEncoder
<1>8. BudgetRespected'
  <2>1. \A s \in 1..sessions : s \in Sessions /\ Launches(s)' = Launches(s)
    BY BoundsAssumption DEF Launches, TypeInv, TypeOK, PanelType, Sessions
  <2>2. \A s \in 1..sessions : attempts[s] <= attempts'[s] /\ attempts[s] \in Nat /\ attempts'[s] \in Nat
    BY <2>1, BoundsAssumption DEF TypeInv, TypeOK, SessionType
  <2>3. \A s \in 1..sessions : Cardinality(Launches(s)') <= attempts'[s] + 1
    <3> SUFFICES ASSUME NEW s \in 1..sessions PROVE Cardinality(Launches(s)') <= attempts'[s] + 1
      OBVIOUS
    <3>1. Cardinality(Launches(s)) <= attempts[s] + 1
      BY DEF SessionInv, BudgetRespected
    <3>2. Cardinality(Launches(s)) \in Nat
      <4>1. IsFiniteSet(1..run)
        BY RunInRange, FS_Interval
      <4> QED  BY <4>1, FS_Subset, FS_CardinalityType DEF Launches
    <3> QED  BY <2>1, <2>2, <3>1, <3>2
  <2>4. \A s \in 1..sessions : exhausted'[s] => attempts'[s] = MaxAttempts /\ ~active'[s]
    <3> SUFFICES ASSUME NEW s \in 1..sessions, exhausted'[s]
                 PROVE  attempts'[s] = MaxAttempts /\ ~active'[s]
      OBVIOUS
    <3>1. exhausted[s] => attempts[s] = MaxAttempts /\ ~active[s]
      BY DEF SessionInv, BudgetRespected
    <3>2. s \in Sessions /\ s # 0 /\ n <= MaxAttempts /\ attempts[s] <= attempts'[s]
      BY <2>1, <2>2, BoundsAssumption
    <3>3. CASE wait
      BY <1>1, <3>1, <3>2, <3>3 DEF CanRetry
    <3>4. CASE ~wait
      BY <1>1, <1>2, <2>2, <3>1, <3>2, <3>4, BoundsAssumption
    <3> QED  BY <3>3, <3>4
  <2> QED  BY <2>3, <2>4 DEF BudgetRespected
<1> QED  BY <1>3, <1>5, <1>6, <1>7, <1>8 DEF SessionInv

LEMMA RetryingSession ==
    ASSUME TypeInv, EncoderInv, EndInv, SessionInv, NEW s \in Sessions, Retrying(s)
    PROVE  SessionInv'
<1>0. \A x \in Sessions : key[x] => active[x]
  BY DEF SessionInv, KeyOfActive
<1>1. CASE TimerFires(s) \/ TimerCancelled(s) \/ (Restart(s) /\ ~MayRestart(s))
  <2>1. /\ UNCHANGED <<panelVars, run, session, sessions, active, armed, enabled, exhausted,
                       attempts, key, profile, runVars, procVars>>
    BY <1>1 DEF TimerFires, TimerCancelled, Restart
  <2>2. \A x \in Sessions : active'[x] /\ timer'[x] = "none" => timer[x] = "none" \/ closing
    BY <1>1 DEF TimerFires, TimerCancelled, Restart, MayRestart, SessionInv, ActiveOwnsRun, TypeInv, TypeOK,
       SessionType
  <2> QED  BY <1>0, <2>1, <2>2, SessionFrame
<1>2. CASE Restart(s) /\ MayRestart(s)
  <2>0. /\ s = session /\ s # 0 /\ active[s] /\ run \in Runs /\ exited[run]
        /\ s \in 0..MaxSessions /\ s <= sessions
        /\ attempts[s] + 1 \in 0..MaxAttempts /\ attempts[s] \in Nat /\ profile[s] \in 0..MaxRevision
        /\ attempts' = [attempts EXCEPT ![s] = @ + 1] /\ attempts'[s] = attempts[s] + 1
        /\ UNCHANGED <<session, sessions, armed, enabled, profile>>
    <3>1. s = session /\ s # 0 /\ active[s] /\ s <= sessions /\ timer[s] = "fired" /\ s \in 0..MaxSessions
      BY <1>2, SessionInRange, BoundsAssumption DEF Restart, MayRestart, Sessions
    <3>2. run \in Runs /\ exited[run]
      BY <3>1, RunInRange DEF SessionInv, ActiveOwnsRun, EncoderInv, TimerAfterExit
    <3> QED  BY <1>2, <3>1, <3>2, BoundsAssumption DEF Restart, TypeInv, TypeOK, SessionType, TimerHasAttempt
  <2>1. CASE /\ Launch(s, key[s], profile[s]) /\ timer' = [timer EXCEPT ![s] = "none"]
             /\ UNCHANGED <<active, key, exhausted>>
    <3>1. /\ run' = run + 1 /\ run' \in Runs /\ run' # 0
          /\ sessionOf' = [sessionOf EXCEPT ![run'] = s] /\ sessionOf'[run'] = s
          /\ runProfile'[run'] = profile[s]
          /\ ~expected'[run'] /\ ~exited'[run'] /\ exited' = exited
          /\ phase' = "probing" /\ UNCHANGED <<preview, closing, revision>>
      BY <2>0, <2>1, LaunchFacts
    <3>2. ActiveOwnsRun' /\ WaitsArmed' /\ KeyOfActive'
      BY <2>0, <2>1, <3>1 DEF SessionInv, ActiveOwnsRun, WaitsArmed, KeyOfActive
    <3>3. Unstarted' /\ OfStarted'
      BY <2>0, <2>1, <3>1 DEF SessionInv, Unstarted, OfStarted, TypeInv, TypeOK, PanelType, RunType,
         SessionType
    <3>4. RestartWaitHasTimer' /\ ProfileShownIsRun' /\ PreviewHasEncoder'
      BY <2>0, <2>1, <3>1 DEF SessionInv, RestartWaitHasTimer, ProfileShownIsRun, PreviewHasEncoder
    <3>5. BudgetRespected'
      <4>1. \A x \in 1..sessions : x \in Sessions
        BY BoundsAssumption DEF TypeInv, TypeOK, PanelType, Sessions
      <4>2. \A x \in 1..sessions : Cardinality(Launches(x)') <= attempts'[x] + 1
        <5> SUFFICES ASSUME NEW x \in 1..sessions PROVE Cardinality(Launches(x)') <= attempts'[x] + 1
          OBVIOUS
        <5>1. /\ Cardinality(Launches(x)) \in Nat /\ Cardinality(Launches(x)') \in Nat
              /\ Cardinality(Launches(x)') <= Cardinality(Launches(x)) + 1
              /\ x # s => Launches(x)' = Launches(x)
          BY <2>0, <2>1, <4>1, LaunchCount
        <5>2. Cardinality(Launches(x)) <= attempts[x] + 1
          BY DEF SessionInv, BudgetRespected
        <5> QED  BY <2>0, <4>1, <5>1, <5>2 DEF TypeInv, TypeOK, SessionType
      <4>3. \A x \in 1..sessions : exhausted'[x] => attempts'[x] = MaxAttempts /\ ~active'[x]
        BY <2>0, <2>1, <4>1 DEF SessionInv, BudgetRespected, TypeInv, TypeOK, SessionType
      <4> QED  BY <2>0, <4>2, <4>3 DEF BudgetRespected
    <3> QED  BY <3>2, <3>3, <3>4, <3>5 DEF SessionInv
  <2>2. CASE LaunchFails /\ ScheduleRestart(attempts[s] + 1)
    <3>1. /\ UNCHANGED <<run, closing, revision, preview, sessionOf, exited, expected, runProfile, proc>>
          /\ ~Alive(run)
      BY <2>0, <2>2 DEF LaunchFails, EncoderInv, RunsInv, ExitedIsDead
    <3>2. \A x \in Sessions : x # session => attempts'[x] = attempts[x]
      BY <2>0 DEF TypeInv, TypeOK, SessionType
    <3> QED  BY <2>0, <2>2, <3>1, <3>2, ScheduleSession
  <2> QED  BY <1>2, <2>1, <2>2 DEF Restart
<1> QED  BY <1>1, <1>2 DEF Retrying

\* The configure thread cancels the session, or leaves the sessions alone.
LEMMA ConfiguringSession ==
    ASSUME TypeInv, EncoderInv, EndInv, SessionInv, NEW r \in Runs, Configuring(r)
    PROVE  SessionInv'
<1>0. \A x \in Sessions : (key[x] => active[x]) /\ (active[x] => x = session)
  BY DEF SessionInv, KeyOfActive, ActiveOwnsRun
<1>1. \A q \in Runs : exited[q] => proc'[q] = proc[q]
  BY DEF Configuring, SendProbe, SendStart, AwaitOver, AwaitFails, Decide, TelemetryEnds, FinishBegin,
     FinishEnd, Reaches, EncoderInv, RunsInv, ExitedIsDead, TypeInv, TypeOK, ProcType
<1>2. CASE SendProbe(r) \/ SendStart(r) \/ AwaitOver(r) \/ AwaitFails(r) \/ TelemetryEnds(r)
  <2>1. UNCHANGED <<panelVars, run, session, sessions, sessionVars, sessionOf, expected, exited, runProfile>>
    BY <1>2 DEF SendProbe, SendStart, AwaitOver, AwaitFails, TelemetryEnds, Moves
  <2> QED  BY <1>0, <1>1, <2>1, SessionFrame
<1>3. CASE Decide(r) \/ FinishEnd(r)
  <2>1. /\ UNCHANGED <<closing, revision, preview, run, session, sessions, sessionVars, sessionOf, expected,
                       exited, runProfile>>
        /\ phase' = phase \/ phase' # "restart_wait"
    BY <1>3 DEF Decide, FinishEnd
  <2> QED  BY <1>0, <1>1, <2>1, SessionFrame
<1>4. CASE FinishBegin(r)
  <2>1. UNCHANGED <<closing, revision, preview, run, session, sessions, armed, enabled, exhausted, attempts,
                    profile, timer, sessionOf, exited, runProfile>>
    BY <1>4 DEF FinishBegin
  <2>2. \/ UNCHANGED <<phase, expected, active, key>>
        \/ phase' = "stopping" /\ CancelSession
    BY <1>4 DEF FinishBegin
  <2>3. CancelSession => \A x \in Sessions : ~active'[x] /\ ~key'[x]
    BY <1>0 DEF CancelSession
  <2> QED  BY <1>0, <1>1, <2>1, <2>2, <2>3, SessionFrame
<1> QED  BY <1>2, <1>3, <1>4 DEF Configuring

LEMMA StoppingSession ==
    ASSUME TypeInv, EncoderInv, EndInv, SessionInv, NEW t \in Threads, Stopping(t)
    PROVE  SessionInv'
<1>0. \A x \in Sessions : key[x] => active[x]
  BY DEF SessionInv, KeyOfActive
<1>1. /\ UNCHANGED <<closing, revision, preview, run, session, sessions, sessionVars, sessionOf, exited,
                     runProfile, proc>>
      /\ phase' = phase \/ phase' = "idle"
  BY DEF Stopping, TerminateBegin, ProcessGone, Escalate, StopEnd, Terminating
<1>2. expected' = expected
  <2>1. CASE TerminateBegin(t)
    BY <2>1 DEF TerminateBegin, EndInv, StopIsExpected, TypeInv, TypeOK, RunType
  <2> QED  BY <2>1 DEF Stopping, ProcessGone, Escalate, StopEnd
<1> QED  BY <1>0, <1>1, <1>2, SessionFrame

LEMMA ProcessSession ==
    ASSUME TypeInv, EncoderInv, EndInv, SessionInv, NEW r \in Runs, NEW l \in Lines,
           Emit(r, l) \/ ProcessExit(r)
    PROVE  SessionInv'
<1>1. UNCHANGED <<panelVars, run, session, sessions, sessionVars, runVars>>
  BY DEF Emit, ProcessExit, Environment
<1>2. \A q \in Runs : exited[q] => proc'[q] = proc[q]
  BY DEF Emit, ProcessExit, EncoderInv, RunsInv, ExitedIsDead, TypeInv, TypeOK, ProcType
<1> QED  BY <1>1, <1>2, SessionFrame DEF SessionInv, KeyOfActive

LEMMA CollectorSession ==
    ASSUME TypeInv, EncoderInv, EndInv, SessionInv, NEW r \in Runs, Collecting(r)
    PROVE  SessionInv'
<1>0. \A x \in Sessions : (key[x] => active[x]) /\ (active[x] => x = session)
  BY DEF SessionInv, KeyOfActive, ActiveOwnsRun
<1>1. CASE LineReady(r) \/ LineStarted(r) \/ LineSignal(r) \/ LineChanged(r)
  <2>1. UNCHANGED <<closing, revision, preview, run, session, sessions, enabled, exhausted, attempts, profile,
                    timer, sessionOf, expected, exited, runProfile, proc>>
    BY <1>1 DEF LineReady, LineStarted, LineSignal, LineChanged, NextLine
  <2>2. \/ UNCHANGED <<active, key>> /\ (phase' = phase \/ phase' # "restart_wait")
        \/ CancelSession /\ phase' = "error"
    BY <1>1 DEF LineReady, LineStarted, LineSignal, LineChanged
  <2>3. CancelSession => \A x \in Sessions : ~active'[x] /\ ~key'[x]
    BY <1>0 DEF CancelSession
  <2>4. \A x \in Sessions : (armed[x] => armed'[x]) /\ (armed'[x] => armed[x] \/ active[x])
    BY <1>1 DEF LineReady, LineStarted, LineSignal, LineChanged
  <2> QED  BY <1>0, <2>1, <2>2, <2>3, <2>4, SessionFrame
<1>2. CASE CollectExit(r)
  <2>0. /\ UNCHANGED <<closing, revision, run, session, sessions, armed, enabled, attempts, profile,
                       sessionOf, expected, runProfile, proc>>
        /\ exited' = [exited EXCEPT ![r] = TRUE] /\ ~exited[r] /\ proc[r] \in {"crashed", "ended"}
    BY <1>2 DEF CollectExit
  <2>1. r = run
    BY <2>0 DEF EncoderInv, RunsInv, Unborn, Superseded, TypeInv, TypeOK, PanelType, Runs
  <2>2. /\ ~Alive(run) /\ exited'[run] /\ preview' = FALSE
        /\ \A q \in Runs : (exited[q] => exited'[q]) /\ (q # run => exited'[q] = exited[q])
    BY <1>2, <2>0, <2>1 DEF CollectExit, Alive, LiveStates, TypeInv, TypeOK, RunType
  <2>3. CASE expected[r]
    <3>1. /\ UNCHANGED <<phase, active, key, exhausted, timer>>
          /\ \A x \in Sessions : ~active[x]
      BY <1>2, <2>1, <2>3 DEF CollectExit, SessionInv, ActiveOwnsRun
    <3>2. ActiveOwnsRun' /\ WaitsArmed' /\ KeyOfActive' /\ Unstarted' /\ OfStarted'
      BY <2>0, <3>1 DEF SessionInv, ActiveOwnsRun, WaitsArmed, KeyOfActive, Unstarted, OfStarted
    <3>3. RestartWaitHasTimer' /\ ProfileShownIsRun' /\ PreviewHasEncoder'
      BY <2>0, <2>1, <2>2, <3>1 DEF SessionInv, RestartWaitHasTimer, ProfileShownIsRun, PreviewHasEncoder
    <3>4. BudgetRespected'
      BY <2>0, <3>1 DEF SessionInv, BudgetRespected, Launches
    <3> QED  BY <3>2, <3>3, <3>4 DEF SessionInv
  <2>4. CASE ~expected[r]
    <3>1. PICK n \in 0..MaxAttempts : ScheduleRestart(n) /\ (session # 0 => n = attempts[session])
      <4>1. session # 0 => attempts[session] \in 0..MaxAttempts
        BY SessionInRange DEF TypeInv, TypeOK, SessionType
      <4> QED  BY <1>2, <2>1, <2>4, <4>1, BoundsAssumption DEF CollectExit
    <3>2. session # 0 => attempts'[session] = n /\ attempts[session] <= n
      BY <2>0, <3>1
    <3>3. preview' => preview /\ exited[run]
      BY <2>2
    <3> QED  BY <2>0, <2>1, <2>2, <3>1, <3>2, <3>3, ScheduleSession
  <2> QED  BY <2>3, <2>4
<1> QED  BY <1>1, <1>2 DEF Collecting

LEMMA NextSession == TypeInv /\ EncoderInv /\ EndInv /\ SessionInv /\ [Next]_vars => SessionInv'
<1> SUFFICES ASSUME TypeInv, EncoderInv, EndInv, SessionInv, [Next]_vars PROVE SessionInv'
  OBVIOUS
<1>1. CASE Requests
  BY <1>1, RequestSession
<1>2. ASSUME NEW s \in Sessions, Retrying(s) PROVE SessionInv'
  BY <1>2, RetryingSession
<1>3. ASSUME NEW r \in Runs, Configuring(r) PROVE SessionInv'
  BY <1>3, ConfiguringSession
<1>4. ASSUME NEW r \in Runs, Collecting(r) PROVE SessionInv'
  BY <1>4, CollectorSession
<1>5. ASSUME NEW r \in Runs, ProcessExit(r) PROVE SessionInv'
  BY <1>5, ProcessSession DEF Lines
<1>6. ASSUME NEW r \in Runs, NEW l \in Lines, Emit(r, l) PROVE SessionInv'
  BY <1>6, ProcessSession
<1>7. ASSUME NEW t \in Threads, Stopping(t) PROVE SessionInv'
  BY <1>7, StoppingSession
<1>8. CASE UNCHANGED vars
  BY <1>8, SessionFrame DEF vars, SessionInv, KeyOfActive
<1> QED  BY <1>1, <1>2, <1>3, <1>4, <1>5, <1>6, <1>7, <1>8 DEF Next

LEMMA AllInvariants == Spec => [](TypeInv /\ EncoderInv /\ EndInv /\ SessionInv)
<1>1. Init => TypeInv /\ EncoderInv /\ EndInv /\ SessionInv
  BY InitType, InitEncoder, InitEnd, InitSession
<1>2. /\ TypeInv /\ EncoderInv /\ EndInv /\ SessionInv
      /\ [Next]_vars
      => (TypeInv /\ EncoderInv /\ EndInv /\ SessionInv)'
  BY NextType, NextEncoder, NextEnd, NextSession
<1> QED  BY <1>1, <1>2, PTL DEF Spec

\* A session that keeps the panel busy has an uncollected run of its own or a
\* restart on its way: Start and Probe are never refused for ever.
THEOREM SomebodyDrivesTheSession == Spec => []ActiveSessionIsDriven
<1>1. TypeInv /\ SessionInv => ActiveSessionIsDriven
  BY SessionInRange DEF SessionInv, ActiveOwnsRun, WaitsArmed, ActiveSessionIsDriven
<1> QED  BY AllInvariants, <1>1, PTL

\* "restart_wait" is shown only over a dead encoder, with the restart to come.
THEOREM RestartWaitIsTrue == Spec => []RestartWaitHasTimer
<1>1. SessionInv => RestartWaitHasTimer
  BY DEF SessionInv
<1> QED  BY AllInvariants, <1>1, PTL

\* A session launches at most once more than it has spent attempts, and is
\* exhausted only with its whole budget spent (Panel._restart).
THEOREM BudgetIsNeverExceeded == Spec => []BudgetRespected
<1>1. SessionInv => BudgetRespected
  BY DEF SessionInv
<1> QED  BY AllInvariants, <1>1, PTL

\* Whatever ends an operation, no passphrase survives it.
THEOREM NoKeyIsLeft == Spec => []KeysDropped
<1>1. TypeInv /\ EncoderInv /\ EndInv /\ SessionInv => KeysDropped
  <2> SUFFICES ASSUME TypeInv, EncoderInv, EndInv, SessionInv, ~Busy PROVE KeysDropped
    BY DEF KeysDropped
  <2>1. \A s \in Sessions : ~key[s]
    BY DEF Busy, SessionInv, KeyOfActive, ActiveOwnsRun, Sessions
  <2>2. \A r \in Runs : r > run \/ exited[r]
    BY DEF Busy, EncoderInv, RunsInv, Superseded, TypeInv, TypeOK, PanelType, Runs
  <2>3. \A r \in Runs : ~runKey[r]
    BY <2>2 DEF EndInv, Unlaunched, Collected
  <2> QED  BY <2>1, <2>3 DEF KeysDropped
<1> QED  BY AllInvariants, <1>1, PTL

\* The encoder, and a restart to come, use the profile the panel shows.
THEOREM ShownProfileRuns == Spec => []ProfileShownIsRun
<1>1. SessionInv => ProfileShownIsRun
  BY DEF SessionInv
<1> QED  BY AllInvariants, <1>1, PTL

\* A preview process never outlives the encoder it reads.
THEOREM PreviewNeedsEncoder == Spec => []PreviewHasEncoder
<1>1. SessionInv => PreviewHasEncoder
  BY DEF SessionInv
<1> QED  BY AllInvariants, <1>1, PTL

-----------------------------------------------------------------------------
(* Whether the reason written down can be true.                            *)

\* Until it is done with a command a configure thread has no outcome, and knows
\* whether "start" has been sent; a run not launched yet has no thread, ...
OnProbe == {"none", "send_probe", "await_ready", "decide"}
OnStart == {"send_start", "await_started"}
PointsFit ==
    \A r \in Runs :
        /\ r > run => pc[r] = "none"
        /\ pc[r] \in OnProbe => ~startSent[r] /\ outcome[r] = "none"
        /\ pc[r] \in OnStart => startSent[r] /\ outcome[r] = "none"
\* ... its outcome names the step that it was in, ...
OutcomeFits ==
    \A r \in Runs :
        /\ outcome[r] = "probe_timeout" => ~startSent[r]
        /\ outcome[r] = "start_timeout" => startSent[r]
        /\ outcome[r] = "probe_complete" => sessionOf[r] = 0
        /\ outcome[r] # "panel_shutdown"
\* ... nobody else gives such a reason, nor speaks of a shutdown before there is one, ...
FromFinish == {"probe_timeout", "start_timeout", "probe_complete"}
Fits(r, why) ==
    (why \in FromFinish => outcome[r] = why) /\ (why = "panel_shutdown" => closing)
ReasonsFit == \A r \in Runs : Fits(r, reason[r]) /\ Fits(r, entry[r])
\* ... and a run that nobody asked to end has no reason but the end of its input.
Unprompted == {"none", "process_exit", "unsupported_input"}
UnaskedHasNone ==
    \A r \in Runs : ~expected[r] =>
        entry[r] \in Unprompted /\ (~exited[r] => reason[r] \in Unprompted)

WhyInv == PointsFit /\ OutcomeFits /\ ReasonsFit /\ UnaskedHasNone

LEMMA InitWhy == Init => WhyInv
BY CallersAreNotRuns DEF Init, WhyInv, PointsFit, OutcomeFits, ReasonsFit, Fits, FromFinish, UnaskedHasNone,
   Unprompted, OnProbe, OnStart, Threads

\* A step that gives no reason, sends no "start" and leaves the threads of the runs
\* alone, or moves one on to where it does neither.
LEMMA WhyFrame ==
    ASSUME WhyInv, run' = run \/ run' = run + 1, run \in Nat,
           UNCHANGED <<exited, reason, entry, startSent, sessionOf, outcome>>,
           \A r \in Runs : expected[r] => expected'[r],
           \A r \in Runs : pc'[r] # pc[r] =>
               pc[r] # "none" /\ pc'[r] \notin OnProbe \cup OnStart,
           closing => closing'
    PROVE  WhyInv'
<1>1. PointsFit'
  BY DEF WhyInv, PointsFit, Runs
<1>2. OutcomeFits' /\ ReasonsFit'
  BY DEF WhyInv, OutcomeFits, ReasonsFit, Fits
<1>3. UnaskedHasNone'
  BY DEF WhyInv, UnaskedHasNone
<1> QED  BY <1>1, <1>2, <1>3 DEF WhyInv

LEMMA LaunchWhy ==
    ASSUME TypeInv, WhyInv, NEW s, NEW k, NEW rev, Launch(s, k, rev)
    PROVE  WhyInv'
<1>0. /\ run \in Nat /\ run' = run + 1 /\ run' \in Runs
      /\ UNCHANGED <<closing, expected, exited, reason, entry, startSent, outcome>>
      /\ pc' = [pc EXCEPT ![run'] = "send_probe"] /\ sessionOf' = [sessionOf EXCEPT ![run'] = s]
  BY DEF Launch, TypeInv, TypeOK, PanelType
<1>1. pc[run'] = "none" /\ ~startSent[run'] /\ outcome[run'] = "none"
  BY <1>0 DEF WhyInv, PointsFit, OnProbe, Runs
<1>2. PointsFit'
  BY <1>0, <1>1 DEF WhyInv, PointsFit, OnProbe, OnStart, Runs, TypeInv, TypeOK, ThreadType
<1>3. OutcomeFits'
  BY <1>0, <1>1 DEF WhyInv, OutcomeFits, TypeInv, TypeOK, RunType
<1>4. ReasonsFit' /\ UnaskedHasNone'
  BY <1>0 DEF WhyInv, ReasonsFit, Fits, UnaskedHasNone
<1> QED  BY <1>2, <1>3, <1>4 DEF WhyInv

LEMMA StopBeginWhy ==
    ASSUME TypeInv, WhyInv, NEW t \in Callers, StopBegin(t)
    PROVE  WhyInv'
<1>0. /\ UNCHANGED <<run, closing, exited, entry, startSent, sessionOf, outcome>>
      /\ reason' = [r \in Runs |-> StopReason(r)] /\ t \notin Runs
  BY CallersAreNotRuns DEF StopBegin
<1>1. \A r \in Runs : pc'[r] = pc[r] /\ (expected[r] => expected'[r])
  <2>1. pc' = [pc EXCEPT ![t] = Rest(t)] \/ pc' = [pc EXCEPT ![t] = "stop_lock"]
    BY DEF StopBegin
  <2>2. expected' = expected \/ expected' = [expected EXCEPT ![run] = TRUE]
    BY DEF StopBegin
  <2>3. \A r \in Runs : pc'[r] = pc[r]
    BY <1>0, <2>1 DEF TypeInv, TypeOK, ThreadType, Threads
  <2>4. \A r \in Runs : expected[r] => expected'[r]
    BY <2>2 DEF TypeInv, TypeOK, RunType
  <2> QED  BY <2>3, <2>4
<1>2. PointsFit' /\ OutcomeFits'
  BY <1>0, <1>1 DEF WhyInv, PointsFit, OutcomeFits
<1>3. ReasonsFit'
  BY <1>0 DEF WhyInv, ReasonsFit, Fits, FromFinish, StopReason
<1>4. UnaskedHasNone'
  <2>1. \A r \in Runs : reason'[r] = reason[r] \/ r = run
    BY <1>0 DEF StopReason
  <2>2. run \in Runs => exited[run] \/ expected'[run]
    <3>1. run # 0 /\ ~exited[run] => expected' = [expected EXCEPT ![run] = TRUE]
      BY DEF StopBegin
    <3> QED  BY <3>1, BoundsAssumption DEF Runs, TypeInv, TypeOK, RunType
  <2> QED  BY <1>0, <1>1, <2>1, <2>2 DEF WhyInv, UnaskedHasNone
<1> QED  BY <1>2, <1>3, <1>4 DEF WhyInv

LEMMA RequestWhy == ASSUME TypeInv, WhyInv, Requests PROVE WhyInv'
<1>0. run \in Nat
  BY DEF TypeInv, TypeOK, PanelType
<1>1. ASSUME LaunchFails PROVE WhyInv'
  BY <1>0, <1>1, WhyFrame DEF LaunchFails
<1>2. ASSUME NEW auto \in BOOLEAN, NEW k \in Keys, Start(auto, k) PROVE WhyInv'
  BY <1>1, <1>2, LaunchWhy DEF Start
<1>3. ASSUME NEW k \in Keys, Probe(k) PROVE WhyInv'
  BY <1>1, <1>3, LaunchWhy DEF Probe
<1>4. ASSUME SaveConfig \/ StartPreview \/ StopPreview PROVE WhyInv'
  BY <1>0, <1>4, WhyFrame DEF SaveConfig, StartPreview, StopPreview
<1>5. ASSUME NEW t \in Callers, Close(t) PROVE WhyInv'
  <2>1. \A r \in Runs : pc'[r] = pc[r]
    BY <1>5, CallersAreNotRuns DEF Close, TypeInv, TypeOK, ThreadType
  <2> QED  BY <1>0, <1>5, <2>1, WhyFrame DEF Close
<1> QED  BY <1>2, <1>3, <1>4, <1>5, StopBeginWhy DEF Requests

LEMMA RetryingWhy == ASSUME TypeInv, WhyInv, NEW s \in Sessions, Retrying(s) PROVE WhyInv'
<1>0. run \in Nat
  BY DEF TypeInv, TypeOK, PanelType
<1>1. CASE TimerFires(s) \/ TimerCancelled(s) \/ (Restart(s) /\ ~MayRestart(s))
  BY <1>0, <1>1, WhyFrame DEF TimerFires, TimerCancelled, Restart
<1>2. CASE Restart(s) /\ MayRestart(s)
  <2>1. Launch(s, key[s], profile[s]) \/ LaunchFails
    BY <1>2 DEF Restart
  <2> QED  BY <1>0, <2>1, LaunchWhy, WhyFrame DEF LaunchFails
<1> QED  BY <1>1, <1>2 DEF Retrying

\* A configure thread that comes to its outcome, which is that of the step it is in.
LEMMA OutcomeWhy ==
    ASSUME TypeInv, WhyInv, NEW r \in Runs, NEW p, NEW o,
           UNCHANGED <<run, closing, expected, exited, reason, entry, startSent, sessionOf>>,
           pc[r] \in (OnProbe \ {"none"}) \cup OnStart, p \notin OnProbe \cup OnStart,
           pc' = [pc EXCEPT ![r] = p], outcome' = [outcome EXCEPT ![r] = o],
           o = "probe_timeout" => pc[r] \in OnProbe,
           o = "start_timeout" => pc[r] \in OnStart,
           o = "probe_complete" => sessionOf[r] = 0, o # "panel_shutdown"
    PROVE  WhyInv'
<1>0. outcome[r] = "none" /\ (pc[r] \in OnStart => startSent[r]) /\ (pc[r] \in OnProbe => ~startSent[r])
  BY DEF WhyInv, PointsFit
<1>1. PointsFit'
  BY DEF WhyInv, PointsFit, OnProbe, OnStart, TypeInv, TypeOK, ThreadType, Threads
<1>2. OutcomeFits'
  BY <1>0 DEF WhyInv, OutcomeFits, TypeInv, TypeOK, ThreadType
<1>3. ReasonsFit'
  <2>1. reason[r] \notin FromFinish /\ entry[r] \notin FromFinish
    BY <1>0 DEF WhyInv, ReasonsFit, Fits, FromFinish
  <2> QED  BY <2>1 DEF WhyInv, ReasonsFit, Fits, TypeInv, TypeOK, ThreadType
<1>4. UnaskedHasNone'
  BY DEF WhyInv, UnaskedHasNone
<1> QED  BY <1>1, <1>2, <1>3, <1>4 DEF WhyInv

\* A configure thread that goes on to the next step of the same side of "start".
LEMMA GoesOnWhy ==
    ASSUME TypeInv, WhyInv, NEW r \in Runs, NEW p,
           UNCHANGED <<run, closing, expected, exited, reason, entry, startSent, sessionOf, outcome>>,
           pc[r] # "none", pc' = [pc EXCEPT ![r] = p],
           p \in OnProbe => pc[r] \in OnProbe, p \in OnStart => pc[r] \in OnStart
    PROVE  WhyInv'
<1>1. PointsFit'
  BY DEF WhyInv, PointsFit, OnProbe, OnStart, TypeInv, TypeOK, ThreadType, Threads
<1>2. OutcomeFits' /\ ReasonsFit' /\ UnaskedHasNone'
  BY DEF WhyInv, OutcomeFits, ReasonsFit, Fits, UnaskedHasNone
<1> QED  BY <1>1, <1>2 DEF WhyInv

LEMMA ConfiguringWhy == ASSUME TypeInv, WhyInv, NEW r \in Runs, Configuring(r) PROVE WhyInv'
<1> USE DEF GoTo, Moves, OnProbe, OnStart
<1>1. CASE SendProbe(r) \/ SendStart(r)
  <2>1. CASE Reaches(r)
    <3>1. PICK p : /\ pc' = [pc EXCEPT ![r] = p]
                   /\ (p = "await_ready" /\ pc[r] = "send_probe") \/ (p = "await_started" /\ pc[r] = "send_start")
      BY <1>1, <2>1 DEF SendProbe, SendStart
    <3> QED  BY <1>1, <2>1, <3>1, GoesOnWhy DEF SendProbe, SendStart
  <2>2. CASE ~Reaches(r)
    <3>1. PICK p \in {"done", "send_failed"} : pc' = [pc EXCEPT ![r] = p]
      BY <1>1, <2>2 DEF SendProbe, SendStart
    <3> QED  BY <1>1, <2>2, <3>1, OutcomeWhy DEF SendProbe, SendStart
  <2> QED  BY <2>1, <2>2
<1>2. CASE AwaitOver(r) \/ TelemetryEnds(r)
  <2>1. PICK p \in {"decide", "telemetry", "done"} :
           pc' = [pc EXCEPT ![r] = p] /\ (p = "decide" => pc[r] = "await_ready") /\ pc[r] # "none"
    BY <1>2 DEF AwaitOver, TelemetryEnds
  <2> QED  BY <1>2, <2>1, GoesOnWhy DEF AwaitOver, TelemetryEnds
<1>3. CASE AwaitFails(r)
  <2>1. PICK p \in {"done", "timed_out"} : pc' = [pc EXCEPT ![r] = p]
    BY <1>3 DEF AwaitFails
  <2> QED  BY <1>3, <2>1, OutcomeWhy DEF AwaitFails
<1>4. CASE Decide(r)
  <2>1. CASE ready[r] = "novideo"
    BY <1>4, <2>1, OutcomeWhy DEF Decide
  <2>2. CASE ready[r] = "video" /\ sessionOf[r] = 0
    BY <1>4, <2>2, OutcomeWhy DEF Decide
  <2>3. CASE ready[r] = "video" /\ sessionOf[r] # 0 /\ (r # run \/ cancel[r])
    BY <1>4, <2>3, GoesOnWhy DEF Decide
  <2>4. CASE ready[r] = "video" /\ sessionOf[r] # 0 /\ ~(r # run \/ cancel[r])
    <3>0. /\ UNCHANGED <<run, closing, expected, exited, reason, entry, sessionOf, outcome>>
          /\ startSent' = [startSent EXCEPT ![r] = TRUE] /\ pc' = [pc EXCEPT ![r] = "send_start"]
          /\ pc[r] = "decide"
      BY <1>4, <2>4 DEF Decide
    <3>1. outcome[r] = "none" /\ ~(r > run)
      BY <3>0 DEF WhyInv, PointsFit
    <3>2. PointsFit'
      BY <3>0, <3>1 DEF WhyInv, PointsFit, TypeInv, TypeOK, ThreadType, RunType, Threads
    <3>3. OutcomeFits' /\ ReasonsFit' /\ UnaskedHasNone'
      BY <3>0, <3>1 DEF WhyInv, OutcomeFits, ReasonsFit, Fits, UnaskedHasNone, TypeInv, TypeOK, RunType
    <3> QED  BY <3>2, <3>3 DEF WhyInv
  <2> QED  BY <1>4, <2>1, <2>2, <2>3, <2>4 DEF Decide
<1>5. CASE FinishEnd(r)
  BY <1>5, GoesOnWhy DEF FinishEnd
<1>6. CASE FinishBegin(r) /\ (r # run \/ cancel[r])
  BY <1>6, GoesOnWhy DEF FinishBegin, FinishPoints
<1>7. CASE FinishBegin(r) /\ ~(r # run \/ cancel[r])
  <2>1. /\ UNCHANGED <<run, closing, exited, entry, startSent, sessionOf, outcome>>
        /\ expected' = [expected EXCEPT ![r] = TRUE] /\ reason' = [reason EXCEPT ![r] = outcome[r]]
        /\ pc' = [pc EXCEPT ![r] = "stop_lock"] /\ pc[r] # "none"
    BY <1>7 DEF FinishBegin, FinishPoints
  <2>2. outcome[r] # "panel_shutdown"
    BY DEF WhyInv, OutcomeFits
  <2>3. PointsFit'
    BY <2>1 DEF WhyInv, PointsFit, TypeInv, TypeOK, ThreadType, Threads
  <2>4. OutcomeFits' /\ ReasonsFit'
    BY <2>1, <2>2 DEF WhyInv, OutcomeFits, ReasonsFit, Fits, TypeInv, TypeOK, RunType
  <2>5. UnaskedHasNone'
    BY <2>1 DEF WhyInv, UnaskedHasNone, TypeInv, TypeOK, RunType
  <2> QED  BY <2>3, <2>4, <2>5 DEF WhyInv
<1> QED  BY <1>1, <1>2, <1>3, <1>4, <1>5, <1>6, <1>7 DEF Configuring

LEMMA StoppingWhy == ASSUME TypeInv, WhyInv, NEW t \in Threads, Stopping(t) PROVE WhyInv'
<1>0. /\ UNCHANGED <<run, closing, exited, reason, entry, startSent, sessionOf, outcome>> /\ run \in Nat
      /\ \A r \in Runs : expected[r] => expected'[r]
  BY DEF Stopping, TerminateBegin, ProcessGone, Escalate, StopEnd, Terminating, TypeInv, TypeOK, PanelType,
     RunType
<1>1. PICK p \in {"wait_quit", "settle", "wait_term", "wait_kill", "idle", "done"} :
         pc' = [pc EXCEPT ![t] = p]
  BY DEF Stopping, TerminateBegin, ProcessGone, Escalate, StopEnd, GoTo, Rest
<1>2. pc[t] # "none"
  BY DEF Stopping, TerminateBegin, ProcessGone, Escalate, StopEnd
<1>3. \A r \in Runs : pc'[r] # pc[r] => pc[r] # "none" /\ pc'[r] \notin OnProbe \cup OnStart
  BY <1>1, <1>2 DEF OnProbe, OnStart, TypeInv, TypeOK, ThreadType, Threads
<1> QED  BY <1>0, <1>3, WhyFrame

LEMMA CollectorWhy == ASSUME TypeInv, EncoderInv, WhyInv, NEW r \in Runs, Collecting(r) PROVE WhyInv'
<1>0. run \in Nat
  BY DEF TypeInv, TypeOK, PanelType
<1>1. CASE LineReady(r) \/ LineStarted(r) \/ LineSignal(r) \/ (LineChanged(r) /\ ~Heeded(r))
  BY <1>0, <1>1, WhyFrame DEF LineReady, LineStarted, LineSignal, LineChanged, NextLine
<1>2. CASE LineChanged(r) /\ Heeded(r)
  <2>1. /\ UNCHANGED <<run, closing, expected, exited, entry, startSent, sessionOf, outcome, pc>>
        /\ reason' = [reason EXCEPT ![r] = "unsupported_input"]
    BY <1>2 DEF LineChanged, NextLine
  <2>2. PointsFit' /\ OutcomeFits'
    BY <2>1 DEF WhyInv, PointsFit, OutcomeFits
  <2>3. ReasonsFit' /\ UnaskedHasNone'
    BY <2>1 DEF WhyInv, ReasonsFit, Fits, FromFinish, UnaskedHasNone, Unprompted, TypeInv, TypeOK, RunType
  <2> QED  BY <2>2, <2>3 DEF WhyInv
<1>3. CASE CollectExit(r)
  <2>0. /\ UNCHANGED <<run, closing, expected, reason, startSent, sessionOf, outcome, pc>>
        /\ exited' = [exited EXCEPT ![r] = TRUE] /\ ~exited[r] /\ proc[r] \in {"crashed", "ended"}
    BY <1>3 DEF CollectExit
  <2>1. r = run
    BY <2>0 DEF EncoderInv, RunsInv, Unborn, Superseded, TypeInv, TypeOK, PanelType, Runs
  <2>2. entry' = [entry EXCEPT ![r] = IF reason[r] = "none" THEN "process_exit" ELSE reason[r]]
    BY <1>3, <2>1 DEF CollectExit
  <2>3. PointsFit' /\ OutcomeFits'
    BY <2>0 DEF WhyInv, PointsFit, OutcomeFits
  <2>4. ReasonsFit'
    BY <2>0, <2>2 DEF WhyInv, ReasonsFit, Fits, FromFinish, TypeInv, TypeOK, RunType
  <2>5. UnaskedHasNone'
    BY <2>0, <2>2 DEF WhyInv, UnaskedHasNone, Unprompted, TypeInv, TypeOK, RunType
  <2> QED  BY <2>3, <2>4, <2>5 DEF WhyInv
<1> QED  BY <1>1, <1>2, <1>3 DEF Collecting

LEMMA NextWhy == TypeInv /\ EncoderInv /\ WhyInv /\ [Next]_vars => WhyInv'
<1> SUFFICES ASSUME TypeInv, EncoderInv, WhyInv, [Next]_vars PROVE WhyInv'
  OBVIOUS
<1>0. run \in Nat
  BY DEF TypeInv, TypeOK, PanelType
<1>1. ASSUME NEW r \in Runs, NEW l \in Lines, Emit(r, l) \/ ProcessExit(r) PROVE WhyInv'
  BY <1>0, <1>1, WhyFrame DEF Emit, ProcessExit, Environment
<1>2. CASE UNCHANGED vars
  BY <1>0, <1>2, WhyFrame DEF vars
<1> QED
  BY <1>1, <1>2, RequestWhy, RetryingWhy, ConfiguringWhy, StoppingWhy, CollectorWhy DEF Next, Lines

LEMMA WhyInvariant == Spec => []WhyInv
BY InitWhy, NextWhy, AllInvariants, PTL DEF Spec

\* What the exit history says of a death is true: unexpected is one that nobody had
\* asked for, and the reason of an expected one is of a step that the run was in, of
\* its probe, or of a panel that is closing (Panel._record_exit, _finish, stop).
THEOREM ExitsAreExplained == Spec => []ExitIsExplained
<1>1. EndInv /\ WhyInv => ExitIsExplained
  BY DEF EndInv, EndedWasAsked, AskedIsExpected, ExitHasReason, WhyInv, OutcomeFits, ReasonsFit, Fits,
     FromFinish, UnaskedHasNone, Unprompted, ExitIsExplained
<1> QED  BY AllInvariants, WhyInvariant, <1>1, PTL

-----------------------------------------------------------------------------
\* A panel at rest takes up no ports by itself: only Start and Probe make it
\* busy, whatever threads of earlier operations are still on their way.
THEOREM RestsUntilAsked == Spec => QuietUntilAsked
<1> DEFINE Asked == \/ \E auto \in BOOLEAN, k \in Keys : Start(auto, k)
                    \/ \E k \in Keys : Probe(k)
<1>1. /\ TypeInv /\ EncoderInv /\ EndInv /\ SessionInv
      /\ [Next]_vars
      => [~Busy /\ Busy' => Asked]_vars
  <2> SUFFICES ASSUME TypeInv, EncoderInv, EndInv, SessionInv, [Next]_vars, ~Busy, ~Asked
               PROVE  ~Busy'
    OBVIOUS
  <2>0. /\ ~(session # 0 /\ active[session]) /\ (run = 0 \/ exited[run])
        /\ run # 0 => phase # "stopping"
    BY DEF Busy
  <2>1. \A s \in Sessions : ~active[s]
    BY <2>0 DEF SessionInv, ActiveOwnsRun, Sessions
  <2>2. ASSUME UNCHANGED <<run, session, sessions>>, \A r \in Runs : exited[r] => exited'[r],
               \A s \in Sessions : active'[s] => active[s],
               run # 0 => phase' # "stopping"
        PROVE  ~Busy'
    BY <2>0, <2>1, <2>2, RunInRange, SessionInRange DEF Busy
  <2>3. CASE SaveConfig \/ StartPreview \/ StopPreview \/ (\E t \in Callers : Close(t) \/ StopBegin(t))
    BY <2>0, <2>2, <2>3 DEF SaveConfig, StartPreview, StopPreview, Close, StopBegin, CancelSession
  <2>4. ASSUME NEW s \in Sessions, Retrying(s) PROVE ~Busy'
    <3>1. ~(Restart(s) /\ MayRestart(s))
      BY <2>1 DEF MayRestart
    <3> QED  BY <2>0, <2>2, <2>4, <3>1 DEF Retrying, TimerFires, TimerCancelled, Restart
  <2>5. ASSUME NEW r \in Runs, Configuring(r) PROVE ~Busy'
    <3>1. run # 0 => phase' # "stopping"
      BY <2>0, <2>5 DEF Configuring, SendProbe, SendStart, AwaitOver, AwaitFails, Decide, TelemetryEnds,
         FinishBegin, FinishEnd, Moves, EndInv, Collected
    <3>2. /\ UNCHANGED <<run, session, sessions, exited>>
          /\ \A s \in Sessions : active'[s] => active[s]
      BY <2>5 DEF Configuring, SendProbe, SendStart, AwaitOver, AwaitFails, Decide, TelemetryEnds,
         FinishBegin, FinishEnd, Moves, CancelSession
    <3> QED  BY <2>2, <3>1, <3>2
  <2>6. ASSUME NEW t \in Threads, Stopping(t) PROVE ~Busy'
    BY <2>0, <2>2, <2>6 DEF Stopping, TerminateBegin, ProcessGone, Escalate, StopEnd, Terminating
  <2>7. ASSUME NEW r \in Runs, Collecting(r) PROVE ~Busy'
    <3>1. /\ UNCHANGED <<run, session, sessions>> /\ \A q \in Runs : exited[q] => exited'[q]
          /\ \A s \in Sessions : active'[s] => active[s]
      BY <2>7 DEF Collecting, LineReady, LineStarted, LineSignal, LineChanged, NextLine, CollectExit,
         ScheduleRestart, CancelSession, TypeInv, TypeOK, RunType
    <3>2. phase' # "stopping" \/ phase' = phase
      BY <2>7 DEF Collecting, LineReady, LineStarted, LineSignal, LineChanged, NextLine, CollectExit,
         ScheduleRestart
    <3> QED  BY <2>0, <2>2, <3>1, <3>2
  <2>8. ASSUME NEW r \in Runs, ProcessExit(r) \/ \E l \in Lines : Emit(r, l) PROVE ~Busy'
    BY <2>0, <2>2, <2>8 DEF ProcessExit, Emit, Environment
  <2>9. CASE UNCHANGED vars
    BY <2>0, <2>2, <2>9 DEF vars
  <2> QED  BY <2>3, <2>4, <2>5, <2>6, <2>7, <2>8, <2>9 DEF Next, Requests
<1> QED  BY AllInvariants, <1>1, PTL DEF Spec, QuietUntilAsked

-----------------------------------------------------------------------------
(* Panel implements Recovery.                                              *)

\* A step after which no session is active ends the one there was, if any.
LEMMA NoSessionLeft ==
    ASSUME ~InSession'
    PROVE  [Abstract!RecoveryNext]_(Abstract!recoveryVars)
<1>1. CASE InSession
  <2>1. AbstractMode # "off" /\ AbstractMode' = "off"
    BY <1>1 DEF AbstractMode, HasRun
  <2>2. Abstract!Over
    BY <2>1 DEF Abstract!Over, Abstract!Off
  <2> QED  BY <2>2 DEF Abstract!RecoveryNext
<1>2. CASE ~InSession
  BY <1>2 DEF AbstractMode, Abstract!recoveryVars
<1> QED  BY <1>1, <1>2

\* A step that keeps the session and its run as they were is no step of Recovery.
LEMMA SessionAsBefore ==
    ASSUME UNCHANGED <<run, session, active, enabled, attempts, sessionOf, exited>>,
           InSession => armed'[session] = armed[session]
    PROVE  UNCHANGED Abstract!recoveryVars
BY DEF AbstractMode, InSession, HasRun, Abstract!recoveryVars

LEMMA KeptOrCancelled ==
    ASSUME TypeInv, SessionInv,
           UNCHANGED <<run, session, enabled, attempts, sessionOf, exited, armed>>,
           active' = active \/ CancelSession
    PROVE  [Abstract!RecoveryNext]_(Abstract!recoveryVars)
<1>1. CancelSession => ~InSession'
  BY SessionInRange DEF CancelSession, InSession
<1> QED  BY <1>1, NoSessionLeft, SessionAsBefore

\* Panel._schedule_restart, for a session in step n of its budget: what it
\* leaves is either a session that waits, with something left to spend, or none.
LEMMA ScheduledMode ==
    ASSUME TypeInv, NEW n \in 0..MaxAttempts, ScheduleRestart(n),
           UNCHANGED <<run, session, armed, enabled, sessionOf>>,
           run \in Runs, exited'[run]
    PROVE  \/ ~InSession'
           \/ /\ InSession /\ InSession' /\ enabled[session] /\ armed[session]
              /\ n < MaxAttempts /\ AbstractMode' = "waiting"
<1>1. CASE CanRetry /\ n < MaxAttempts
  BY <1>1, ScheduleOutcome DEF CanRetry, InSession, AbstractMode, HasRun
<1>2. CASE ~(CanRetry /\ n < MaxAttempts)
  BY <1>2, SessionInRange DEF ScheduleRestart, CancelSession, InSession
<1> QED  BY <1>1, <1>2

LEMMA RequestRefines ==
    ASSUME TypeInv, EncoderInv, EndInv, SessionInv, Requests
    PROVE  [Abstract!RecoveryNext]_(Abstract!recoveryVars)
<1>1. ASSUME NEW auto \in BOOLEAN, NEW k \in Keys, Start(auto, k)
      PROVE  [Abstract!RecoveryNext]_(Abstract!recoveryVars)
  <2>0. PICK s \in Sessions :
          /\ s = sessions + 1 /\ s # 0 /\ session' = s /\ s \in 0..MaxSessions
          /\ revision \in 0..MaxRevision /\ ~active[s] /\ ~armed[s] /\ attempts[s] = 0
          /\ enabled' = [enabled EXCEPT ![s] = auto] /\ UNCHANGED <<armed, attempts>>
    <3>1. /\ sessions + 1 \in Sessions /\ sessions + 1 # 0 /\ sessions + 1 > sessions
          /\ sessions + 1 \in 0..MaxSessions /\ revision \in 0..MaxRevision
      BY <1>1, BoundsAssumption DEF Start, NewSession, TypeInv, TypeOK, PanelType, Sessions
    <3>2. ~active[sessions + 1] /\ ~armed[sessions + 1] /\ attempts[sessions + 1] = 0
      BY <3>1 DEF SessionInv, Unstarted
    <3> QED  BY <1>1, <3>1, <3>2 DEF Start, NewSession
  <2>1. ~InSession
    BY <1>1 DEF Start, Admits, Busy, InSession
  <2>2. CASE Launch(s, k, revision) /\ active' = [active EXCEPT ![s] = TRUE]
    <3>1. run' # 0 /\ sessionOf'[run'] = s /\ ~exited'[run']
      BY <2>0, <2>2, LaunchFacts
    <3>2. InSession' /\ HasRun' /\ AbstractMode' = "up"
      BY <2>0, <2>2, <3>1 DEF InSession, HasRun, AbstractMode, TypeInv, TypeOK, SessionType
    <3>3. AbstractMode = "off"
      BY <2>1 DEF AbstractMode
    <3>4. enabled'[session'] \in BOOLEAN /\ armed'[session'] = FALSE /\ attempts'[session'] = 0
      BY <2>0 DEF TypeInv, TypeOK, SessionType
    <3>5. Abstract!Begin
      BY <3>2, <3>3, <3>4 DEF Abstract!Begin
    <3> QED  BY <3>5 DEF Abstract!RecoveryNext
  <2>3. CASE LaunchFails /\ UNCHANGED <<active, key>>
    BY <2>0, <2>3, NoSessionLeft DEF InSession
  <2> QED  BY <1>1, <2>0, <2>2, <2>3 DEF Start
<1>2. ASSUME NEW k \in Keys, Probe(k)
      PROVE  [Abstract!RecoveryNext]_(Abstract!recoveryVars)
  BY <1>2, NoSessionLeft DEF Probe, InSession
<1>3. ASSUME SaveConfig \/ StartPreview \/ StopPreview \/ (\E t \in Callers : Close(t) \/ StopBegin(t))
      PROVE  [Abstract!RecoveryNext]_(Abstract!recoveryVars)
  BY <1>3, KeptOrCancelled DEF SaveConfig, StartPreview, StopPreview, Close, StopBegin
<1> QED  BY <1>1, <1>2, <1>3 DEF Requests

LEMMA RetryingRefines ==
    ASSUME TypeInv, EncoderInv, EndInv, SessionInv, NEW s \in Sessions, Retrying(s)
    PROVE  [Abstract!RecoveryNext]_(Abstract!recoveryVars)
<1>1. CASE TimerFires(s) \/ TimerCancelled(s) \/ (Restart(s) /\ ~MayRestart(s))
  BY <1>1, KeptOrCancelled DEF TimerFires, TimerCancelled, Restart
<1>2. CASE Restart(s) /\ MayRestart(s)
  <2>0. /\ s = session /\ s # 0 /\ active[s] /\ run \in Runs /\ exited[run] /\ s \in 0..MaxSessions
        /\ profile[s] \in 0..MaxRevision /\ attempts[s] \in Nat /\ attempts[s] < MaxAttempts
        /\ attempts[s] + 1 \in 0..MaxAttempts
        /\ attempts'[s] = attempts[s] + 1 /\ UNCHANGED <<session, armed, enabled>>
    <3>1. s = session /\ s # 0 /\ active[s] /\ timer[s] = "fired" /\ s \in 0..MaxSessions
      BY <1>2, SessionInRange, BoundsAssumption DEF Restart, MayRestart, Sessions
    <3>2. run \in Runs /\ exited[run]
      BY <3>1, RunInRange DEF SessionInv, ActiveOwnsRun, EncoderInv, TimerAfterExit
    <3> QED  BY <1>2, <3>1, <3>2, BoundsAssumption DEF Restart, TypeInv, TypeOK, SessionType, TimerHasAttempt
  <2>1. InSession /\ AbstractMode = "waiting"
    BY <2>0 DEF InSession, AbstractMode, HasRun
  <2>2. CASE Launch(s, key[s], profile[s]) /\ UNCHANGED active
    <3>1. run' # 0 /\ sessionOf'[run'] = s /\ ~exited'[run']
      BY <2>0, <2>2, LaunchFacts
    <3>2. InSession' /\ AbstractMode' = "up"
      BY <2>0, <2>2, <3>1 DEF InSession, HasRun, AbstractMode
    <3>3. Abstract!Again
      BY <2>0, <2>1, <3>2 DEF Abstract!Again
    <3> QED  BY <3>3 DEF Abstract!RecoveryNext
  <2>3. CASE LaunchFails /\ ScheduleRestart(attempts[s] + 1)
    <3>1. UNCHANGED <<run, sessionOf, exited>>
      BY <2>3 DEF LaunchFails
    <3>2. \/ ~InSession'
          \/ InSession' /\ attempts[s] + 1 < MaxAttempts /\ AbstractMode' = "waiting"
      BY <2>0, <2>3, <3>1, ScheduledMode
    <3>3. ASSUME InSession', attempts[s] + 1 < MaxAttempts, AbstractMode' = "waiting"
          PROVE  Abstract!Again
      BY <2>0, <2>1, <3>3 DEF Abstract!Again
    <3> QED  BY <3>2, <3>3, NoSessionLeft DEF Abstract!RecoveryNext
  <2> QED  BY <1>2, <2>2, <2>3 DEF Restart
<1> QED  BY <1>1, <1>2 DEF Retrying

LEMMA ThreadRefines ==
    ASSUME TypeInv, EncoderInv, EndInv, SessionInv,
           (\E r \in Runs : Configuring(r)) \/ (\E t \in Threads : Stopping(t))
    PROVE  [Abstract!RecoveryNext]_(Abstract!recoveryVars)
<1>1. UNCHANGED <<run, session, enabled, attempts, sessionOf, exited, armed>>
  BY DEF Configuring, Stopping, SendProbe, SendStart, AwaitOver, AwaitFails, Decide, TelemetryEnds,
     FinishBegin, FinishEnd, TerminateBegin, ProcessGone, Escalate, StopEnd, Moves, Terminating
<1>2. active' = active \/ CancelSession
  BY DEF Configuring, Stopping, SendProbe, SendStart, AwaitOver, AwaitFails, Decide, TelemetryEnds,
     FinishBegin, FinishEnd, TerminateBegin, ProcessGone, Escalate, StopEnd, Moves, Terminating
<1> QED  BY <1>1, <1>2, KeptOrCancelled

LEMMA CollectorRefines ==
    ASSUME TypeInv, EncoderInv, EndInv, SessionInv, NEW r \in Runs, Collecting(r)
    PROVE  [Abstract!RecoveryNext]_(Abstract!recoveryVars)
<1>1. CASE LineReady(r) \/ LineSignal(r) \/ LineChanged(r)
  BY <1>1, KeptOrCancelled DEF LineReady, LineSignal, LineChanged, NextLine
<1>2. CASE LineStarted(r)
  <2>1. UNCHANGED <<run, session, active, enabled, attempts, sessionOf, exited>> /\ ~exited[r]
    BY <1>2 DEF LineStarted, NextLine
  <2>2. CASE InSession /\ armed'[session] # armed[session]
    <3>1. session \in Sessions /\ r = run /\ session = sessionOf[run] /\ armed'[session] = TRUE
      BY <1>2, <2>2, SessionInRange DEF LineStarted, Heeded, InSession, TypeInv, TypeOK, SessionType
    <3>2. run # 0
      BY <3>1 DEF Runs
    <3>3. InSession' /\ AbstractMode = "up" /\ AbstractMode' = "up"
      BY <2>1, <2>2, <3>1, <3>2 DEF AbstractMode, InSession, HasRun
    <3>4. Abstract!Confirm
      BY <2>1, <2>2, <3>1, <3>3 DEF Abstract!Confirm
    <3> QED  BY <3>4 DEF Abstract!RecoveryNext
  <2>3. CASE ~(InSession /\ armed'[session] # armed[session])
    BY <2>1, <2>3, SessionAsBefore
  <2> QED  BY <2>2, <2>3
<1>3. CASE CollectExit(r)
  <2>0. /\ UNCHANGED <<run, session, armed, enabled, attempts, sessionOf>>
        /\ exited' = [exited EXCEPT ![r] = TRUE] /\ ~exited[r] /\ proc[r] \in {"crashed", "ended"}
    BY <1>3 DEF CollectExit
  <2>1. r = run
    BY <2>0 DEF EncoderInv, RunsInv, Unborn, Superseded, TypeInv, TypeOK, PanelType, Runs
  <2>2. CASE ~InSession
    <3>1. ~InSession'
      BY <1>3, <2>0, <2>2, SessionInRange DEF CollectExit, ScheduleRestart, CancelSession, CanRetry, InSession
    <3> QED  BY <3>1, NoSessionLeft
  <2>3. CASE InSession
    <3>1. /\ session \in Sessions /\ session # 0 /\ sessionOf[run] = session /\ ~expected[r]
          /\ attempts[session] \in 0..MaxAttempts /\ run # 0
      BY <2>1, <2>3, SessionInRange DEF InSession, SessionInv, ActiveOwnsRun, TypeInv, TypeOK, SessionType
    <3>2. ScheduleRestart(attempts[session])
      BY <1>3, <2>1, <3>1 DEF CollectExit
    <3>3. AbstractMode = "up" /\ exited'[run]
      BY <2>0, <2>1, <2>3, <3>1 DEF AbstractMode, HasRun, TypeInv, TypeOK, RunType
    <3>4. \/ ~InSession'
          \/ /\ InSession' /\ enabled[session] /\ armed[session]
             /\ attempts[session] < MaxAttempts /\ AbstractMode' = "waiting"
      BY <2>0, <2>1, <3>1, <3>2, <3>3, ScheduledMode
    <3>5. ASSUME InSession', enabled[session], armed[session],
                 attempts[session] < MaxAttempts, AbstractMode' = "waiting"
          PROVE  Abstract!Crash
      BY <2>0, <2>3, <3>3, <3>5 DEF Abstract!Crash
    <3> QED  BY <3>4, <3>5, NoSessionLeft DEF Abstract!RecoveryNext
  <2> QED  BY <2>2, <2>3
<1> QED  BY <1>1, <1>2, <1>3 DEF Collecting

\* The panel keeps the contract of the recovery: every step is, for the session,
\* one that Recovery allows, for any budget, number of runs and of threads.
THEOREM PanelImplementsRecovery == Spec => ImplementsRecovery
<1>1. Init => Abstract!Off
  BY DEF Init, Abstract!Off, AbstractMode, InSession
<1>2. /\ TypeInv /\ EncoderInv /\ EndInv /\ SessionInv
      /\ [Next]_vars
      => [Abstract!RecoveryNext]_(Abstract!recoveryVars)
  <2> SUFFICES ASSUME TypeInv, EncoderInv, EndInv, SessionInv, [Next]_vars
               PROVE  [Abstract!RecoveryNext]_(Abstract!recoveryVars)
    OBVIOUS
  <2>1. CASE Requests
    BY <2>1, RequestRefines
  <2>2. ASSUME NEW s \in Sessions, Retrying(s) PROVE [Abstract!RecoveryNext]_(Abstract!recoveryVars)
    BY <2>2, RetryingRefines
  <2>3. ASSUME NEW r \in Runs, Configuring(r) PROVE [Abstract!RecoveryNext]_(Abstract!recoveryVars)
    BY <2>3, ThreadRefines
  <2>4. ASSUME NEW r \in Runs, Collecting(r) PROVE [Abstract!RecoveryNext]_(Abstract!recoveryVars)
    BY <2>4, CollectorRefines
  <2>5. ASSUME NEW t \in Threads, Stopping(t) PROVE [Abstract!RecoveryNext]_(Abstract!recoveryVars)
    BY <2>5, ThreadRefines
  <2>6. ASSUME NEW r \in Runs, ProcessExit(r) \/ \E l \in Lines : Emit(r, l)
        PROVE  [Abstract!RecoveryNext]_(Abstract!recoveryVars)
    BY <2>6, KeptOrCancelled DEF ProcessExit, Emit, Environment
  <2>7. CASE UNCHANGED vars
    BY <2>7, KeptOrCancelled DEF vars
  <2> QED  BY <2>1, <2>2, <2>3, <2>4, <2>5, <2>6, <2>7 DEF Next
<1> QED  BY AllInvariants, <1>1, <1>2, PTL DEF Spec, ImplementsRecovery, Abstract!RecoverySpec

-----------------------------------------------------------------------------
(* The order of the lines.  The encoder's input falls silent with          *)
(* "changed", so after that line nothing in the pipe can set the signal.   *)

Moving == {"receiving", "retrying"}
Calm(q) == \A i \in DOMAIN q : q[i] \notin Moving
NoChange(q) == \A i \in DOMAIN q : q[i] # "changed"
ChangedIsLast(q) == \A i, j \in DOMAIN q : q[i] = "changed" /\ i < j => q[j] \notin Moving

\* The input of the encoder is over, or the encoder is.
Over(r) == proc[r] \in {"ordered_over", "encoding_over", "crashed", "ended"}
BeforeStart == {"send_probe", "await_ready", "decide", "send_start"}
LinesInOrder ==
    \A r \in Runs :
        /\ r > run => pipe[r] = <<>>
        /\ ChangedIsLast(pipe[r])
        /\ ~Over(r) => NoChange(pipe[r])
        /\ pc[r] \in BeforeStart =>
              proc[r] \in {"fresh", "probing", "probed", "crashed", "ended"} /\ NoChange(pipe[r])

LEMMA ReadsOn ==
    ASSUME NEW q \in Seq(Lines), q # <<>>
    PROVE  /\ Calm(q) => Calm(Tail(q))
           /\ NoChange(q) => NoChange(Tail(q))
           /\ ChangedIsLast(q) => ChangedIsLast(Tail(q))
           /\ ChangedIsLast(q) /\ Head(q) = "changed" => Calm(Tail(q))
<1>1. \A i \in DOMAIN Tail(q) : i \in Nat /\ i > 0 /\ i + 1 \in DOMAIN q /\ Tail(q)[i] = q[i + 1]
  OBVIOUS
<1>2. Head(q) = q[1] /\ 1 \in DOMAIN q
  OBVIOUS
<1>3. ChangedIsLast(q) => ChangedIsLast(Tail(q))
  <2> SUFFICES ASSUME ChangedIsLast(q), NEW i \in DOMAIN Tail(q), NEW j \in DOMAIN Tail(q),
                      Tail(q)[i] = "changed", i < j
               PROVE  Tail(q)[j] \notin Moving
    BY DEF ChangedIsLast
  <2>1. i + 1 \in DOMAIN q /\ j + 1 \in DOMAIN q /\ i + 1 < j + 1 /\ q[i + 1] = "changed"
        /\ Tail(q)[j] = q[j + 1]
    BY <1>1
  <2> QED  BY <2>1 DEF ChangedIsLast
<1>4. ASSUME ChangedIsLast(q), Head(q) = "changed" PROVE Calm(Tail(q))
  <2> SUFFICES ASSUME NEW j \in DOMAIN Tail(q) PROVE Tail(q)[j] \notin Moving
    BY DEF Calm
  <2>1. j + 1 \in DOMAIN q /\ 1 < j + 1 /\ Tail(q)[j] = q[j + 1]
    BY <1>1
  <2> QED  BY <1>2, <1>4, <2>1 DEF ChangedIsLast
<1> QED  BY <1>1, <1>3, <1>4 DEF Calm, NoChange

LEMMA PrintsOn ==
    ASSUME NEW q \in Seq(Lines), NEW l \in Lines
    PROVE  /\ Calm(q) /\ l \notin Moving => Calm(Append(q, l))
           /\ NoChange(q) /\ l # "changed" => NoChange(Append(q, l))
           /\ ChangedIsLast(q) /\ (l \notin Moving \/ NoChange(q)) => ChangedIsLast(Append(q, l))
<1>1. \A i \in DOMAIN Append(q, l) :
        /\ i \in Nat /\ i <= Len(q) + 1
        /\ (i \in DOMAIN q /\ Append(q, l)[i] = q[i]) \/ (i = Len(q) + 1 /\ Append(q, l)[i] = l)
  OBVIOUS
<1>2. ASSUME ChangedIsLast(q), l \notin Moving \/ NoChange(q) PROVE ChangedIsLast(Append(q, l))
  <2> SUFFICES ASSUME NEW i \in DOMAIN Append(q, l), NEW j \in DOMAIN Append(q, l),
                      Append(q, l)[i] = "changed", i < j
               PROVE  Append(q, l)[j] \notin Moving
    BY DEF ChangedIsLast
  <2>1. i \in DOMAIN q /\ q[i] = "changed"
    BY <1>1
  <2>2. CASE j \in DOMAIN q /\ Append(q, l)[j] = q[j]
    BY <1>2, <2>1, <2>2 DEF ChangedIsLast
  <2>3. CASE Append(q, l)[j] = l
    BY <1>2, <2>1, <2>3 DEF NoChange
  <2> QED  BY <1>1, <2>2, <2>3
<1> QED  BY <1>1, <1>2 DEF Calm, NoChange

LEMMA InitLines == Init => LinesInOrder
BY DEF Init, LinesInOrder, Calm, NoChange, ChangedIsLast, BeforeStart, Threads

\* A step that reads and prints nothing, and gives no command to an encoder.
LEMMA LinesFrame ==
    ASSUME LinesInOrder, UNCHANGED <<run, pipe>>,
           \A r \in Runs : proc'[r] = proc[r] \/ proc'[r] \in {"crashed", "ended"},
           \A r \in Runs : pc'[r] = pc[r] \/ pc'[r] \notin BeforeStart \/ pc[r] \in BeforeStart
    PROVE  LinesInOrder'
BY DEF LinesInOrder, Over

LEMMA LaunchLines ==
    ASSUME TypeInv, LinesInOrder, NEW s, NEW k, NEW rev, Launch(s, k, rev)
    PROVE  LinesInOrder'
<1>0. run \in Nat /\ run' = run + 1 /\ run' \in Runs /\ pipe' = pipe /\ pipe[run'] = <<>>
  BY DEF Launch, TypeInv, TypeOK, PanelType, LinesInOrder
<1>1. \A r \in Runs : r # run' => proc'[r] = proc[r] /\ pc'[r] = pc[r]
  BY <1>0 DEF Launch, TypeInv, TypeOK, ProcType, ThreadType
<1>2. proc'[run'] = "fresh"
  BY <1>0 DEF Launch, TypeInv, TypeOK, ProcType
<1> QED  BY <1>0, <1>1, <1>2 DEF LinesInOrder, Over, NoChange, ChangedIsLast, Runs

LEMMA ConfiguringLines ==
    ASSUME TypeInv, LinesInOrder, NEW r \in Runs, Configuring(r)
    PROVE  LinesInOrder'
<1>0. /\ UNCHANGED <<run, pipe>> /\ pc \in [Threads -> Points] /\ r \in Threads
      /\ proc \in [Runs -> ProcStates]
      /\ \A q \in Runs : q # r => pc'[q] = pc[q]
  BY DEF Configuring, SendProbe, SendStart, AwaitOver, AwaitFails, Decide, TelemetryEnds, FinishBegin,
     FinishEnd, Moves, GoTo, TypeInv, TypeOK, ThreadType, ProcType, Threads
<1>1. CASE pc[r] = "send_probe" /\ proc' = [proc EXCEPT ![r] = "probing"]
  BY <1>0, <1>1 DEF LinesInOrder, Over, BeforeStart
<1>2. CASE pc[r] = "send_start" /\ proc' = [proc EXCEPT ![r] = "ordered"] /\ pc'[r] = "await_started"
  BY <1>0, <1>2 DEF LinesInOrder, Over, BeforeStart
<1>3. CASE proc' = proc
  <2>1. pc'[r] \notin BeforeStart \/ pc[r] \in BeforeStart
    BY <1>0 DEF Configuring, SendProbe, SendStart, AwaitOver, AwaitFails, Decide, TelemetryEnds,
       FinishBegin, FinishEnd, GoTo, BeforeStart
  <2> QED  BY <1>0, <1>3, <2>1, LinesFrame
<1> QED  BY <1>0, <1>1, <1>2, <1>3 DEF Configuring, SendProbe, SendStart, AwaitOver, AwaitFails, Decide,
            TelemetryEnds, FinishBegin, FinishEnd, Moves, GoTo

LEMMA EmitLines ==
    ASSUME TypeInv, LinesInOrder, NEW r \in Runs, NEW l \in Lines, Emit(r, l), r <= run
    PROVE  LinesInOrder'
<1>0. /\ UNCHANGED <<run, pc>> /\ pipe[r] \in Seq(Lines)
      /\ pipe' = [pipe EXCEPT ![r] = Append(@, l)] /\ pipe'[r] = Append(pipe[r], l)
      /\ proc' = [proc EXCEPT ![r] = AfterLine(proc[r], l)] /\ proc'[r] = AfterLine(proc[r], l)
      /\ \A q \in Runs : q # r => pipe'[q] = pipe[q] /\ proc'[q] = proc[q]
      /\ run \in Nat
  BY DEF Emit, Environment, TypeInv, TypeOK, ProcType, PanelType
<1>1. /\ l \in Moving => proc[r] \in {"ordered", "encoding"} /\ proc'[r] = proc[r]
      /\ l = "changed" => proc[r] \in {"ordered", "encoding"} /\ proc'[r] \in {"ordered_over", "encoding_over"}
      /\ l = "started" => \/ proc[r] = "ordered" /\ proc'[r] = "encoding"
                          \/ proc[r] = "ordered_over" /\ proc'[r] = "encoding_over"
      /\ l \in {"video", "novideo"} => proc[r] = "probing" /\ proc'[r] = "probed"
  BY <1>0 DEF Emit, AfterLine, Moving
<1>2. l \in Moving \cup {"changed", "started"} \/ l \in {"video", "novideo"}
  BY DEF Lines, Moving
<1>3. /\ ChangedIsLast(pipe[r]) /\ (~Over(r) => NoChange(pipe[r]))
      /\ pc[r] \in BeforeStart => proc[r] \in {"fresh", "probing", "probed", "crashed", "ended"}
  BY DEF LinesInOrder
<1>4. ChangedIsLast(pipe'[r])
  BY <1>0, <1>1, <1>3, PrintsOn DEF Over
<1>5. ~Over(r)' => NoChange(pipe'[r])
  BY <1>0, <1>1, <1>2, <1>3, PrintsOn DEF Over, Moving
<1>6. pc'[r] \in BeforeStart => proc'[r] \in {"fresh", "probing", "probed", "crashed", "ended"}
                                /\ NoChange(pipe'[r])
  BY <1>0, <1>1, <1>2, <1>3, PrintsOn DEF Over, Moving
<1> QED  BY <1>0, <1>4, <1>5, <1>6 DEF LinesInOrder, Over, Runs

LEMMA LineLines ==
    ASSUME TypeInv, LinesInOrder, NEW r \in Runs, NEW l \in Lines, NextLine(r, l)
    PROVE  LinesInOrder'
<1>0. /\ UNCHANGED <<run, pc, proc>> /\ pipe[r] \in Seq(Lines) /\ pipe[r] # <<>>
      /\ pipe' = [pipe EXCEPT ![r] = Tail(@)] /\ pipe'[r] = Tail(pipe[r])
      /\ \A q \in Runs : q # r => pipe'[q] = pipe[q]
  BY DEF NextLine, TypeInv, TypeOK, ProcType
<1> QED  BY <1>0, ReadsOn DEF LinesInOrder, Over

LEMMA NextLines == TypeInv /\ EncoderInv /\ LinesInOrder /\ [Next]_vars => LinesInOrder'
<1> SUFFICES ASSUME TypeInv, EncoderInv, LinesInOrder, [Next]_vars PROVE LinesInOrder'
  OBVIOUS
<1>0. ASSUME LaunchFails PROVE LinesInOrder'
  BY <1>0, LinesFrame DEF LaunchFails
<1>1. CASE Requests
  <2>1. ASSUME NEW t \in Callers, Close(t) \/ StopBegin(t) PROVE LinesInOrder'
    <3>1. UNCHANGED <<run, pipe, proc>> /\ \A q \in Runs : pc'[q] = pc[q]
      <4>1. PICK p \in Points : pc' = [pc EXCEPT ![t] = p] /\ UNCHANGED <<run, pipe, proc>>
        BY <2>1 DEF Close, StopBegin, Rest, Points, StopPoints
      <4> QED  BY <4>1, CallersAreNotRuns DEF TypeInv, TypeOK, ThreadType, Threads
    <3> QED  BY <3>1, LinesFrame
  <2>2. CASE SaveConfig \/ StartPreview \/ StopPreview
    BY <2>2, LinesFrame DEF SaveConfig, StartPreview, StopPreview
  <2> QED  BY <1>0, <1>1, <2>1, <2>2, LaunchLines DEF Requests, Start, Probe
<1>2. ASSUME NEW s \in Sessions, Retrying(s) PROVE LinesInOrder'
  <2>1. CASE TimerFires(s) \/ TimerCancelled(s) \/ (Restart(s) /\ ~MayRestart(s))
    BY <2>1, LinesFrame DEF TimerFires, TimerCancelled, Restart
  <2> QED  BY <1>0, <1>2, <2>1, LaunchLines DEF Retrying, Restart
<1>3. ASSUME NEW r \in Runs, Configuring(r) PROVE LinesInOrder'
  BY <1>3, ConfiguringLines
<1>4. ASSUME NEW r \in Runs, Collecting(r) PROVE LinesInOrder'
  <2>1. CASE CollectExit(r)
    BY <2>1, LinesFrame DEF CollectExit
  <2>2. CASE ~CollectExit(r)
    <3>1. \E l \in Lines : NextLine(r, l)
      BY <1>4, <2>2 DEF Collecting, LineReady, LineStarted, LineSignal, LineChanged, Lines
    <3> QED  BY <3>1, LineLines
  <2> QED  BY <2>1, <2>2
<1>5. ASSUME NEW r \in Runs, ProcessExit(r) PROVE LinesInOrder'
  BY <1>5, LinesFrame DEF ProcessExit, Environment, TypeInv, TypeOK, ProcType
<1>6. ASSUME NEW r \in Runs, NEW l \in Lines, Emit(r, l) PROVE LinesInOrder'
  <2>1. r <= run
    BY <1>6 DEF Emit, Alive, LiveStates, EncoderInv, RunsInv, Unborn, TypeInv, TypeOK, PanelType, Runs
  <2> QED  BY <1>6, <2>1, EmitLines
<1>7. ASSUME NEW t \in Threads, Stopping(t) PROVE LinesInOrder'
  <2>1. UNCHANGED <<run, pipe, proc>>
    BY <1>7 DEF Stopping, TerminateBegin, ProcessGone, Escalate, StopEnd, Terminating
  <2>2. \A q \in Runs : pc'[q] = pc[q] \/ pc'[q] \notin BeforeStart
    <3>1. PICK p \in Points \ BeforeStart : pc' = [pc EXCEPT ![t] = p]
      BY <1>7 DEF Stopping, TerminateBegin, ProcessGone, Escalate, StopEnd, GoTo, Rest, BeforeStart, Points,
         StopPoints
    <3> QED  BY <3>1 DEF TypeInv, TypeOK, ThreadType
  <2> QED  BY <2>1, <2>2, LinesFrame
<1>8. CASE UNCHANGED vars
  BY <1>8, LinesFrame DEF vars
<1> QED  BY <1>1, <1>2, <1>3, <1>4, <1>5, <1>6, <1>7, <1>8 DEF Next

-----------------------------------------------------------------------------
(* Who has marked a run, and whose its reason is.                          *)

StopReasons == {"operator_stop", "panel_shutdown"}

\* _finish expects the end of its run before _terminate cancels it; a caller of
\* stop() has done both at once, and the reason stays the caller's.
MarkInv ==
    /\ \A r \in Runs :
          /\ expected[r] /\ ~cancel[r] => pc[r] = "stop_lock"
          /\ pc[r] \in StopPoints => expected[r]
          /\ pc[r] \in StopPoints \ {"stop_lock"} => cancel[r]
          /\ outcome[r] \notin StopReasons
    /\ \A t \in Callers : target[t] # 0 =>
          /\ target[t] \in Runs /\ target[t] <= run
          /\ cancel[target[t]] /\ expected[target[t]] /\ reason[target[t]] \in StopReasons

LEMMA InitMarks == Init => MarkInv
BY DEF Init, MarkInv, StopPoints, StopReasons, Threads

\* A step in which nobody begins to stop a run.
LEMMA MarksFrame ==
    ASSUME TypeInv, MarkInv, run' \in Nat, run <= run', UNCHANGED expected,
           \A r \in Runs : cancel[r] => cancel'[r] /\ reason'[r] = reason[r],
           \A r \in Runs : outcome'[r] \notin StopReasons,
           \A t \in Callers : target'[t] \in {0, target[t]},
           \A r \in Runs : \/ pc'[r] = pc[r]
                           \/ /\ pc[r] = "stop_lock" => cancel'[r]
                              /\ pc'[r] \in StopPoints => expected[r] /\ cancel'[r]
    PROVE  MarkInv'
<1>1. run \in Nat
  BY DEF TypeInv, TypeOK, PanelType
<1> QED  BY <1>1 DEF MarkInv, Runs

LEMMA LaunchMarks ==
    ASSUME TypeInv, EndInv, MarkInv, NEW s, NEW k, NEW rev, Launch(s, k, rev)
    PROVE  MarkInv'
<1>1. /\ UNCHANGED <<cancel, expected, reason, outcome, target>> /\ run' = run + 1 /\ run \in Nat
      /\ run' \in Runs /\ ~expected[run']
  BY DEF Launch, TypeInv, TypeOK, PanelType, EndInv, Unlaunched
<1>2. \A r \in Runs : pc'[r] = pc[r] \/ (r = run' /\ pc'[r] = "send_probe")
  BY <1>1 DEF Launch, TypeInv, TypeOK, ThreadType
<1> QED  BY <1>1, <1>2, MarksFrame DEF MarkInv, StopPoints

LEMMA StopBeginMarks ==
    ASSUME TypeInv, MarkInv, NEW t \in Callers, StopBegin(t)
    PROVE  MarkInv'
<1>0. /\ UNCHANGED <<run, outcome>> /\ run \in Nat /\ \A r \in Runs : pc'[r] = pc[r]
      /\ \A r \in Runs : reason'[r] = reason[r] \/ (r = run /\ reason'[r] \in StopReasons)
      /\ run \in Runs => reason'[run] \in StopReasons
  <2>1. PICK p \in Points : pc' = [pc EXCEPT ![t] = p]
    BY DEF StopBegin, Rest, Points, StopPoints
  <2>2. \A r \in Runs : pc'[r] = pc[r]
    BY <2>1, CallersAreNotRuns DEF TypeInv, TypeOK, ThreadType, Threads
  <2> QED  BY <2>2 DEF StopBegin, StopReason, StopReasons, TypeInv, TypeOK, PanelType
<1>1. CASE UNCHANGED <<expected, cancel, target>>
  BY <1>0, <1>1 DEF MarkInv
<1>2. CASE /\ ~(run = 0 \/ (run # 0 /\ exited[run]))
           /\ expected' = [expected EXCEPT ![run] = TRUE] /\ cancel' = [cancel EXCEPT ![run] = TRUE]
           /\ target' = [target EXCEPT ![t] = run]
  <2>0. run \in Runs
    BY <1>2, RunInRange
  <2>1. /\ cancel'[run] /\ expected'[run]
        /\ \A r \in Runs : r # run => expected'[r] = expected[r] /\ cancel'[r] = cancel[r]
        /\ \A x \in Callers : target'[x] \in {target[x], run}
    BY <1>2, <2>0 DEF TypeInv, TypeOK, RunType, ThreadType
  <2>2. \A r \in Runs : r = run \/ (expected'[r] = expected[r] /\ cancel'[r] = cancel[r])
    BY <2>1
  <2>3. ASSUME NEW r \in Runs
        PROVE  /\ expected'[r] /\ ~cancel'[r] => pc'[r] = "stop_lock"
               /\ pc'[r] \in StopPoints => expected'[r]
               /\ pc'[r] \in StopPoints \ {"stop_lock"} => cancel'[r]
               /\ outcome'[r] \notin StopReasons
    BY <1>0, <2>1, <2>2 DEF MarkInv
  <2>4. ASSUME NEW x \in Callers, target'[x] # 0
        PROVE  /\ target'[x] \in Runs /\ target'[x] <= run'
               /\ cancel'[target'[x]] /\ expected'[target'[x]] /\ reason'[target'[x]] \in StopReasons
    <3>1. CASE target'[x] = run
      BY <1>0, <2>0, <2>1, <3>1 DEF Runs
    <3>2. CASE target'[x] # run
      BY <1>0, <2>1, <2>2, <2>4, <3>2 DEF MarkInv
    <3> QED  BY <3>1, <3>2
  <2> QED  BY <2>3, <2>4 DEF MarkInv
<1> QED  BY <1>1, <1>2 DEF StopBegin

LEMMA RequestMarks == ASSUME TypeInv, EndInv, MarkInv, Requests PROVE MarkInv'
<1>0. run \in Nat /\ \A r \in Runs : outcome[r] \notin StopReasons
  BY DEF MarkInv, TypeInv, TypeOK, PanelType
<1>1. ASSUME LaunchFails PROVE MarkInv'
  BY <1>0, <1>1, MarksFrame DEF LaunchFails
<1>2. ASSUME NEW t \in Callers, Close(t) PROVE MarkInv'
  <2>1. \A r \in Runs : pc'[r] = pc[r]
    BY <1>2, CallersAreNotRuns DEF Close, TypeInv, TypeOK, ThreadType
  <2> QED  BY <1>0, <1>2, <2>1, MarksFrame DEF Close
<1>3. ASSUME SaveConfig \/ StartPreview \/ StopPreview PROVE MarkInv'
  BY <1>0, <1>3, MarksFrame DEF SaveConfig, StartPreview, StopPreview
<1> QED  BY <1>1, <1>2, <1>3, LaunchMarks, StopBeginMarks DEF Requests, Start, Probe

LEMMA ConfiguringMarks ==
    ASSUME TypeInv, EndInv, MarkInv, NEW r \in Runs, Configuring(r)
    PROVE  MarkInv'
<1>0. /\ UNCHANGED <<run, cancel, target>> /\ run \in Nat
      /\ \A q \in Runs : q # r => pc'[q] = pc[q]
      /\ \A q \in Runs : outcome'[q] \notin StopReasons
  <2>1. PICK p \in Points : pc' = [pc EXCEPT ![r] = p]
    BY DEF Configuring, SendProbe, SendStart, AwaitOver, AwaitFails, Decide, TelemetryEnds, FinishBegin,
       FinishEnd, Moves, GoTo, Points, FinishPoints, StopPoints
  <2>2. PICK o \in Failures \cup {"probe_complete", outcome[r]} : outcome' = [outcome EXCEPT ![r] = o]
    BY DEF Configuring, SendProbe, SendStart, AwaitOver, AwaitFails, Decide, TelemetryEnds, FinishBegin,
       FinishEnd, Failures, TypeInv, TypeOK, ThreadType
  <2>3. \A q \in Runs : outcome'[q] \notin StopReasons
    BY <2>2 DEF MarkInv, Failures, StopReasons, TypeInv, TypeOK, ThreadType
  <2>4. UNCHANGED <<run, cancel, target>> /\ run \in Nat
    BY DEF Configuring, SendProbe, SendStart, AwaitOver, AwaitFails, Decide, TelemetryEnds, FinishBegin,
       FinishEnd, Moves, GoTo, TypeInv, TypeOK, PanelType
  <2> QED  BY <2>1, <2>3, <2>4 DEF TypeInv, TypeOK, ThreadType, Threads
<1>1. CASE UNCHANGED <<expected, reason>> /\ pc[r] # "stop_lock" /\ pc'[r] \notin StopPoints
  BY <1>0, <1>1, MarksFrame
<1>2. CASE FinishBegin(r) /\ ~(r # run \/ cancel[r])
  <2>1. /\ expected' = [expected EXCEPT ![r] = TRUE] /\ reason' = [reason EXCEPT ![r] = outcome[r]]
        /\ pc'[r] = "stop_lock" /\ ~cancel[r]
    BY <1>2 DEF FinishBegin, GoTo, TypeInv, TypeOK, ThreadType, Threads
  <2>2. \A q \in Runs : /\ q # r => expected'[q] = expected[q] /\ reason'[q] = reason[q]
                        /\ expected[q] => expected'[q]
    BY <2>1 DEF TypeInv, TypeOK, RunType
  <2>3. expected'[r]
    BY <2>1 DEF TypeInv, TypeOK, RunType
  <2> QED  BY <1>0, <2>1, <2>2, <2>3 DEF MarkInv, StopPoints
<1>3. CASE ~(FinishBegin(r) /\ ~(r # run \/ cancel[r]))
  <2>1. UNCHANGED <<expected, reason>>
    BY <1>3 DEF Configuring, SendProbe, SendStart, AwaitOver, AwaitFails, Decide, TelemetryEnds,
       FinishBegin, FinishEnd, Moves
  <2>2. pc[r] # "stop_lock" /\ pc'[r] \notin StopPoints
    BY <1>3 DEF Configuring, SendProbe, SendStart, AwaitOver, AwaitFails, Decide, TelemetryEnds,
       FinishBegin, FinishEnd, GoTo, FinishPoints, StopPoints, TypeInv, TypeOK, ThreadType, Threads
  <2> QED  BY <1>1, <2>1, <2>2
<1> QED  BY <1>2, <1>3

LEMMA StoppingMarks ==
    ASSUME TypeInv, EndInv, MarkInv, NEW t \in Threads, Stopping(t)
    PROVE  MarkInv'
<1>0. /\ UNCHANGED <<run, reason, outcome>> /\ run \in Nat
      /\ \A r \in Runs : outcome[r] \notin StopReasons
  BY DEF Stopping, TerminateBegin, ProcessGone, Escalate, StopEnd, Terminating, MarkInv, TypeInv, TypeOK,
     PanelType
<1>1. CASE TerminateBegin(t)
  <2>1. Target(t) \in Runs /\ expected' = expected /\ target' = target
    BY <1>1 DEF TerminateBegin, GoTo, EndInv, StopIsExpected, TypeInv, TypeOK, RunType
  <2>2. cancel'[Target(t)] /\ \A r \in Runs : cancel[r] => cancel'[r]
    BY <1>1, <2>1 DEF TerminateBegin, TypeInv, TypeOK, RunType
  <2>3. \A r \in Runs : pc'[r] = pc[r] \/ (r = t /\ pc[r] = "stop_lock")
    <3>1. PICK p \in Points : pc' = [pc EXCEPT ![t] = p] /\ pc[t] = "stop_lock"
      BY <1>1 DEF TerminateBegin, GoTo, Points, StopPoints
    <3> QED  BY <3>1 DEF TypeInv, TypeOK, ThreadType
  <2>4. \A r \in Runs : pc'[r] = pc[r] \/ (expected[r] /\ cancel'[r])
    BY <2>1, <2>2, <2>3 DEF Target, MarkInv, StopPoints
  <2> QED  BY <1>0, <2>1, <2>2, <2>4, MarksFrame
<1>2. CASE ProcessGone(t) \/ Escalate(t)
  <2>1. UNCHANGED <<expected, cancel, target>>
    BY <1>2 DEF ProcessGone, Escalate, GoTo
  <2>2. \A r \in Runs : pc'[r] = pc[r] \/ pc[r] \in HoldsStopLock
    <3>1. PICK p \in Points : pc' = [pc EXCEPT ![t] = p] /\ pc[t] \in HoldsStopLock
      BY <1>2 DEF ProcessGone, Escalate, GoTo, HoldsStopLock, Rest, Points, StopPoints
    <3> QED  BY <3>1 DEF TypeInv, TypeOK, ThreadType
  <2> QED  BY <1>0, <2>1, <2>2, MarksFrame DEF MarkInv, StopPoints, HoldsStopLock
<1>3. CASE StopEnd(t)
  <2>1. /\ UNCHANGED <<expected, cancel>> /\ \A r \in Runs : pc'[r] = pc[r]
        /\ \A x \in Callers : target'[x] \in {0, target[x]}
    BY <1>3, CallersAreNotRuns DEF StopEnd, TypeInv, TypeOK, ThreadType
  <2> QED  BY <1>0, <2>1, MarksFrame
<1> QED  BY <1>1, <1>2, <1>3 DEF Stopping

LEMMA NextMarks == TypeInv /\ EndInv /\ MarkInv /\ [Next]_vars => MarkInv'
<1> SUFFICES ASSUME TypeInv, EndInv, MarkInv, [Next]_vars PROVE MarkInv'
  OBVIOUS
<1>0. run \in Nat /\ \A r \in Runs : outcome[r] \notin StopReasons
  BY DEF MarkInv, TypeInv, TypeOK, PanelType
<1>1. CASE Requests
  BY <1>1, RequestMarks
<1>2. ASSUME NEW s \in Sessions, Retrying(s) PROVE MarkInv'
  <2>1. CASE TimerFires(s) \/ TimerCancelled(s) \/ (Restart(s) /\ ~MayRestart(s))
    BY <1>0, <2>1, MarksFrame DEF TimerFires, TimerCancelled, Restart
  <2>2. ASSUME LaunchFails PROVE MarkInv'
    BY <1>0, <2>2, MarksFrame DEF LaunchFails
  <2> QED  BY <1>2, <2>1, <2>2, LaunchMarks DEF Retrying, Restart
<1>3. ASSUME NEW r \in Runs, Configuring(r) PROVE MarkInv'
  BY <1>3, ConfiguringMarks
<1>4. ASSUME NEW r \in Runs, Collecting(r) PROVE MarkInv'
  <2>1. /\ UNCHANGED <<run, expected, pc, outcome, target>>
        /\ \A q \in Runs : cancel[q] => cancel'[q] /\ reason'[q] = reason[q]
    BY <1>4 DEF Collecting, LineReady, LineStarted, LineSignal, LineChanged, Heeded, NextLine, CollectExit,
       TypeInv, TypeOK, RunType
  <2> QED  BY <1>0, <2>1, MarksFrame
<1>5. ASSUME NEW r \in Runs, ProcessExit(r) \/ \E l \in Lines : Emit(r, l) PROVE MarkInv'
  BY <1>0, <1>5, MarksFrame DEF ProcessExit, Emit, Environment
<1>6. ASSUME NEW t \in Threads, Stopping(t) PROVE MarkInv'
  BY <1>6, StoppingMarks
<1>7. CASE UNCHANGED vars
  BY <1>0, <1>7, MarksFrame DEF vars
<1> QED  BY <1>1, <1>2, <1>3, <1>4, <1>5, <1>6, <1>7 DEF Next

-----------------------------------------------------------------------------
(* What a phase says of the run.                                           *)

ActivePhases == {"probing", "starting", "running", "reconnecting"}

\* A phase that claims a run is true of it, but for what _finish has begun.
ActiveIsTrue ==
    phase \in ActivePhases =>
        /\ run # 0 /\ (exited[run] => expected[run])
        /\ expected[run] => pc[run] \in StopPoints \/ asked[run] = "kill"
        /\ pc[run] = "wait_kill" => asked[run] = "kill"

\* A run being stopped by a request is never shown as active again.
StopsAreShown == \A t \in Callers : target[t] # 0 /\ target[t] = run => phase \notin ActivePhases

\* No line still to come from run r can set the signal.
NothingMoves(r) == Over(r) /\ Calm(pipe[r])

\* While _finish ends the run, either its outcome stands, and only a late line
\* has left "stopping", or another has taken its place for good.
FinishIsTrue ==
    run # 0 /\ pc[run] \in StopPoints =>
        /\ reason[run] = outcome[run] => phase = "stopping" \/ LateLine(run)
        /\ reason[run] # outcome[run] =>
              phase \notin ActivePhases /\ (cancel[run] \/ (signal = "stopped" /\ NothingMoves(run)))

EncodingHasStarted == encoding => run # 0 /\ started[run]

\* At rest no session is active and nothing of the last run is heeded.
IdleIsOver ==
    phase = "idle" => /\ \A s \in Sessions : ~active[s]
                      /\ run # 0 => cancel[run] /\ (expected[run] \/ exited[run])

PhaseInv == ActiveIsTrue /\ StopsAreShown /\ FinishIsTrue /\ EncodingHasStarted /\ IdleIsOver

PanelInv == TypeInv /\ EncoderInv /\ EndInv /\ SessionInv /\ LinesInOrder /\ MarkInv /\ PhaseInv

LEMMA InitPhase == Init => PhaseInv
BY DEF Init, PhaseInv, ActiveIsTrue, StopsAreShown, FinishIsTrue, EncodingHasStarted, IdleIsOver,
   ActivePhases

\* A step that leaves the phase as it is.
LEMMA PhaseFrame ==
    ASSUME PanelInv, UNCHANGED <<phase, signal, encoding, run, expected, reason, exited>>,
           \A r \in Runs : (cancel[r] => cancel'[r]) /\ (started[r] => started'[r]),
           \A s \in Sessions : active'[s] => active[s],
           \A t \in Callers : target'[t] \in {0, target[t]},
           run # 0 /\ pc'[run] \in StopPoints =>
               pc[run] \in StopPoints /\ outcome'[run] = outcome[run]
               /\ (NothingMoves(run) => NothingMoves(run)'),
           phase \in ActivePhases =>
               /\ pc[run] \in StopPoints \/ asked[run] = "kill" =>
                     pc'[run] \in StopPoints \/ asked'[run] = "kill"
               /\ pc'[run] = "wait_kill" => asked'[run] = "kill"
    PROVE  PhaseInv'
<1>0. run # 0 => run \in Runs
  BY RunInRange DEF PanelInv
<1>1. ActiveIsTrue' /\ StopsAreShown'
  BY <1>0 DEF PanelInv, PhaseInv, ActiveIsTrue, StopsAreShown
<1>2. FinishIsTrue'
  BY <1>0 DEF PanelInv, PhaseInv, FinishIsTrue, LateLine
<1>3. EncodingHasStarted' /\ IdleIsOver'
  BY <1>0 DEF PanelInv, PhaseInv, EncodingHasStarted, IdleIsOver
<1> QED  BY <1>1, <1>2, <1>3 DEF PhaseInv

LEMMA QuietPhase ==
    ASSUME PanelInv,
           UNCHANGED <<phase, signal, encoding, run, expected, reason, exited, cancel, started, active,
                       target, pc, outcome, pipe, proc, asked>>
    PROVE  PhaseInv'
BY PhaseFrame DEF PanelInv, PhaseInv, ActiveIsTrue, NothingMoves, Over, Calm

LEMMA LaunchPhase ==
    ASSUME PanelInv, NEW s \in 0..MaxSessions, NEW k, NEW rev \in 0..MaxRevision, Launch(s, k, rev)
    PROVE  PhaseInv'
<1>1. /\ run' = run + 1 /\ run' \in Runs /\ run' # 0 /\ run \in Nat /\ run' \in Threads
      /\ ~expected'[run'] /\ ~exited'[run'] /\ phase' = "probing" /\ encoding' = FALSE
      /\ pc' = [pc EXCEPT ![run'] = "send_probe"] /\ target' = target
  BY LaunchFacts, RunInRange DEF PanelInv, Launch, Threads
<1>2. pc'[run'] = "send_probe"
  BY <1>1 DEF PanelInv, TypeInv, TypeOK, ThreadType
<1>3. \A t \in Callers : target'[t] # 0 => target'[t] # run'
  BY <1>1 DEF PanelInv, MarkInv, Runs
<1> QED  BY <1>1, <1>2, <1>3 DEF PhaseInv, ActiveIsTrue, StopsAreShown, FinishIsTrue, EncodingHasStarted,
         IdleIsOver, StopPoints

\* A launch that fails shows an error, or that a restart is pending.
LEMMA LaunchFailsPhase ==
    ASSUME PanelInv, LaunchFails, phase' \in {"error", "restart_wait"},
           run # 0 /\ pc[run] \in StopPoints => phase # "stopping"
    PROVE  PhaseInv'
<1>1. UNCHANGED <<run, signal, encoding, started, cancel, reason, outcome, pc, target, proc, pipe>>
  BY DEF LaunchFails
<1> QED  BY <1>1 DEF PanelInv, PhaseInv, ActiveIsTrue, StopsAreShown, FinishIsTrue, EncodingHasStarted,
         IdleIsOver, ActivePhases, LateLine, NothingMoves, Over

LEMMA StopBeginPhase ==
    ASSUME PanelInv, NEW t \in Callers, StopBegin(t)
    PROVE  PhaseInv'
<1>0. /\ UNCHANGED <<run, outcome, exited, started, proc, pipe>> /\ phase' \notin ActivePhases
      /\ encoding' => encoding
      /\ \A s \in Sessions : ~active'[s]
  BY DEF StopBegin, ActivePhases, CancelSession, PanelInv, SessionInv, ActiveOwnsRun
<1>1. run # 0 => /\ run \in Runs /\ cancel'[run] /\ (phase' = "idle" => exited[run])
                 /\ reason'[run] # outcome[run]
  <2> SUFFICES ASSUME run # 0
               PROVE  /\ run \in Runs /\ cancel'[run] /\ (phase' = "idle" => exited[run])
                      /\ reason'[run] # outcome[run]
    OBVIOUS
  <2>1. run \in Runs
    BY RunInRange DEF PanelInv
  <2>2. reason'[run] # outcome[run]
    BY <2>1 DEF StopBegin, StopReason, PanelInv, MarkInv, StopReasons
  <2>3. cancel'[run] /\ (phase' = "idle" => exited[run])
    BY <2>1 DEF StopBegin, PanelInv, EndInv, Collected, TypeInv, TypeOK, RunType
  <2> QED  BY <2>1, <2>2, <2>3
<1> QED  BY <1>0, <1>1 DEF PanelInv, PhaseInv, ActiveIsTrue, StopsAreShown, FinishIsTrue,
         EncodingHasStarted, IdleIsOver

LEMMA RequestPhase == ASSUME PanelInv, Requests PROVE PhaseInv'
<1>0. Admits => /\ \A s \in Sessions : ~active[s]
                /\ run # 0 => exited[run] /\ cancel[run] /\ phase # "stopping"
  BY RunInRange DEF Admits, Busy, PanelInv, SessionInv, ActiveOwnsRun, Sessions, EndInv, Collected
<1>1. ASSUME NEW auto \in BOOLEAN, NEW k \in Keys, Start(auto, k) PROVE PhaseInv'
  <2>1. sessions + 1 \in 0..MaxSessions /\ revision \in 0..MaxRevision
    BY <1>1, BoundsAssumption DEF Start, NewSession, Sessions, PanelInv, TypeInv, TypeOK, PanelType
  <2> QED  BY <1>0, <1>1, <2>1, LaunchPhase, LaunchFailsPhase DEF Start
<1>2. ASSUME NEW k \in Keys, Probe(k) PROVE PhaseInv'
  <2>1. 0 \in 0..MaxSessions /\ revision \in 0..MaxRevision
    BY BoundsAssumption DEF PanelInv, TypeInv, TypeOK, PanelType
  <2> QED  BY <1>0, <1>2, <2>1, LaunchPhase, LaunchFailsPhase DEF Probe
<1>3. ASSUME SaveConfig PROVE PhaseInv'
  <2>1. /\ \A s \in Sessions : ~active[s]
        /\ run # 0 => exited[run] /\ cancel[run] /\ phase # "stopping"
    BY <1>3, RunInRange DEF SaveConfig, Busy, PanelInv, SessionInv, ActiveOwnsRun, Sessions, EndInv, Collected
  <2>2. /\ UNCHANGED <<encoding, run, active, started, cancel, expected, exited, reason, outcome, pc, target>>
        /\ phase' = "idle"
    BY <1>3 DEF SaveConfig
  <2> QED  BY <2>1, <2>2 DEF PanelInv, PhaseInv, ActiveIsTrue, StopsAreShown, FinishIsTrue, EncodingHasStarted,
              IdleIsOver, ActivePhases, LateLine
<1>4. ASSUME StartPreview \/ StopPreview PROVE PhaseInv'
  BY <1>4, QuietPhase DEF StartPreview, StopPreview
<1>5. ASSUME NEW t \in Callers, Close(t) PROVE PhaseInv'
  <2>1. \A r \in Runs : pc'[r] = pc[r]
    BY <1>5, CallersAreNotRuns DEF Close, PanelInv, TypeInv, TypeOK, ThreadType
  <2>2. /\ UNCHANGED <<phase, signal, encoding, run, expected, reason, exited, cancel, started, active,
                       target, outcome, pipe, proc, asked>>
        /\ run # 0 => pc'[run] = pc[run]
    BY <1>5, <2>1, RunInRange DEF Close, PanelInv
  <2> QED  BY <2>2, PhaseFrame DEF PanelInv, PhaseInv, ActiveIsTrue, NothingMoves, Over
<1> QED  BY <1>1, <1>2, <1>3, <1>4, <1>5, StopBeginPhase DEF Requests

LEMMA RetryingPhase ==
    ASSUME PanelInv, NEW s \in Sessions, Retrying(s)
    PROVE  PhaseInv'
<1>1. CASE TimerFires(s) \/ TimerCancelled(s) \/ (Restart(s) /\ ~MayRestart(s))
  BY <1>1, QuietPhase DEF TimerFires, TimerCancelled, Restart
<1>2. CASE Restart(s) /\ MayRestart(s)
  <2>1. s \in 0..MaxSessions /\ profile[s] \in 0..MaxRevision
    BY BoundsAssumption DEF PanelInv, TypeInv, TypeOK, SessionType, Sessions
  <2>2. run # 0 => run \in Runs /\ pc[run] \notin StopPoints
    BY <1>2, RunInRange DEF MayRestart, PanelInv, SessionInv, ActiveOwnsRun, MarkInv
  <2>3. ASSUME LaunchFails, ScheduleRestart(attempts[s] + 1) PROVE PhaseInv'
    BY <2>2, <2>3, LaunchFailsPhase DEF ScheduleRestart
  <2> QED  BY <1>2, <2>1, <2>3, LaunchPhase DEF Restart
<1> QED  BY <1>1, <1>2 DEF Retrying

LEMMA ConfiguringPhase ==
    ASSUME PanelInv, NEW r \in Runs, Configuring(r)
    PROVE  PhaseInv'
<1>0. /\ UNCHANGED <<run, exited, cancel, started, target, pipe, asked>> /\ r \in Threads /\ r # 0
      /\ \A q \in Runs : q # r => pc'[q] = pc[q] /\ outcome'[q] = outcome[q] /\ proc'[q] = proc[q]
      /\ run # 0 => run \in Runs
  <2>1. PICK p \in Points : pc' = [pc EXCEPT ![r] = p]
    BY DEF Configuring, SendProbe, SendStart, AwaitOver, AwaitFails, Decide, TelemetryEnds, FinishBegin,
       FinishEnd, Moves, GoTo, Points, FinishPoints, StopPoints
  <2>2. \A q \in Runs : q # r => outcome'[q] = outcome[q] /\ proc'[q] = proc[q]
    BY DEF Configuring, SendProbe, SendStart, AwaitOver, AwaitFails, Decide, TelemetryEnds, FinishBegin,
       FinishEnd, Moves, PanelInv, TypeInv, TypeOK, ThreadType, ProcType
  <2>3. UNCHANGED <<run, exited, cancel, started, target, pipe, asked>>
    BY DEF Configuring, SendProbe, SendStart, AwaitOver, AwaitFails, Decide, TelemetryEnds, FinishBegin,
       FinishEnd, Moves, GoTo
  <2>4. \A q \in Runs : q # r => pc'[q] = pc[q]
    BY <2>1 DEF PanelInv, TypeInv, TypeOK, ThreadType, Threads
  <2>5. r \in Threads /\ r # 0 /\ (run # 0 => run \in Runs)
    BY RunInRange DEF PanelInv, Threads, Runs
  <2> QED  BY <2>2, <2>3, <2>4, <2>5
<1>1. ASSUME UNCHANGED <<phase, signal, encoding, expected, reason, active>>,
             pc'[r] \notin StopPoints,
             r = run => phase \notin ActivePhases \/ pc[r] \notin StopPoints
      PROVE  PhaseInv'
  <2>1. run # 0 => pc'[run] = pc[run] \/ run = r
    BY <1>0
  <2>2. run # 0 /\ run # r => (NothingMoves(run) => NothingMoves(run)')
    BY <1>0 DEF NothingMoves, Over
  <2> QED  BY <1>0, <1>1, <2>1, <2>2, PhaseFrame DEF PanelInv, PhaseInv, ActiveIsTrue, StopPoints
<1>2. CASE SendProbe(r) \/ SendStart(r) \/ AwaitOver(r) \/ AwaitFails(r) \/ TelemetryEnds(r)
  <2>1. pc'[r] \notin StopPoints /\ pc[r] \notin StopPoints
    BY <1>0, <1>2 DEF SendProbe, SendStart, AwaitOver, AwaitFails, TelemetryEnds, GoTo, StopPoints, PanelInv,
       TypeInv, TypeOK, ThreadType
  <2>2. UNCHANGED <<phase, signal, encoding, expected, reason, active>>
    BY <1>2 DEF SendProbe, SendStart, AwaitOver, AwaitFails, TelemetryEnds, Moves
  <2> QED  BY <1>1, <2>1, <2>2
<1>3. CASE Decide(r)
  <2>1. pc[r] = "decide" /\ pc'[r] \notin StopPoints /\ pc[r] \notin StopPoints
    BY <1>0, <1>3 DEF Decide, GoTo, StopPoints, PanelInv, TypeInv, TypeOK, ThreadType
  <2>2. UNCHANGED <<signal, encoding, expected, reason, active>>
    BY <1>3 DEF Decide
  <2>3. CASE phase' = phase
    BY <1>1, <2>1, <2>2, <2>3
  <2>4. CASE phase' = "starting" /\ r = run /\ ~cancel[r]
    <3>1. ~expected[run] /\ ~exited[run]
      BY <2>1, <2>4 DEF PanelInv, MarkInv, EndInv, Collected
    <3>2. \A t \in Callers : target[t] # 0 => target[t] # run
      BY <2>4 DEF PanelInv, MarkInv
    <3> QED  BY <1>0, <2>1, <2>2, <2>4, <3>1, <3>2 DEF PanelInv, PhaseInv, ActiveIsTrue, StopsAreShown,
                FinishIsTrue, EncodingHasStarted, IdleIsOver, StopPoints
  <2> QED  BY <1>3, <2>3, <2>4 DEF Decide
<1>4. CASE FinishBegin(r) /\ (r # run \/ cancel[r])
  <2>1. UNCHANGED <<phase, signal, encoding, expected, reason, active>>
    BY <1>4 DEF FinishBegin
  <2>2. pc'[r] = "done" /\ pc[r] \notin StopPoints
    BY <1>0, <1>4 DEF FinishBegin, GoTo, FinishPoints, StopPoints, PanelInv, TypeInv, TypeOK, ThreadType
  <2> QED  BY <1>1, <2>1, <2>2 DEF StopPoints
<1>5. CASE FinishBegin(r) /\ ~(r # run \/ cancel[r])
  <2>1. /\ phase' = "stopping" /\ r = run /\ UNCHANGED <<encoding, outcome>>
        /\ reason'[run] = outcome[run]
    BY <1>5 DEF FinishBegin, PanelInv, TypeInv, TypeOK, RunType
  <2> QED  BY <1>0, <2>1 DEF PanelInv, PhaseInv, ActiveIsTrue, StopsAreShown, FinishIsTrue,
              EncodingHasStarted, IdleIsOver, ActivePhases
<1>6. CASE FinishEnd(r) /\ Settles(r)
  <2>1. /\ r = run /\ phase' \in {"idle", "error"} /\ ~encoding' /\ UNCHANGED <<expected, active>>
        /\ pc'[run] = "done" /\ pc[run] = "settle"
    BY <1>0, <1>6 DEF FinishEnd, Settles, GoTo, PanelInv, TypeInv, TypeOK, ThreadType
  <2>2. cancel[run] /\ expected[run]
    BY <2>1 DEF PanelInv, MarkInv, StopPoints
  <2>3. \A s \in Sessions : ~active[s]
    BY <2>2 DEF PanelInv, SessionInv, ActiveOwnsRun
  <2> QED  BY <1>0, <2>1, <2>2, <2>3 DEF PhaseInv, ActiveIsTrue, StopsAreShown, FinishIsTrue,
              EncodingHasStarted, IdleIsOver, ActivePhases, StopPoints
<1>7. CASE FinishEnd(r) /\ ~Settles(r)
  <2>1. /\ UNCHANGED <<phase, signal, encoding, expected, reason, active>>
        /\ pc'[r] = "done" /\ pc[r] = "settle"
    BY <1>0, <1>7 DEF FinishEnd, GoTo, PanelInv, TypeInv, TypeOK, ThreadType
  <2>2. r = run => phase \notin ActivePhases
    BY <1>0, <1>7, <2>1 DEF Settles, PanelInv, PhaseInv, FinishIsTrue, StopPoints
  <2> QED  BY <1>1, <2>1, <2>2 DEF StopPoints
<1> QED  BY <1>2, <1>3, <1>4, <1>5, <1>6, <1>7 DEF Configuring

\* _terminate moves nobody but the thread that runs it, and only the configure
\* thread of the run terminates it while the phase is active.
LEMMA TerminatePhase ==
    ASSUME PanelInv, NEW t \in Threads, TerminateBegin(t) \/ ProcessGone(t) \/ Escalate(t)
    PROVE  PhaseInv'
<1>0. /\ UNCHANGED <<run, exited, started, reason, active, outcome, signal, encoding, phase, pipe, proc,
                     target, expected>>
      /\ Target(t) \in Runs
      /\ \A r \in Runs : cancel[r] => cancel'[r]
      /\ run # 0 => run \in Runs
  <2>1. Target(t) \in Runs /\ expected[Target(t)]
    BY DEF TerminateBegin, ProcessGone, Escalate, PanelInv, EndInv, StopIsExpected, HoldsStopLock
  <2>2. expected' = expected /\ \A r \in Runs : cancel[r] => cancel'[r]
    <3>1. CASE TerminateBegin(t)
      BY <2>1, <3>1 DEF TerminateBegin, PanelInv, TypeInv, TypeOK, RunType
    <3> QED  BY <3>1 DEF ProcessGone, Escalate
  <2> QED  BY <2>1, <2>2, RunInRange DEF TerminateBegin, ProcessGone, Escalate, Terminating, GoTo, PanelInv
<1>1. PICK p \in {"wait_quit", "settle", "wait_term", "wait_kill", "idle", "done"} :
        /\ pc' = [pc EXCEPT ![t] = p] /\ pc[t] \in StopPoints
        /\ p \in {"idle", "done"} => pc[t] = "wait_kill" /\ asked' = asked
        /\ p = "wait_kill" => asked' = [asked EXCEPT ![Target(t)] = "kill"]
  BY DEF TerminateBegin, ProcessGone, Escalate, GoTo, Rest, StopPoints
<1>2. \A r \in Runs : r # Target(t) => asked'[r] = asked[r]
  <2>1. asked' = asked \/ \E a : asked' = [asked EXCEPT ![Target(t)] = a]
    BY DEF TerminateBegin, ProcessGone, Escalate
  <2> QED  BY <2>1 DEF PanelInv, TypeInv, TypeOK, ProcType
<1>3. CASE Target(t) # run
  <2>1. run # 0 => pc'[run] = pc[run] /\ asked'[run] = asked[run]
    BY <1>0, <1>1, <1>2, <1>3 DEF Target, PanelInv, TypeInv, TypeOK, ThreadType
  <2> QED  BY <1>0, <2>1, PhaseFrame DEF PanelInv, PhaseInv, ActiveIsTrue, NothingMoves, Over
<1>4. CASE t \notin Runs /\ target[t] = run /\ run # 0
  <2>1. phase \notin ActivePhases
    BY <1>4 DEF Threads, PanelInv, PhaseInv, StopsAreShown
  <2>2. pc'[run] = pc[run]
    BY <1>0, <1>1, <1>4 DEF PanelInv, TypeInv, TypeOK, ThreadType
  <2> QED  BY <1>0, <2>1, <2>2, PhaseFrame DEF NothingMoves, Over
<1>5. CASE t = run /\ run \in Runs
  <2>1. pc'[run] = p /\ pc[run] \in StopPoints /\ (p = "wait_kill" => asked'[run] = "kill")
    BY <1>1, <1>5 DEF Target, PanelInv, TypeInv, TypeOK, ThreadType, ProcType
  <2>2. phase \in ActivePhases /\ p \in {"idle", "done"} => asked'[run] = "kill"
    BY <1>1, <1>5 DEF PanelInv, PhaseInv, ActiveIsTrue
  <2>3. NothingMoves(run) => NothingMoves(run)'
    BY <1>0 DEF NothingMoves, Over
  <2>4. p \in StopPoints \/ p \in {"idle", "done"}
    BY DEF StopPoints
  <2> QED  BY <1>0, <2>1, <2>2, <2>3, <2>4, PhaseFrame
<1> QED  BY <1>0, <1>3, <1>4, <1>5 DEF Target, Runs

LEMMA StopEndPhase ==
    ASSUME PanelInv, NEW t \in Threads, StopEnd(t)
    PROVE  PhaseInv'
<1>0. /\ UNCHANGED <<run, exited, started, reason, active, outcome, pipe, proc, cancel, expected, asked>>
      /\ \A r \in Runs : pc'[r] = pc[r]
      /\ \A x \in Callers : target'[x] \in {0, target[x]}
      /\ run # 0 => run \in Runs
  BY CallersAreNotRuns, RunInRange DEF StopEnd, PanelInv, TypeInv, TypeOK, ThreadType
<1>1. CASE target[t] = run
  <2>1. phase' = "idle" /\ encoding' = FALSE
    BY <1>1 DEF StopEnd
  <2>2. run # 0 => cancel[run] /\ expected[run] /\ reason[run] # outcome[run]
    BY <1>0, <1>1 DEF StopEnd, PanelInv, MarkInv
  <2>3. \A s \in Sessions : ~active[s]
    BY <2>2 DEF PanelInv, SessionInv, ActiveOwnsRun
  <2> QED  BY <1>0, <2>1, <2>2, <2>3 DEF PhaseInv, ActiveIsTrue, StopsAreShown, FinishIsTrue,
              EncodingHasStarted, IdleIsOver, ActivePhases
<1>2. CASE target[t] # run
  <2>1. UNCHANGED <<phase, signal, encoding>>
    BY <1>2 DEF StopEnd
  <2> QED  BY <1>0, <2>1, PhaseFrame DEF PanelInv, PhaseInv, ActiveIsTrue, NothingMoves, Over
<1> QED  BY <1>1, <1>2

LEMMA ProcessPhase ==
    ASSUME PanelInv, NEW r \in Runs, NEW l \in Lines, Emit(r, l) \/ ProcessExit(r)
    PROVE  PhaseInv'
<1>1. UNCHANGED <<panelVars, run, session, sessions, sessionVars, runVars, asked, threadVars>>
  BY DEF Emit, ProcessExit, Environment
<1>2. \A q \in Runs : NothingMoves(q) => NothingMoves(q)'
  <2> SUFFICES ASSUME NEW q \in Runs, NothingMoves(q) PROVE NothingMoves(q)'
    OBVIOUS
  <2>1. CASE proc'[q] = proc[q] /\ pipe'[q] = pipe[q]
    BY <2>1 DEF NothingMoves, Over
  <2>2. CASE q = r /\ ProcessExit(r)
    BY <2>2 DEF ProcessExit, NothingMoves, Over, PanelInv, TypeInv, TypeOK, ProcType
  <2>3. CASE q = r /\ Emit(r, l)
    <3>1. /\ AfterLine(proc[r], l) # "none" /\ proc'[r] = AfterLine(proc[r], l)
          /\ pipe'[r] = Append(pipe[r], l) /\ pipe[r] \in Seq(Lines)
      BY <2>3 DEF Emit, PanelInv, TypeInv, TypeOK, ProcType
    <3>2. l \notin Moving /\ proc'[r] = "encoding_over"
      BY <2>3, <3>1 DEF AfterLine, NothingMoves, Over, Moving
    <3> QED  BY <2>3, <3>1, <3>2, PrintsOn DEF NothingMoves, Over
  <2> QED  BY <2>1, <2>2, <2>3 DEF Emit, ProcessExit, PanelInv, TypeInv, TypeOK, ProcType
<1> QED  BY <1>1, <1>2, PhaseFrame, RunInRange DEF PanelInv, PhaseInv, ActiveIsTrue

\* A line that is heeded belongs to a run that nobody but _finish has begun to
\* end, that is not collected, and whose panel is not at rest.
LEMMA HeededFacts ==
    ASSUME PanelInv, NEW r \in Runs, Heeded(r), ~exited[r]
    PROVE  /\ r = run /\ run # 0 /\ ~cancel[run] /\ ~exited[run] /\ phase # "idle"
           /\ expected[run] => pc[run] = "stop_lock"
           /\ pc[run] # "wait_kill"
           /\ \A t \in Callers : target[t] # 0 => target[t] # run
BY DEF Heeded, PanelInv, MarkInv, PhaseInv, IdleIsOver, Runs, StopPoints

LEMMA LinePhase ==
    ASSUME PanelInv, NEW r \in Runs, LineReady(r) \/ LineStarted(r) \/ LineSignal(r) \/ LineChanged(r)
    PROVE  PhaseInv'
<1>0. /\ UNCHANGED <<run, exited, cancel, expected, pc, outcome, target, proc, asked>>
      /\ ~exited[r] /\ pipe[r] # <<>> /\ pipe[r] \in Seq(Lines) /\ pipe'[r] = Tail(pipe[r])
      /\ \A q \in Runs : q # r => pipe'[q] = pipe[q]
      /\ \A q \in Runs : started[q] => started'[q]
      /\ \A s \in Sessions : active'[s] => active[s]
      /\ run # 0 => run \in Runs
  BY RunInRange DEF LineReady, LineStarted, LineSignal, LineChanged, NextLine, CancelSession, PanelInv,
     TypeInv, TypeOK, ProcType, RunType
<1>1. \A q \in Runs : NothingMoves(q) => NothingMoves(q)'
  BY <1>0, ReadsOn DEF NothingMoves, Over
<1>2. CASE UNCHANGED <<phase, signal, encoding, reason>>
  BY <1>0, <1>1, <1>2, PhaseFrame DEF PanelInv, PhaseInv, ActiveIsTrue
<1>3. CASE LineStarted(r) /\ Heeded(r) /\ startSent[r]
  <2>1. /\ UNCHANGED <<signal, active, reason>> /\ started'[r] /\ encoding'
        /\ signal = "stopped" => phase' = phase
        /\ phase' # "idle" \/ phase' = phase
    BY <1>3 DEF LineStarted, PanelInv, TypeInv, TypeOK, RunType
  <2> QED  BY <1>0, <1>1, <1>3, <2>1, HeededFacts DEF PanelInv, PhaseInv, ActiveIsTrue, StopsAreShown,
              FinishIsTrue, EncodingHasStarted, IdleIsOver, LateLine, StopPoints
<1>4. CASE LineSignal(r) /\ Heeded(r)
  <2>1. /\ UNCHANGED <<encoding, active, reason, started>>
        /\ phase' = phase \/ (encoding /\ phase' # "idle")
        /\ Head(pipe[r]) \in Moving
    BY <1>4 DEF LineSignal, NextLine, Moving
  <2>2. ~NothingMoves(r)
    BY <1>0, <2>1 DEF NothingMoves, Calm
  <2> QED  BY <1>0, <1>4, <2>1, <2>2, HeededFacts DEF PanelInv, PhaseInv, ActiveIsTrue, StopsAreShown,
              FinishIsTrue, EncodingHasStarted, IdleIsOver, LateLine, StopPoints
<1>5. CASE LineChanged(r) /\ Heeded(r)
  <2>1. /\ UNCHANGED <<encoding, started>> /\ phase' = "error" /\ signal' = "stopped"
        /\ reason'[r] = "unsupported_input" /\ Head(pipe[r]) = "changed"
    BY <1>5 DEF LineChanged, NextLine, PanelInv, TypeInv, TypeOK, RunType
  <2>2. NothingMoves(r)'
    <3>1. ~NoChange(pipe[r])
      BY <1>0, <2>1 DEF NoChange
    <3> QED  BY <1>0, <2>1, <3>1, ReadsOn DEF PanelInv, LinesInOrder, NothingMoves, Over
  <2> QED  BY <1>0, <1>5, <2>1, <2>2, HeededFacts DEF PanelInv, PhaseInv, ActiveIsTrue, StopsAreShown,
              FinishIsTrue, EncodingHasStarted, IdleIsOver, LateLine, ActivePhases
<1> QED  BY <1>2, <1>3, <1>4, <1>5 DEF LineReady, LineStarted, LineSignal, LineChanged

LEMMA CollectExitPhase ==
    ASSUME PanelInv, NEW r \in Runs, CollectExit(r)
    PROVE  PhaseInv'
<1>0. /\ UNCHANGED <<run, expected, reason, started, pc, outcome, target, proc, pipe, asked>>
      /\ exited' = [exited EXCEPT ![r] = TRUE] /\ cancel' = [cancel EXCEPT ![r] = TRUE] /\ ~exited[r]
      /\ proc[r] \in {"crashed", "ended"}
  BY DEF CollectExit
<1>1. r = run
  BY <1>0 DEF PanelInv, EncoderInv, RunsInv, Unborn, Superseded, TypeInv, TypeOK, PanelType, Runs
<1>2. encoding' = FALSE /\ cancel'[run] /\ run # 0 /\ run \in Runs
  BY <1>0, <1>1 DEF CollectExit, PanelInv, TypeInv, TypeOK, RunType, Runs
<1>3. CASE expected[r]
  <2>1. UNCHANGED <<phase, signal, active>>
    BY <1>1, <1>3 DEF CollectExit
  <2> QED  BY <1>0, <1>1, <1>2, <1>3, <2>1 DEF PanelInv, PhaseInv, ActiveIsTrue, StopsAreShown,
              FinishIsTrue, EncodingHasStarted, IdleIsOver, LateLine
<1>4. CASE ~expected[r]
  <2>1. phase' \in {"restart_wait", "error"} /\ pc[run] \notin StopPoints
    BY <1>1, <1>2, <1>4 DEF CollectExit, ScheduleRestart, PanelInv, MarkInv
  <2> QED  BY <1>0, <1>2, <2>1 DEF PhaseInv, ActiveIsTrue, StopsAreShown, FinishIsTrue,
              EncodingHasStarted, IdleIsOver, ActivePhases
<1> QED  BY <1>3, <1>4

LEMMA NextPhase == PanelInv /\ [Next]_vars => PhaseInv'
<1> SUFFICES ASSUME PanelInv, [Next]_vars PROVE PhaseInv'
  OBVIOUS
<1>1. CASE Requests
  BY <1>1, RequestPhase
<1>2. ASSUME NEW s \in Sessions, Retrying(s) PROVE PhaseInv'
  BY <1>2, RetryingPhase
<1>3. ASSUME NEW r \in Runs, Configuring(r) PROVE PhaseInv'
  BY <1>3, ConfiguringPhase
<1>4. ASSUME NEW r \in Runs, Collecting(r) PROVE PhaseInv'
  BY <1>4, LinePhase, CollectExitPhase DEF Collecting
<1>5. ASSUME NEW r \in Runs, ProcessExit(r) PROVE PhaseInv'
  BY <1>5, ProcessPhase DEF Lines
<1>6. ASSUME NEW r \in Runs, NEW l \in Lines, Emit(r, l) PROVE PhaseInv'
  BY <1>6, ProcessPhase
<1>7. ASSUME NEW t \in Threads, Stopping(t) PROVE PhaseInv'
  BY <1>7, TerminatePhase, StopEndPhase DEF Stopping
<1>8. CASE UNCHANGED vars
  BY <1>8, QuietPhase DEF vars
<1> QED  BY <1>1, <1>2, <1>3, <1>4, <1>5, <1>6, <1>7, <1>8 DEF Next

LEMMA PhaseInvariant == Spec => []PanelInv
<1>1. Init => LinesInOrder /\ MarkInv /\ PhaseInv
  BY InitLines, InitMarks, InitPhase
<1>2. /\ TypeInv /\ EncoderInv /\ EndInv /\ SessionInv
      /\ LinesInOrder /\ MarkInv /\ PhaseInv /\ [Next]_vars
      => (LinesInOrder /\ MarkInv /\ PhaseInv)'
  BY NextLines, NextMarks, NextPhase DEF PanelInv
<1>3. TypeInv /\ EncoderInv /\ EndInv /\ SessionInv /\ LinesInOrder /\ MarkInv /\ PhaseInv => PanelInv
  BY DEF PanelInv
<1> QED  BY AllInvariants, <1>1, <1>2, <1>3, PTL DEF Spec

\* "probing", "starting", "running" and "reconnecting" are shown over a run that
\* is not collected, or that _finish is about to settle or could not kill.
THEOREM ActivePhasesAreTrue == Spec => []ActivePhaseHasRun
<1>1. PanelInv => ActivePhaseHasRun
  BY DEF PanelInv, PhaseInv, ActiveIsTrue, ActivePhases, ActivePhaseHasRun
<1> QED  BY PhaseInvariant, <1>1, PTL

\* A panel at rest leaves "idle" only when asked to, or when _finish settles a
\* run whose late line had let a save in.
THEOREM IdleIsLeftWhenAsked == Spec => IdleIsStable
<1> DEFINE Asked == \/ \E auto \in BOOLEAN, k \in Keys : Start(auto, k)
                    \/ \E k \in Keys : Probe(k)
                    \/ \E t \in Callers : StopBegin(t)
                    \/ \E r \in Runs : FinishEnd(r) /\ LateLine(r)
<1>1. PanelInv /\ [Next]_vars => [phase = "idle" /\ phase' # "idle" => Asked]_vars
  <2> SUFFICES ASSUME PanelInv, [Next]_vars, phase = "idle", ~Asked PROVE phase' = "idle"
    OBVIOUS
  <2>0. /\ \A s \in Sessions : ~active[s]
        /\ run # 0 => run \in Runs /\ cancel[run] /\ (expected[run] \/ exited[run])
    BY RunInRange DEF PanelInv, PhaseInv, IdleIsOver
  <2>1. CASE SaveConfig \/ StartPreview \/ StopPreview \/ (\E t \in Callers : Close(t))
    BY <2>1 DEF SaveConfig, StartPreview, StopPreview, Close
  <2>2. ASSUME NEW s \in Sessions, Retrying(s) PROVE phase' = "idle"
    BY <2>0, <2>2 DEF Retrying, TimerFires, TimerCancelled, Restart, MayRestart
  <2>3. ASSUME NEW r \in Runs, Configuring(r) PROVE phase' = "idle"
    <3>1. CASE ~FinishEnd(r)
      <4>1. r # run \/ cancel[r]
        BY <2>0 DEF Runs
      <4>2. CASE Decide(r)
        BY <4>1, <4>2 DEF Decide
      <4>3. CASE FinishBegin(r)
        BY <4>1, <4>3 DEF FinishBegin
      <4> QED  BY <2>3, <3>1, <4>2, <4>3 DEF Configuring, SendProbe, SendStart, AwaitOver, AwaitFails,
                  TelemetryEnds, Moves
    <3>2. CASE FinishEnd(r)
      <4>1. Settles(r) => LateLine(r)
        BY <3>2 DEF FinishEnd, Settles, PanelInv, PhaseInv, FinishIsTrue, Runs, StopPoints
      <4> QED  BY <3>2, <4>1 DEF FinishEnd
    <3> QED  BY <3>1, <3>2
  <2>4. ASSUME NEW r \in Runs, Collecting(r) PROVE phase' = "idle"
    <3>1. ~Heeded(r)
      BY <2>0 DEF Heeded, Runs
    <3>2. CollectExit(r) /\ r = run => expected[r]
      BY <2>0 DEF CollectExit, Runs
    <3> QED  BY <2>4, <3>1, <3>2 DEF Collecting, LineReady, LineStarted, LineSignal, LineChanged, CollectExit
  <2>5. ASSUME NEW t \in Threads, Stopping(t) PROVE phase' = "idle"
    BY <2>5 DEF Stopping, TerminateBegin, ProcessGone, Escalate, StopEnd, Terminating
  <2>6. ASSUME NEW r \in Runs, ProcessExit(r) \/ \E l \in Lines : Emit(r, l) PROVE phase' = "idle"
    BY <2>6 DEF ProcessExit, Emit, Environment
  <2>7. CASE UNCHANGED vars
    BY <2>7 DEF vars
  <2> QED  BY <2>1, <2>2, <2>3, <2>4, <2>5, <2>6, <2>7 DEF Next, Requests
<1> QED  BY PhaseInvariant, <1>1, PTL DEF Spec, IdleIsStable
=============================================================================
