---------------------------- MODULE PanelProofs ----------------------------
(***************************************************************************)
(* Proofs about Panel for any number of runs, sessions, attempts, threads  *)
(* and any length of the encoder's output: the types, and what may be      *)
(* launched when.                                                          *)
(***************************************************************************)
EXTENDS Panel, TLAPS

\* A pending restart has an attempt left to spend (Panel._schedule_restart).
TimerHasAttempt == \A s \in Sessions : timer[s] # "none" => attempts[s] < MaxAttempts

TypeInv == TypeOK /\ TimerHasAttempt

USE DEF panelVars, sessionVars, runVars, procVars, threadVars

LEMMA InitType == Init => TypeInv
<1> SUFFICES ASSUME Init PROVE TypeInv
  OBVIOUS
<1>0. FlagType
  BY DEF Init, FlagType
<1>1. PanelType
  BY BoundsAssumption DEF Init, PanelType, Phases, Signals
<1>2. SessionType
  BY BoundsAssumption DEF Init, SessionType
<1>3. RunType
  BY BoundsAssumption DEF Init, RunType, Reasons
<1>4. ProcType
  BY DEF Init, ProcType, ProcStates
<1>5. ThreadType
  BY BoundsAssumption DEF Init, ThreadType, Points, Reasons
<1>6. TimerHasAttempt
  BY DEF Init, TimerHasAttempt
<1> QED  BY <1>0, <1>1, <1>2, <1>3, <1>4, <1>5, <1>6 DEF TypeInv, TypeOK

LEMMA StartType ==
    ASSUME TypeInv, NEW auto \in BOOLEAN, NEW k \in Keys, Start(auto, k)
    PROVE  TypeInv'
<1>0. FlagType'
  BY DEF TypeInv, TypeOK, FlagType, Start, NewSession, Launch, LaunchFails
<1>1. PanelType'
  BY BoundsAssumption DEF TypeInv, TypeOK, PanelType, Start, NewSession, Launch, LaunchFails, Runs, Sessions,
     Phases, Signals
<1>2. SessionType'
  <2>1. k \in BOOLEAN
    BY ChoiceAssumption
  <2>2. enabled' \in [Sessions -> BOOLEAN] /\ active' \in [Sessions -> BOOLEAN]
    BY DEF TypeInv, TypeOK, SessionType, Start, NewSession
  <2>3. key' \in [Sessions -> BOOLEAN]
    BY <2>1 DEF TypeInv, TypeOK, SessionType, Start, NewSession
  <2>4. profile' \in [Sessions -> 0..MaxRevision]
    BY DEF TypeInv, TypeOK, PanelType, SessionType, Start, NewSession
  <2> QED  BY <2>2, <2>3, <2>4 DEF TypeInv, TypeOK, SessionType, Start, NewSession
<1>3. TimerHasAttempt'
  BY DEF TypeInv, TimerHasAttempt, Start, NewSession
<1>4. RunType'
  BY BoundsAssumption, ChoiceAssumption DEF TypeInv, TypeOK, PanelType, RunType, Start, NewSession, Launch, LaunchFails, Sessions
<1>5. ProcType'
  BY DEF TypeInv, TypeOK, ProcType, Start, NewSession, Launch, LaunchFails, ProcStates, LiveStates
<1>6. ThreadType'
  BY DEF TypeInv, TypeOK, ThreadType, Start, NewSession, Launch, LaunchFails, Points
<1> QED  BY <1>0, <1>1, <1>2, <1>3, <1>4, <1>5, <1>6 DEF TypeInv, TypeOK

LEMMA ProbeType ==
    ASSUME TypeInv, NEW k \in Keys, Probe(k)
    PROVE  TypeInv'
<1>0. FlagType'
  BY DEF TypeInv, TypeOK, FlagType, Probe, Launch, LaunchFails
<1>1. PanelType'
  BY BoundsAssumption DEF TypeInv, TypeOK, PanelType, Probe, Launch, LaunchFails, Runs, Phases, Signals
<1>2. SessionType' /\ TimerHasAttempt'
  BY DEF TypeInv, TypeOK, SessionType, TimerHasAttempt, Probe
<1>4. RunType'
  BY BoundsAssumption, ChoiceAssumption DEF TypeInv, TypeOK, PanelType, RunType, Probe, Launch, LaunchFails
<1>5. ProcType'
  BY DEF TypeInv, TypeOK, ProcType, Probe, Launch, LaunchFails, ProcStates, LiveStates
<1>6. ThreadType'
  BY DEF TypeInv, TypeOK, ThreadType, Probe, Launch, LaunchFails, Points
<1> QED  BY <1>0, <1>1, <1>2, <1>4, <1>5, <1>6 DEF TypeInv, TypeOK

LEMMA SaveConfigType == ASSUME TypeInv, SaveConfig PROVE TypeInv'
<1>1. FlagType' /\ SessionType' /\ RunType' /\ ProcType' /\ ThreadType' /\ TimerHasAttempt'
  BY DEF TypeInv, TypeOK, FlagType, SessionType, RunType, ProcType, ThreadType, TimerHasAttempt, SaveConfig
<1>2. PanelType'
  BY BoundsAssumption DEF TypeInv, TypeOK, PanelType, SaveConfig, Phases, Signals
<1> QED  BY <1>1, <1>2 DEF TypeInv, TypeOK

LEMMA PreviewType == ASSUME TypeInv, StartPreview \/ StopPreview PROVE TypeInv'
<1>1. FlagType'
  BY DEF TypeInv, TypeOK, FlagType, StartPreview, StopPreview
<1>2. PanelType' /\ SessionType' /\ RunType' /\ ProcType' /\ ThreadType' /\ TimerHasAttempt'
  BY DEF TypeInv, TypeOK, PanelType, SessionType, RunType, ProcType, ThreadType, TimerHasAttempt,
         StartPreview, StopPreview
<1> QED  BY <1>1, <1>2 DEF TypeInv, TypeOK

LEMMA CloseType == ASSUME TypeInv, NEW t \in Callers, Close(t) PROVE TypeInv'
<1>1. FlagType'
  BY DEF TypeInv, TypeOK, FlagType, Close
<1>2. PanelType' /\ SessionType' /\ RunType' /\ ProcType' /\ TimerHasAttempt'
  BY DEF TypeInv, TypeOK, PanelType, SessionType, RunType, ProcType, TimerHasAttempt, Close
<1>3. ThreadType'
  BY DEF TypeInv, TypeOK, ThreadType, Close, Points
<1> QED  BY <1>1, <1>2, <1>3 DEF TypeInv, TypeOK

LEMMA CancelSessionType ==
    ASSUME TypeInv, CancelSession
    PROVE  active' \in [Sessions -> BOOLEAN] /\ key' \in [Sessions -> BOOLEAN]
BY DEF TypeInv, TypeOK, SessionType, CancelSession

LEMMA StopBeginType == ASSUME TypeInv, NEW t \in Callers, StopBegin(t) PROVE TypeInv'
<1>0. FlagType'
  BY DEF TypeInv, TypeOK, FlagType, StopBegin
<1>1. PanelType'
  BY DEF TypeInv, TypeOK, PanelType, StopBegin, Phases, Signals
<1>2. SessionType' /\ TimerHasAttempt'
  BY CancelSessionType DEF TypeInv, TypeOK, SessionType, TimerHasAttempt, StopBegin
<1>4. RunType'
  <2>1. reason' \in [Runs -> Reasons]
    BY DEF TypeInv, TypeOK, RunType, StopBegin, StopReason, Reasons
  <2> QED  BY <2>1 DEF TypeInv, TypeOK, RunType, StopBegin
<1>5. ProcType'
  BY DEF TypeInv, TypeOK, ProcType, StopBegin
<1>6. ThreadType'
  BY DEF TypeInv, TypeOK, PanelType, ThreadType, StopBegin, Rest, Points, StopPoints
<1> QED  BY <1>0, <1>1, <1>2, <1>4, <1>5, <1>6 DEF TypeInv, TypeOK

LEMMA StopEndType == ASSUME TypeInv, NEW t \in Threads, StopEnd(t) PROVE TypeInv'
<1>0. FlagType'
  BY DEF TypeInv, TypeOK, FlagType, StopEnd
<1>1. PanelType'
  BY DEF TypeInv, TypeOK, PanelType, StopEnd, Phases, Signals
<1>2. SessionType' /\ RunType' /\ ProcType' /\ TimerHasAttempt'
  BY DEF TypeInv, TypeOK, SessionType, RunType, ProcType, TimerHasAttempt, StopEnd
<1>6. ThreadType'
  BY BoundsAssumption DEF TypeInv, TypeOK, PanelType, ThreadType, StopEnd, Rest, Points
<1> QED  BY <1>0, <1>1, <1>2, <1>6 DEF TypeInv, TypeOK

LEMMA TimerType ==
    ASSUME TypeInv, NEW s \in Sessions, TimerFires(s) \/ TimerCancelled(s)
    PROVE  TypeInv'
<1>1. FlagType' /\ PanelType' /\ RunType' /\ ProcType' /\ ThreadType'
  BY DEF TypeInv, TypeOK, FlagType, PanelType, RunType, ProcType, ThreadType, TimerFires, TimerCancelled
<1>2. SessionType' /\ TimerHasAttempt'
  BY DEF TypeInv, TypeOK, SessionType, TimerHasAttempt, TimerFires, TimerCancelled
<1> QED  BY <1>1, <1>2 DEF TypeInv, TypeOK

\* What _schedule_restart leaves behind when n attempts have been made.
LEMMA ScheduleRestartType ==
    ASSUME TypeInv, NEW n \in 0..MaxAttempts, ScheduleRestart(n)
    PROVE  /\ phase' \in Phases
           /\ active' \in [Sessions -> BOOLEAN] /\ key' \in [Sessions -> BOOLEAN]
           /\ exhausted' \in [Sessions -> BOOLEAN]
           /\ timer' \in [Sessions -> {"none", "waiting", "fired"}]
           /\ \A s \in Sessions : timer'[s] # "none" =>
                 \/ timer[s] # "none" /\ ~(s = session /\ timer[s] = "fired")
                 \/ s = session /\ n < MaxAttempts
<1>1. CASE CanRetry /\ n < MaxAttempts
  BY <1>1 DEF TypeInv, TypeOK, PanelType, SessionType, ScheduleRestart, Phases
<1>2. CASE ~(CanRetry /\ n < MaxAttempts)
  <2>1. phase' \in Phases /\ timer' \in [Sessions -> {"none", "waiting", "fired"}]
    BY <1>2 DEF TypeInv, TypeOK, PanelType, SessionType, ScheduleRestart, Phases
  <2>2. exhausted' \in [Sessions -> BOOLEAN]
    BY <1>2 DEF TypeInv, TypeOK, SessionType, ScheduleRestart
  <2>3. active' \in [Sessions -> BOOLEAN] /\ key' \in [Sessions -> BOOLEAN]
    BY <1>2, CancelSessionType DEF ScheduleRestart
  <2>4. \A s \in Sessions : timer'[s] # "none" => timer[s] # "none" /\ ~(s = session /\ timer[s] = "fired")
    BY <1>2 DEF TypeInv, TypeOK, SessionType, ScheduleRestart
  <2> QED  BY <2>1, <2>2, <2>3, <2>4
<1> QED  BY <1>1, <1>2

LEMMA RestartType == ASSUME TypeInv, NEW s \in Sessions, Restart(s) PROVE TypeInv'
<1>1. CASE ~MayRestart(s)
  <2>1. FlagType' /\ PanelType' /\ RunType' /\ ProcType' /\ ThreadType'
    BY <1>1 DEF TypeInv, TypeOK, FlagType, PanelType, RunType, ProcType, ThreadType, Restart
  <2>2. SessionType' /\ TimerHasAttempt'
    BY <1>1 DEF TypeInv, TypeOK, SessionType, TimerHasAttempt, Restart
  <2> QED  BY <2>1, <2>2 DEF TypeInv, TypeOK
<1>2. CASE MayRestart(s)
  <2>0. /\ attempts[s] + 1 \in 0..MaxAttempts
        /\ attempts' = [attempts EXCEPT ![s] = @ + 1] /\ attempts' \in [Sessions -> 0..MaxAttempts]
        /\ UNCHANGED <<session, sessions, armed, enabled, profile>>
    BY <1>2, BoundsAssumption DEF TypeInv, TypeOK, SessionType, TimerHasAttempt, Restart
  <2>1. CASE /\ Launch(s, key[s], profile[s]) /\ timer' = [timer EXCEPT ![s] = "none"]
             /\ UNCHANGED <<active, key, exhausted>>
    <3>0. FlagType'
      BY <2>1 DEF TypeInv, TypeOK, FlagType, Launch
    <3>1. PanelType'
      BY <2>0, <2>1, BoundsAssumption DEF TypeInv, TypeOK, PanelType, Launch, Runs, Phases, Signals
    <3>2. SessionType' /\ TimerHasAttempt'
      BY <2>0, <2>1 DEF TypeInv, TypeOK, SessionType, TimerHasAttempt
    <3>4. RunType'
      <4>1. s \in 0..MaxSessions /\ key[s] \in BOOLEAN /\ profile[s] \in 0..MaxRevision
        BY BoundsAssumption DEF TypeInv, TypeOK, SessionType, Sessions
      <4> QED  BY <2>1, <4>1 DEF TypeInv, TypeOK, RunType, Launch
    <3>5. ProcType'
      BY <2>1 DEF TypeInv, TypeOK, ProcType, Launch, ProcStates, LiveStates
    <3>6. ThreadType'
      BY <2>1 DEF TypeInv, TypeOK, ThreadType, Launch, Points
    <3> QED  BY <3>0, <3>1, <3>2, <3>4, <3>5, <3>6 DEF TypeInv, TypeOK
  <2>2. CASE LaunchFails /\ ScheduleRestart(attempts[s] + 1)
    <3>0. FlagType' /\ RunType' /\ ProcType' /\ ThreadType'
      BY <2>2 DEF TypeInv, TypeOK, FlagType, RunType, ProcType, ThreadType, LaunchFails
    <3>1. PanelType'
      BY <2>0, <2>2, ScheduleRestartType DEF TypeInv, TypeOK, PanelType, LaunchFails
    <3>2. SessionType'
      BY <2>0, <2>2, ScheduleRestartType DEF TypeInv, TypeOK, SessionType
    <3>3. TimerHasAttempt'
      <4>1. s = session /\ timer[s] = "fired"
        BY <1>2 DEF MayRestart, Restart
      <4> QED  BY <2>0, <2>2, <4>1, ScheduleRestartType DEF TypeInv, TypeOK, SessionType, TimerHasAttempt
    <3> QED  BY <3>0, <3>1, <3>2, <3>3 DEF TypeInv, TypeOK
  <2> QED  BY <1>2, <2>1, <2>2 DEF Restart
<1> QED  BY <1>1, <1>2

LEMMA ConfiguringType == ASSUME TypeInv, NEW r \in Runs, Configuring(r) PROVE TypeInv'
<1>1. CASE SendProbe(r) \/ SendStart(r)
  <2>1. FlagType' /\ PanelType' /\ SessionType' /\ RunType' /\ TimerHasAttempt'
    BY <1>1 DEF TypeInv, TypeOK, FlagType, PanelType, SessionType, RunType, TimerHasAttempt,
       SendProbe, SendStart, Moves
  <2>2. ProcType'
    BY <1>1 DEF TypeInv, TypeOK, ProcType, SendProbe, SendStart, Moves, ProcStates, LiveStates
  <2>3. ThreadType'
    BY <1>1 DEF TypeInv, TypeOK, ThreadType, SendProbe, SendStart, Moves, GoTo, Points, FinishPoints,
       Reasons, Failures
  <2> QED  BY <2>1, <2>2, <2>3 DEF TypeInv, TypeOK
<1>2. CASE AwaitOver(r) \/ AwaitFails(r) \/ TelemetryEnds(r)
  <2>1. FlagType' /\ PanelType' /\ SessionType' /\ RunType' /\ ProcType' /\ TimerHasAttempt'
    BY <1>2 DEF TypeInv, TypeOK, FlagType, PanelType, SessionType, RunType, ProcType, TimerHasAttempt,
       AwaitOver, AwaitFails, TelemetryEnds, Moves
  <2>2. ThreadType'
    BY <1>2 DEF TypeInv, TypeOK, ThreadType, AwaitOver, AwaitFails, TelemetryEnds, Moves, GoTo, Points,
       FinishPoints, Reasons, Failures
  <2> QED  BY <2>1, <2>2 DEF TypeInv, TypeOK
<1>3. CASE Decide(r)
  <2>1. FlagType' /\ SessionType' /\ ProcType' /\ TimerHasAttempt'
    BY <1>3 DEF TypeInv, TypeOK, FlagType, SessionType, ProcType, TimerHasAttempt, Decide
  <2>2. PanelType' /\ RunType'
    BY <1>3 DEF TypeInv, TypeOK, PanelType, RunType, Decide, Phases
  <2>3. ThreadType'
    BY <1>3 DEF TypeInv, TypeOK, ThreadType, Decide, GoTo, Points, FinishPoints, Reasons, Failures
  <2> QED  BY <2>1, <2>2, <2>3 DEF TypeInv, TypeOK
<1>4. CASE FinishBegin(r)
  <2>1. FlagType' /\ ProcType' /\ TimerHasAttempt'
    BY <1>4 DEF TypeInv, TypeOK, FlagType, ProcType, TimerHasAttempt, FinishBegin
  <2>2. PanelType'
    BY <1>4 DEF TypeInv, TypeOK, PanelType, FinishBegin, Phases
  <2>5. RunType'
    BY <1>4 DEF TypeInv, TypeOK, RunType, ThreadType, FinishBegin
  <2>3. SessionType'
    BY <1>4, CancelSessionType DEF TypeInv, TypeOK, SessionType, FinishBegin
  <2>4. ThreadType'
    BY <1>4 DEF TypeInv, TypeOK, ThreadType, FinishBegin, GoTo, Points, StopPoints
  <2> QED  BY <2>1, <2>2, <2>3, <2>4, <2>5 DEF TypeInv, TypeOK
<1>5. CASE FinishEnd(r)
  <2>1. FlagType'
    BY <1>5 DEF TypeInv, TypeOK, FlagType, FinishEnd
  <2>2. SessionType' /\ RunType' /\ ProcType' /\ TimerHasAttempt'
    BY <1>5 DEF TypeInv, TypeOK, SessionType, RunType, ProcType, TimerHasAttempt, FinishEnd
  <2>3. PanelType'
    BY <1>5 DEF TypeInv, TypeOK, PanelType, FinishEnd, Phases, Signals
  <2>4. ThreadType'
    BY <1>5 DEF TypeInv, TypeOK, ThreadType, FinishEnd, GoTo, Points
  <2> QED  BY <2>1, <2>2, <2>3, <2>4 DEF TypeInv, TypeOK
<1> QED  BY <1>1, <1>2, <1>3, <1>4, <1>5 DEF Configuring

LEMMA StoppingType == ASSUME TypeInv, NEW t \in Threads, Stopping(t) PROVE TypeInv'
<1>1. CASE StopEnd(t)
  BY <1>1, StopEndType
<1>2. CASE TerminateBegin(t) \/ ProcessGone(t) \/ Escalate(t)
  <2>1. FlagType' /\ PanelType' /\ SessionType' /\ TimerHasAttempt'
    BY <1>2 DEF TypeInv, TypeOK, FlagType, PanelType, SessionType, TimerHasAttempt, TerminateBegin,
       ProcessGone, Escalate, Terminating
  <2>2. RunType'
    BY <1>2 DEF TypeInv, TypeOK, RunType, TerminateBegin, ProcessGone, Escalate, Terminating
  <2>3. ProcType'
    BY <1>2 DEF TypeInv, TypeOK, ProcType, TerminateBegin, ProcessGone, Escalate, Terminating
  <2>4. ThreadType'
    BY <1>2 DEF TypeInv, TypeOK, ThreadType, TerminateBegin, ProcessGone, Escalate, Terminating, GoTo,
       Rest, Points, StopPoints
  <2> QED  BY <2>1, <2>2, <2>3, <2>4 DEF TypeInv, TypeOK
<1> QED  BY <1>1, <1>2 DEF Stopping

LEMMA ProcessType ==
    ASSUME TypeInv, NEW r \in Runs, NEW l \in Lines, Emit(r, l) \/ ProcessExit(r)
    PROVE  TypeInv'
<1>1. FlagType' /\ PanelType' /\ SessionType' /\ RunType' /\ ThreadType' /\ TimerHasAttempt'
  BY DEF TypeInv, TypeOK, FlagType, PanelType, SessionType, RunType, ThreadType, TimerHasAttempt,
     Emit, ProcessExit, Environment
<1>2. proc' \in [Runs -> ProcStates] /\ asked' \in [Runs -> {"no", "quit", "term", "kill"}]
  BY DEF TypeInv, TypeOK, ProcType, Emit, ProcessExit, Environment, AfterLine, Alive, ProcStates, LiveStates
<1>3. pipe' \in [Runs -> Seq(Lines)]
  <2>1. CASE Emit(r, l)
    <3>1. Append(pipe[r], l) \in Seq(Lines)
      BY DEF TypeInv, TypeOK, ProcType
    <3> QED  BY <2>1, <3>1 DEF TypeInv, TypeOK, ProcType, Emit
  <2>2. CASE ProcessExit(r)
    BY <2>2 DEF TypeInv, TypeOK, ProcType, ProcessExit
  <2> QED  BY <2>1, <2>2
<1> QED  BY <1>1, <1>2, <1>3 DEF TypeInv, TypeOK, ProcType

\* Reading a line consumes it and touches nothing but what _line may set.
LEMMA NextLineType ==
    ASSUME TypeInv, NEW r \in Runs, NEW l \in Lines, NextLine(r, l)
    PROVE  ProcType' /\ ThreadType' /\ UNCHANGED <<closing, preview>>
<1>1. Tail(pipe[r]) \in Seq(Lines)
  BY DEF TypeInv, TypeOK, ProcType, NextLine
<1> QED  BY <1>1 DEF TypeInv, TypeOK, ProcType, ThreadType, NextLine

LEMMA LineType ==
    ASSUME TypeInv, NEW r \in Runs,
           LineReady(r) \/ LineStarted(r) \/ LineSignal(r) \/ LineChanged(r)
    PROVE  TypeInv'
<1>0. PICK l \in Lines : NextLine(r, l)
  BY DEF LineReady, LineStarted, LineSignal, LineChanged, Lines
<1>1. ProcType' /\ ThreadType'
  BY <1>0, NextLineType
<1>2. FlagType'
  BY <1>0, NextLineType DEF TypeInv, TypeOK, FlagType, LineReady, LineStarted, LineSignal, LineChanged
<1>3. PanelType'
  BY <1>0 DEF TypeInv, TypeOK, PanelType, NextLine, LineReady, LineStarted, LineSignal, LineChanged,
     Phases, Signals
<1>4. RunType'
  <2>1. ready' \in [Runs -> {"no", "video", "novideo"}]
    BY DEF TypeInv, TypeOK, RunType, LineReady, LineStarted, LineSignal, LineChanged
  <2>2. started' \in [Runs -> BOOLEAN]
    BY DEF TypeInv, TypeOK, RunType, LineReady, LineStarted, LineSignal, LineChanged
  <2>3. reason' \in [Runs -> Reasons]
    BY DEF TypeInv, TypeOK, RunType, LineReady, LineStarted, LineSignal, LineChanged, Reasons, Failures
  <2> QED  BY <1>0, <2>1, <2>2, <2>3 DEF TypeInv, TypeOK, RunType, NextLine
<1>5. SessionType' /\ TimerHasAttempt'
  <2>1. active' \in [Sessions -> BOOLEAN] /\ key' \in [Sessions -> BOOLEAN]
    BY CancelSessionType DEF TypeInv, TypeOK, SessionType, LineReady, LineStarted, LineSignal, LineChanged
  <2>2. armed' \in [Sessions -> BOOLEAN]
    BY DEF TypeInv, TypeOK, SessionType, LineReady, LineStarted, LineSignal, LineChanged
  <2> QED  BY <1>0, <2>1, <2>2 DEF TypeInv, TypeOK, SessionType, TimerHasAttempt, NextLine
<1> QED  BY <1>1, <1>2, <1>3, <1>4, <1>5 DEF TypeInv, TypeOK

LEMMA CollectExitType == ASSUME TypeInv, NEW r \in Runs, CollectExit(r) PROVE TypeInv'
<1>0. FlagType'
  BY DEF TypeInv, TypeOK, FlagType, CollectExit
<1>1. ProcType' /\ ThreadType'
  BY DEF TypeInv, TypeOK, ProcType, ThreadType, CollectExit
<1>2. RunType'
  BY DEF TypeInv, TypeOK, RunType, CollectExit
<1>3. PanelType' /\ SessionType' /\ TimerHasAttempt'
  <2>1. CASE r = run /\ ~expected[r] /\ session # 0
    <3>0. session \in Sessions
      BY <2>1, BoundsAssumption DEF TypeInv, TypeOK, PanelType, Sessions
    <3>1. /\ attempts[session] \in 0..MaxAttempts
          /\ ScheduleRestart(attempts[session]) /\ signal' = "stopped"
      <4>1. attempts[session] \in 0..MaxAttempts
        BY <3>0 DEF TypeInv, TypeOK, SessionType
      <4> QED  BY <2>1, <4>1 DEF CollectExit
    <3>2. PanelType'
      BY <3>1, ScheduleRestartType DEF TypeInv, TypeOK, PanelType, CollectExit, Signals
    <3>3. SessionType'
      BY <3>1, ScheduleRestartType DEF TypeInv, TypeOK, SessionType, CollectExit
    <3>4. TimerHasAttempt'
      BY <3>1, ScheduleRestartType DEF TypeInv, TypeOK, SessionType, TimerHasAttempt, CollectExit
    <3> QED  BY <3>2, <3>3, <3>4
  <2>2. CASE r = run /\ ~expected[r] /\ session = 0
    <3>1. ScheduleRestart(0) /\ 0 \in 0..MaxAttempts /\ signal' = "stopped" /\ ~CanRetry
      BY <2>2, BoundsAssumption DEF CollectExit, CanRetry
    <3>2. PanelType'
      BY <3>1, ScheduleRestartType DEF TypeInv, TypeOK, PanelType, CollectExit, Signals
    <3>3. SessionType'
      BY <3>1, ScheduleRestartType DEF TypeInv, TypeOK, SessionType, CollectExit
    <3>4. TimerHasAttempt'
      BY <2>2, <3>1 DEF TypeInv, TypeOK, SessionType, TimerHasAttempt, CollectExit, ScheduleRestart, Sessions
    <3> QED  BY <3>2, <3>3, <3>4
  <2>3. CASE ~(r = run /\ ~expected[r])
    BY <2>3 DEF TypeInv, TypeOK, PanelType, SessionType, TimerHasAttempt, CollectExit
  <2> QED  BY <2>1, <2>2, <2>3
<1> QED  BY <1>0, <1>1, <1>2, <1>3 DEF TypeInv, TypeOK

LEMMA RequestType == ASSUME TypeInv, Requests PROVE TypeInv'
BY StartType, ProbeType, SaveConfigType, PreviewType, CloseType, StopBeginType DEF Requests

LEMMA NextType == TypeInv /\ [Next]_vars => TypeInv'
<1> SUFFICES ASSUME TypeInv, [Next]_vars PROVE TypeInv'
  OBVIOUS
<1>1. CASE Requests
  BY <1>1, RequestType
<1>2. ASSUME NEW s \in Sessions, Retrying(s) PROVE TypeInv'
  BY <1>2, TimerType, RestartType DEF Retrying
<1>3. ASSUME NEW r \in Runs, Configuring(r) \/ Collecting(r) PROVE TypeInv'
  BY <1>3, ConfiguringType, LineType, CollectExitType DEF Collecting
<1>4. ASSUME NEW r \in Runs, ProcessExit(r) PROVE TypeInv'
  BY <1>4, ProcessType DEF Lines
<1>5. ASSUME NEW r \in Runs, NEW l \in Lines, Emit(r, l) PROVE TypeInv'
  BY <1>5, ProcessType
<1>6. ASSUME NEW t \in Threads, Stopping(t) PROVE TypeInv'
  BY <1>6, StoppingType
<1>7. CASE UNCHANGED vars
  BY <1>7 DEF vars, TypeInv, TypeOK, FlagType, PanelType, SessionType, RunType, ProcType, ThreadType,
     TimerHasAttempt
<1> QED  BY <1>1, <1>2, <1>3, <1>4, <1>5, <1>6, <1>7 DEF Next

\* Type correctness, and with it that no session ever counts more attempts than
\* RESTART_DELAYS has entries (Panel._restart increments, _schedule_restart checks).
THEOREM TypeCorrect == Spec => []TypeOK
<1>1. TypeInv /\ [Next]_vars => TypeInv'
  BY NextType
<1>2. TypeInv => TypeOK
  BY DEF TypeInv
<1> QED  BY InitType, <1>1, <1>2, PTL DEF Spec

-----------------------------------------------------------------------------
(* The panel never has two encoders, launches none once it is closing, and *)
(* never revives a cancelled session.                                      *)

\* A run that has not been launched has no process; one that has been replaced
\* was collected first; a collected process is dead.
Unborn == \A r \in Runs : r > run => proc[r] = "none" /\ ~exited[r]
Superseded == \A r \in Runs : r < run => exited[r]
ExitedIsDead == \A r \in Runs : exited[r] => ~Alive(r)

\* While the restart thread of the current session can still launch, the last
\* run is over; a session that does not exist has no restart thread.
TimerAfterExit ==
    session # 0 /\ active[session] /\ timer[session] # "none" => run = 0 \/ exited[run]
NoTimerYet == \A s \in Sessions : s > sessions => timer[s] = "none"

RunsInv == Unborn /\ Superseded /\ ExitedIsDead
EncoderInv == RunsInv /\ TimerAfterExit /\ NoTimerYet

LEMMA InitEncoder == Init => EncoderInv
BY BoundsAssumption DEF Init, EncoderInv, RunsInv, Unborn, Superseded, ExitedIsDead, Alive, LiveStates,
   TimerAfterExit, NoTimerYet, Runs, Sessions

LEMMA SessionInRange ==
    ASSUME TypeInv, session # 0
    PROVE  session \in Sessions /\ session <= sessions
BY BoundsAssumption DEF TypeInv, TypeOK, PanelType, Sessions

\* A step that launches, collects and revives nothing.
LEMMA QuietStep ==
    ASSUME TypeInv, EncoderInv, UNCHANGED <<run, session, sessions, exited>>,
           \A r \in Runs : proc'[r] # proc[r] => r <= run /\ Alive(r),
           \A s \in Sessions : active'[s] => active[s],
           \A s \in Sessions : timer'[s] # "none" => timer[s] # "none"
    PROVE  EncoderInv'
<1>1. RunsInv'
  BY DEF EncoderInv, RunsInv, Unborn, Superseded, ExitedIsDead, Alive, LiveStates, TypeInv, TypeOK,
     PanelType, Runs
<1>2. TimerAfterExit'
  BY SessionInRange DEF EncoderInv, TimerAfterExit
<1>3. NoTimerYet'
  BY DEF EncoderInv, NoTimerYet
<1> QED  BY <1>1, <1>2, <1>3 DEF EncoderInv

\* A launch over a collected run leaves exactly one live process.
LEMMA LaunchKeepsRuns ==
    ASSUME TypeInv, RunsInv, run = 0 \/ exited[run],
           NEW s, NEW k, NEW rev, Launch(s, k, rev)
    PROVE  RunsInv'
<1>0. run \in Nat /\ run' = run + 1 /\ run' \in Runs /\ exited' = exited
  BY DEF TypeInv, TypeOK, PanelType, Launch
<1>1. proc' = [proc EXCEPT ![run'] = "fresh"] /\ proc \in [Runs -> ProcStates]
  BY <1>0 DEF TypeInv, TypeOK, ProcType, Launch
<1>2. Unborn'
  BY <1>0, <1>1 DEF RunsInv, Unborn, Runs
<1>3. Superseded'
  BY <1>0 DEF RunsInv, Superseded, Runs
<1>4. ExitedIsDead'
  <2>1. ~exited[run']
    BY <1>0 DEF RunsInv, Unborn
  <2> QED  BY <1>0, <1>1, <2>1 DEF RunsInv, ExitedIsDead, Alive
<1> QED  BY <1>2, <1>3, <1>4 DEF RunsInv

\* Panel._schedule_restart touches the restart thread of the current session only.
LEMMA ScheduleKeepsOthers ==
    ASSUME TypeInv, NEW n \in 0..MaxAttempts, ScheduleRestart(n)
    PROVE  \A s \in Sessions : s # session => timer'[s] = timer[s]
BY DEF TypeInv, TypeOK, SessionType, ScheduleRestart

LEMMA RequestEncoder == ASSUME TypeInv, EncoderInv, Requests PROVE EncoderInv'
<1>1. ASSUME NEW auto \in BOOLEAN, NEW k \in Keys, Start(auto, k) PROVE EncoderInv'
  <2>0. run = 0 \/ exited[run]
    BY <1>1 DEF Start, Admits, Busy
  <2>1. ASSUME Launch(sessions + 1, k, revision) PROVE RunsInv'
    BY <2>0, <2>1, LaunchKeepsRuns DEF EncoderInv
  <2>2. ASSUME LaunchFails PROVE RunsInv'
    BY <2>2 DEF EncoderInv, RunsInv, LaunchFails, Unborn, Superseded, ExitedIsDead, Alive
  <2>3. RunsInv'
    BY <1>1, <2>1, <2>2 DEF Start
  <2>4. /\ timer' = timer /\ session' = sessions + 1 /\ sessions' = sessions + 1
        /\ sessions + 1 \in Sessions /\ sessions \in Nat
    BY <1>1 DEF Start, NewSession, TypeInv, TypeOK, PanelType
  <2> QED  BY <2>3, <2>4 DEF EncoderInv, TimerAfterExit, NoTimerYet, Sessions
<1>2. ASSUME NEW k \in Keys, Probe(k) PROVE EncoderInv'
  <2>0. (run = 0 \/ exited[run]) /\ ~(session # 0 /\ active[session])
    BY <1>2 DEF Probe, Admits, Busy
  <2>1. RunsInv'
    <3>1. CASE Launch(0, k, revision)
      BY <2>0, <3>1, LaunchKeepsRuns DEF EncoderInv
    <3>2. CASE LaunchFails
      BY <3>2 DEF EncoderInv, RunsInv, LaunchFails, Unborn, Superseded, ExitedIsDead, Alive
    <3> QED  BY <1>2, <3>1, <3>2 DEF Probe
  <2> QED  BY <1>2, <2>0, <2>1 DEF Probe, EncoderInv, TimerAfterExit, NoTimerYet
<1>3. ASSUME SaveConfig \/ StartPreview \/ StopPreview PROVE EncoderInv'
  BY <1>3 DEF SaveConfig, StartPreview, StopPreview, EncoderInv, RunsInv, Unborn, Superseded,
     ExitedIsDead, Alive, TimerAfterExit, NoTimerYet
<1>4. ASSUME NEW t \in Callers, Close(t) \/ StopBegin(t) PROVE EncoderInv'
  <2>1. /\ UNCHANGED <<run, session, sessions, timer, proc, exited>>
        /\ \A s \in Sessions : active'[s] => active[s]
    BY <1>4 DEF Close, StopBegin, CancelSession
  <2> QED  BY <2>1, QuietStep
<1> QED  BY <1>1, <1>2, <1>3, <1>4 DEF Requests

LEMMA RestartEncoder ==
    ASSUME TypeInv, EncoderInv, NEW s \in Sessions, Retrying(s)
    PROVE  EncoderInv'
<1>1. CASE TimerFires(s) \/ TimerCancelled(s) \/ (Restart(s) /\ ~MayRestart(s))
  <2>1. UNCHANGED <<run, session, sessions, active, proc, exited>>
    BY <1>1 DEF TimerFires, TimerCancelled, Restart
  <2>2. \A x \in Sessions : timer'[x] # "none" => timer[x] # "none"
    BY <1>1 DEF TimerFires, TimerCancelled, Restart, TypeInv, TypeOK, SessionType
  <2> QED  BY <2>1, <2>2, QuietStep
<1>2. CASE Restart(s) /\ MayRestart(s)
  <2>0. s = session /\ session # 0 /\ session <= sessions /\ (run = 0 \/ exited[run])
    BY <1>2 DEF Restart, MayRestart, EncoderInv, TimerAfterExit, TypeInv, TypeOK, PanelType, Sessions
  <2>1. UNCHANGED <<session, sessions>>
    BY <1>2 DEF Restart
  <2>2. CASE Launch(s, key[s], profile[s]) /\ timer' = [timer EXCEPT ![s] = "none"]
    <3>1. RunsInv'
      BY <2>0, <2>2, LaunchKeepsRuns DEF EncoderInv
    <3> QED  BY <2>0, <2>1, <2>2, <3>1 DEF EncoderInv, TimerAfterExit, NoTimerYet, TypeInv, TypeOK, SessionType
  <2>3. CASE LaunchFails /\ ScheduleRestart(attempts[s] + 1)
    <3>1. RunsInv' /\ TimerAfterExit'
      BY <2>0, <2>1, <2>3 DEF EncoderInv, RunsInv, LaunchFails, Unborn, Superseded, ExitedIsDead, Alive,
         TimerAfterExit
    <3>2. attempts[s] + 1 \in 0..MaxAttempts
      BY <1>2, BoundsAssumption DEF Restart, TypeInv, TypeOK, SessionType, TimerHasAttempt
    <3>3. NoTimerYet'
      BY <2>0, <2>1, <2>3, <3>2, ScheduleKeepsOthers DEF EncoderInv, NoTimerYet, Sessions, TypeInv, TypeOK,
         PanelType
    <3> QED  BY <3>1, <3>3 DEF EncoderInv
  <2> QED  BY <1>2, <2>2, <2>3 DEF Restart
<1> QED  BY <1>1, <1>2 DEF Retrying

\* The configure thread and whoever terminates a process launch nothing and
\* bring no dead process back.
LEMMA ThreadEncoder ==
    ASSUME TypeInv, EncoderInv,
           (\E r \in Runs : Configuring(r)) \/ (\E t \in Threads : Stopping(t))
    PROVE  EncoderInv'
<1>1. UNCHANGED <<run, session, sessions, timer, exited>>
  BY DEF Configuring, Stopping, SendProbe, SendStart, AwaitOver, AwaitFails, Decide, TelemetryEnds,
     FinishBegin, FinishEnd, TerminateBegin, ProcessGone, Escalate, StopEnd, Moves, Terminating
<1>2. \A s \in Sessions : active'[s] => active[s]
  <2>1. active' = active \/ CancelSession
    BY DEF Configuring, Stopping, SendProbe, SendStart, AwaitOver, AwaitFails, Decide, TelemetryEnds,
       FinishBegin, FinishEnd, TerminateBegin, ProcessGone, Escalate, StopEnd, Moves, Terminating,
       sessionVars
  <2> QED  BY <2>1 DEF CancelSession
<1>3. \A r \in Runs : proc'[r] # proc[r] => r = run /\ Alive(r)
  BY DEF Configuring, Stopping, SendProbe, SendStart, AwaitOver, AwaitFails, Decide, TelemetryEnds,
     FinishBegin, FinishEnd, TerminateBegin, ProcessGone, Escalate, StopEnd, Moves, Terminating,
     Reaches, TypeInv, TypeOK, ProcType
<1>4. run \in Nat
  BY DEF TypeInv, TypeOK, PanelType
<1> QED  BY <1>1, <1>2, <1>3, <1>4, QuietStep

LEMMA ProcessEncoder ==
    ASSUME TypeInv, EncoderInv, NEW r \in Runs, NEW l \in Lines, Emit(r, l) \/ ProcessExit(r)
    PROVE  EncoderInv'
<1>1. UNCHANGED <<run, session, sessions, active, timer, exited>>
  BY DEF Emit, ProcessExit, Environment
<1>2. Alive(r) /\ \A q \in Runs : q # r => proc'[q] = proc[q]
  BY DEF Emit, ProcessExit, TypeInv, TypeOK, ProcType
<1>3. RunsInv'
  BY <1>1, <1>2 DEF EncoderInv, RunsInv, Unborn, Superseded, ExitedIsDead, Alive, LiveStates
<1> QED  BY <1>1, <1>3 DEF EncoderInv, TimerAfterExit, NoTimerYet

LEMMA CollectorEncoder ==
    ASSUME TypeInv, EncoderInv, NEW r \in Runs, Collecting(r)
    PROVE  EncoderInv'
<1>1. CASE LineReady(r) \/ LineStarted(r) \/ LineSignal(r) \/ LineChanged(r)
  <2>1. UNCHANGED <<run, session, sessions, timer, exited, proc>>
    BY <1>1 DEF LineReady, LineStarted, LineSignal, LineChanged, NextLine
  <2>2. \A s \in Sessions : active'[s] => active[s]
    BY <1>1 DEF LineReady, LineStarted, LineSignal, LineChanged, CancelSession
  <2> QED  BY <2>1, <2>2, QuietStep
<1>2. CASE CollectExit(r)
  <2>0. /\ UNCHANGED <<run, session, sessions, proc>> /\ exited' = [exited EXCEPT ![r] = TRUE]
        /\ ~Alive(r) /\ proc[r] # "none"
    BY <1>2 DEF CollectExit, Alive, LiveStates
  <2>1. RunsInv'
    BY <2>0 DEF EncoderInv, RunsInv, Unborn, Superseded, ExitedIsDead, Alive, TypeInv, TypeOK, RunType
  <2>2. TimerAfterExit' /\ NoTimerYet'
    <3>1. CASE r = run /\ ~expected[r] /\ session # 0
      <4>0. session \in Sessions /\ session <= sessions
        BY <3>1, SessionInRange
      <4>1. attempts[session] \in 0..MaxAttempts
        BY <4>0 DEF TypeInv, TypeOK, SessionType
      <4>2. ScheduleRestart(attempts[session])
        BY <1>2, <3>1 DEF CollectExit
      <4>3. \A s \in Sessions : s # session => timer'[s] = timer[s]
        BY <4>1, <4>2, ScheduleKeepsOthers
      <4> QED  BY <2>0, <3>1, <4>0, <4>3 DEF EncoderInv, TimerAfterExit, NoTimerYet, TypeInv, TypeOK, RunType,
           PanelType, Sessions
    <3>2. CASE r = run /\ ~expected[r] /\ session = 0
      <4>1. ScheduleRestart(0) /\ 0 \in 0..MaxAttempts
        BY <1>2, <3>2, BoundsAssumption DEF CollectExit
      <4>2. \A s \in Sessions : timer'[s] = timer[s]
        BY <3>2, <4>1, ScheduleKeepsOthers DEF Sessions
      <4> QED  BY <2>0, <3>2, <4>2 DEF EncoderInv, TimerAfterExit, NoTimerYet
    <3>3. CASE ~(r = run /\ ~expected[r])
      <4>1. UNCHANGED <<timer, active>>
        BY <1>2, <3>3 DEF CollectExit
      <4> QED  BY <2>0, <4>1 DEF EncoderInv, TimerAfterExit, NoTimerYet, TypeInv, TypeOK, RunType, PanelType, Runs
    <3> QED  BY <3>1, <3>2, <3>3
  <2> QED  BY <2>1, <2>2 DEF EncoderInv
<1> QED  BY <1>1, <1>2 DEF Collecting

LEMMA NextEncoder == TypeInv /\ EncoderInv /\ [Next]_vars => EncoderInv'
<1> SUFFICES ASSUME TypeInv, EncoderInv, [Next]_vars PROVE EncoderInv'
  OBVIOUS
<1>1. CASE Requests
  BY <1>1, RequestEncoder
<1>2. ASSUME NEW s \in Sessions, Retrying(s) PROVE EncoderInv'
  BY <1>2, RestartEncoder
<1>3. ASSUME NEW r \in Runs, Configuring(r) PROVE EncoderInv'
  BY <1>3, ThreadEncoder
<1>4. ASSUME NEW r \in Runs, Collecting(r) PROVE EncoderInv'
  BY <1>4, CollectorEncoder
<1>5. ASSUME NEW r \in Runs, ProcessExit(r) PROVE EncoderInv'
  BY <1>5, ProcessEncoder DEF Lines
<1>6. ASSUME NEW r \in Runs, NEW l \in Lines, Emit(r, l) PROVE EncoderInv'
  BY <1>6, ProcessEncoder
<1>7. ASSUME NEW t \in Threads, Stopping(t) PROVE EncoderInv'
  BY <1>7, ThreadEncoder
<1>8. CASE UNCHANGED vars
  BY <1>8 DEF vars, EncoderInv, RunsInv, Unborn, Superseded, ExitedIsDead, Alive, TimerAfterExit, NoTimerYet
<1> QED  BY <1>1, <1>2, <1>3, <1>4, <1>5, <1>6, <1>7, <1>8 DEF Next

\* At most one encoder process is alive, whatever the number of launches,
\* retries and threads: a run is launched only over a collected one
\* (Panel._busy, and the timer that only an exit can start).
THEOREM AtMostOneEncoder == Spec => []OneEncoder
<1>1. TypeInv /\ EncoderInv /\ [Next]_vars => (TypeInv /\ EncoderInv)'
  BY NextType, NextEncoder
<1>2. TypeInv /\ EncoderInv => OneEncoder
  <2> SUFFICES ASSUME TypeInv, EncoderInv, NEW p \in Runs, NEW q \in Runs, Alive(p), Alive(q)
               PROVE  p = q
    BY DEF OneEncoder
  <2>1. \A r \in Runs : Alive(r) => r = run
    BY DEF EncoderInv, RunsInv, Unborn, Superseded, ExitedIsDead, Alive, LiveStates, TypeInv, TypeOK,
       PanelType, Runs
  <2> QED  BY <2>1
<1> QED  BY InitType, InitEncoder, <1>1, <1>2, PTL DEF Spec

\* Only three actions launch, and each looks at Panel.closing in the critical
\* section that launches.
LEMMA LaunchesOnlyWhenOpen ==
    ASSUME TypeInv, [Next]_vars
    PROVE  /\ closing => run' = run
           /\ \A s \in 1..sessions : ~active[s] =>
                 ~active'[s] /\ (run' # run => sessionOf'[run'] # s)
<1> DEFINE Kept == /\ closing => run' = run
                   /\ \A s \in 1..sessions : ~active[s] =>
                         ~active'[s] /\ (run' # run => sessionOf'[run'] # s)
<1>0. \A s \in 1..sessions : s \in Sessions /\ s # 0
  BY BoundsAssumption DEF TypeInv, TypeOK, PanelType, Sessions
<1>1. ASSUME NEW auto \in BOOLEAN, NEW k \in Keys, Start(auto, k) PROVE Kept
  <2>1. /\ ~closing /\ sessions \in Nat
        /\ active' = [active EXCEPT ![sessions + 1] = TRUE] \/ active' = active
    BY <1>1 DEF Start, NewSession, Admits, TypeInv, TypeOK, PanelType
  <2>2. run' # run => sessionOf'[run'] = sessions + 1
    BY <1>1 DEF Start, Launch, LaunchFails, TypeInv, TypeOK, RunType
  <2> QED  BY <1>0, <2>1, <2>2 DEF TypeInv, TypeOK, SessionType
<1>2. ASSUME NEW k \in Keys, Probe(k) PROVE Kept
  <2>1. ~closing /\ active' = active
    BY <1>2 DEF Probe, Admits
  <2>2. run' # run => sessionOf'[run'] = 0
    BY <1>2 DEF Probe, Launch, LaunchFails, TypeInv, TypeOK, RunType
  <2> QED  BY <1>0, <2>1, <2>2
<1>3. ASSUME NEW s \in Sessions, Restart(s), MayRestart(s) PROVE Kept
  <2>1. ~closing /\ active[s] /\ \A x \in Sessions : active'[x] => active[x]
    BY <1>3 DEF Restart, MayRestart, ScheduleRestart, CancelSession
  <2>2. run' # run => sessionOf'[run'] = s
    BY <1>3 DEF Restart, Launch, LaunchFails, TypeInv, TypeOK, RunType
  <2> QED  BY <1>0, <2>1, <2>2
<1>4. ASSUME run' = run, \A s \in Sessions : active'[s] => active[s] PROVE Kept
  BY <1>0, <1>4
<1>5. ASSUME SaveConfig \/ StartPreview \/ StopPreview \/ (\E t \in Callers : Close(t) \/ StopBegin(t))
      PROVE  Kept
  BY <1>4, <1>5 DEF SaveConfig, StartPreview, StopPreview, Close, StopBegin, CancelSession
<1>6. ASSUME NEW s \in Sessions,
             TimerFires(s) \/ TimerCancelled(s) \/ (Restart(s) /\ ~MayRestart(s))
      PROVE  Kept
  BY <1>4, <1>6 DEF TimerFires, TimerCancelled, Restart
<1>7. ASSUME NEW r \in Runs, Configuring(r) PROVE Kept
  BY <1>4, <1>7 DEF Configuring, SendProbe, SendStart, AwaitOver, AwaitFails, Decide, TelemetryEnds,
     FinishBegin, FinishEnd, Moves, CancelSession
<1>8. ASSUME NEW t \in Threads, Stopping(t) PROVE Kept
  BY <1>4, <1>8 DEF Stopping, TerminateBegin, ProcessGone, Escalate, StopEnd, Terminating
<1>9. ASSUME NEW r \in Runs, Collecting(r) PROVE Kept
  <2>1. run' = run /\ \A s \in Sessions : active'[s] => active[s]
    BY <1>9 DEF Collecting, LineReady, LineStarted, LineSignal, LineChanged, NextLine, CollectExit,
       ScheduleRestart, CancelSession
  <2> QED  BY <1>4, <2>1
<1>10. ASSUME NEW r \in Runs, ProcessExit(r) \/ \E l \in Lines : Emit(r, l) PROVE Kept
  BY <1>4, <1>10 DEF ProcessExit, Emit, Environment
<1>11. CASE UNCHANGED vars
  BY <1>4, <1>11 DEF vars
<1> QED  BY <1>1, <1>2, <1>3, <1>5, <1>6, <1>7, <1>8, <1>9, <1>10, <1>11 DEF Next, Requests, Retrying

\* Once close() has set Panel.closing, no request and no restart thread that is
\* already on its way launches an encoder.
THEOREM NeverLaunchesWhenClosing == Spec => NoLaunchWhenClosing
<1>1. TypeInv /\ [Next]_vars => [closing => run' = run]_vars
  BY LaunchesOnlyWhenOpen
<1> QED  BY InitType, NextType, <1>1, PTL DEF Spec, NoLaunchWhenClosing

\* A session that Stop, a timeout or its budget has ended stays ended.
THEOREM CancelledSessionsStayDown == Spec => CancelledStaysDown
<1>1. TypeInv /\ [Next]_vars =>
          [\A s \in 1..sessions : ~active[s] =>
              ~active'[s] /\ (run' # run => sessionOf'[run'] # s)]_vars
  BY LaunchesOnlyWhenOpen
<1> QED  BY InitType, NextType, <1>1, PTL DEF Spec, CancelledStaysDown
=============================================================================
