------------------------------- MODULE Panel -------------------------------
(***************************************************************************)
(* The life cycle of one encoder as webpanel/server.py manages it: class   *)
(* Panel with its Session and Run objects, and the threads that share      *)
(* them.  One action is one stretch of code between two points where       *)
(* another thread can get in: a block under Panel.lock, or a step of a     *)
(* wait made outside it.                                                   *)
(*                                                                         *)
(* Threads.  Every launched run r has a configure thread (Panel._configure *)
(* and, through it, _finish and _terminate), whose program counter is      *)
(* pc[r], and a collector (Panel._collect), which lives until exited[r].   *)
(* Every session s has at most one restart thread, whose state is          *)
(* timer[s].  The HTTP threads that call stop() are Stoppers; Closers      *)
(* holds the one that runs close().  The other requests are one critical   *)
(* section each, so they need no thread of their own.                      *)
(*                                                                         *)
(* Left out: texts, events, telemetry and monitoring.  A passphrase is     *)
(* the fact that there is one; a profile is its revision number.           *)
(***************************************************************************)
EXTENDS Naturals, Sequences, FiniteSets

CONSTANTS
    MaxRuns,        \* bound: launches of the encoder
    MaxSessions,    \* bound: Start requests accepted
    MaxProbed,      \* bound: the last launch that may be a probe
    MaxAttempts,    \* len(RESTART_DELAYS)
    MaxRevision,    \* bound: saved revisions of the profile
    PipeBound,      \* bound: lines in the encoder's stdout not yet read
    Stoppers,       \* HTTP threads that may be inside stop()
    Closers,        \* the thread that runs close(), or none: a set of at most one
    Keys,           \* whether a request carries a passphrase: subset of BOOLEAN
    Says,           \* bound: the lines the encoder of this instance may print
    Previewing,     \* bound: whether the operator of this instance opens previews
    KillMayTimeOut  \* whether wait(timeout=2) after kill() may expire

Runs == 1..MaxRuns
Sessions == 1..MaxSessions
Callers == Stoppers \cup Closers
Threads == Runs \cup Callers

ASSUME BoundsAssumption ==
    /\ MaxRuns \in Nat \ {0}
    /\ MaxSessions \in Nat \ {0}
    /\ MaxProbed \in 0..MaxRuns
    /\ MaxAttempts \in Nat
    /\ MaxRevision \in Nat \ {0}
    /\ PipeBound \in Nat \ {0}
ASSUME ThreadAssumption ==
    /\ Closers \cap Stoppers = {}
    /\ \A t \in Callers : t \notin Nat
ASSUME ChoiceAssumption ==
    /\ Keys \subseteq BOOLEAN
    /\ Says \subseteq {"video", "novideo", "started", "receiving", "retrying", "changed"}
    /\ Previewing \in BOOLEAN /\ KillMayTimeOut \in BOOLEAN

VARIABLES
    \* fields of Panel
    phase,      \* Panel.phase
    signal,     \* Panel.signal_state
    encoding,   \* Panel.encoding_started
    closing,    \* Panel.closing
    revision,   \* Panel.revision, which stands for the profile too
    preview,    \* Panel.preview holds a preview process
    run,        \* number of launches so far; the last one is Panel.run, 0 is None
    session,    \* Panel.session, 0 is None
    sessions,   \* number of sessions created so far
    \* fields of a Session
    active, armed, enabled, exhausted, attempts,
    key,        \* Session.secret is not empty
    profile,    \* revision whose config Session.config copies
    timer,      \* the session's restart thread
    \* fields of a Run
    sessionOf,  \* Run.session
    cancel, expected, ready, startSent, started, exited,
    reason,     \* Run.exit_reason
    entry,      \* reason recorded for the run in Panel.exit_history
    runKey,     \* Run.secret is not empty
    runProfile, \* revision the encoder was configured with
    \* the encoder process and its stdout
    proc, asked, pipe,
    \* threads
    pc,         \* where a configure thread or a caller of stop() is
    outcome,    \* completion_reason of a configure thread inside _finish
    target      \* the run a caller of stop() is stopping

panelVars == <<phase, signal, encoding, closing, revision, preview>>
sessionVars == <<active, armed, enabled, exhausted, attempts, key, profile, timer>>
runVars == <<sessionOf, cancel, expected, ready, startSent, started, exited,
             reason, entry, runKey, runProfile>>
procVars == <<proc, asked, pipe>>
threadVars == <<pc, outcome, target>>
vars == <<panelVars, run, session, sessions, sessionVars, runVars, procVars, threadVars>>

-----------------------------------------------------------------------------
Phases == {"idle", "probing", "starting", "running", "reconnecting",
           "restart_wait", "stopping", "error"}
Signals == {"unknown", "receiving", "reconnecting", "stopped"}
Failures == {"probe_timeout", "start_timeout", "unsupported_input"}
Reasons == Failures \cup {"none", "probe_complete", "operator_stop", "panel_shutdown"}

\* What the encoder says that the panel reacts to: the end of the probe with or
\* without a video stream, "Encoding started", and the three "URL input:" lines
\* "receiving video", "retrying in" and "stopped (" (the format changed).
Lines == {"video", "novideo", "started", "receiving", "retrying", "changed"}

\* Where the encoder process is: the commands it has been given, whether its
\* input has ended ("_over", start_input in patches/0012), then its death,
\* unprompted ("crashed") or after the panel asked for it ("ended").
LiveStates == {"fresh", "probing", "probed", "ordered", "encoding",
               "ordered_over", "encoding_over"}
ProcStates == LiveStates \cup {"none", "crashed", "ended"}
Alive(r) == proc[r] \in LiveStates

\* Program points of _configure, of _finish and of _terminate.  The points that
\* lead into _finish keep apart why: the write to the process failed, the 20 s
\* of _await ran out, the probe found no video, or it was all that was asked.
FinishPoints == {"send_failed", "timed_out", "unsupported", "complete"}
StopPoints == {"stop_lock", "wait_quit", "wait_term", "wait_kill", "settle"}
HoldsStopLock == {"wait_quit", "wait_term", "wait_kill"}
Points == {"none", "send_probe", "await_ready", "decide", "send_start", "await_started",
           "telemetry", "done", "idle", "closing"} \cup FinishPoints \cup StopPoints

FlagType == encoding \in BOOLEAN /\ closing \in BOOLEAN /\ preview \in BOOLEAN
PanelType ==
    /\ phase \in Phases /\ signal \in Signals
    /\ revision \in 1..MaxRevision
    /\ run \in 0..MaxRuns /\ sessions \in 0..MaxSessions /\ session \in 0..sessions
SessionType ==
    /\ active \in [Sessions -> BOOLEAN] /\ armed \in [Sessions -> BOOLEAN]
    /\ enabled \in [Sessions -> BOOLEAN] /\ exhausted \in [Sessions -> BOOLEAN]
    /\ attempts \in [Sessions -> 0..MaxAttempts] /\ key \in [Sessions -> BOOLEAN]
    /\ profile \in [Sessions -> 0..MaxRevision]
    /\ timer \in [Sessions -> {"none", "waiting", "fired"}]
RunType ==
    /\ sessionOf \in [Runs -> 0..MaxSessions]
    /\ cancel \in [Runs -> BOOLEAN] /\ expected \in [Runs -> BOOLEAN]
    /\ ready \in [Runs -> {"no", "video", "novideo"}]
    /\ startSent \in [Runs -> BOOLEAN] /\ started \in [Runs -> BOOLEAN]
    /\ exited \in [Runs -> BOOLEAN]
    /\ reason \in [Runs -> Reasons]
    /\ entry \in [Runs -> Reasons \cup {"process_exit"}]
    /\ runKey \in [Runs -> BOOLEAN] /\ runProfile \in [Runs -> 0..MaxRevision]
ProcType ==
    /\ proc \in [Runs -> ProcStates]
    /\ asked \in [Runs -> {"no", "quit", "term", "kill"}]
    /\ pipe \in [Runs -> Seq(Lines)]
ThreadType ==
    /\ pc \in [Threads -> Points]
    /\ outcome \in [Runs -> Reasons]
    /\ target \in [Callers -> 0..MaxRuns]
TypeOK == FlagType /\ PanelType /\ SessionType /\ RunType /\ ProcType /\ ThreadType

\* A profile that does not load leaves the panel in "error".
Init ==
    /\ phase \in {"idle", "error"} /\ signal = "unknown" /\ encoding = FALSE
    /\ closing = FALSE /\ revision = 1 /\ preview = FALSE
    /\ run = 0 /\ session = 0 /\ sessions = 0
    /\ active = [s \in Sessions |-> FALSE] /\ armed = [s \in Sessions |-> FALSE]
    /\ enabled = [s \in Sessions |-> FALSE] /\ exhausted = [s \in Sessions |-> FALSE]
    /\ attempts = [s \in Sessions |-> 0] /\ key = [s \in Sessions |-> FALSE]
    /\ profile = [s \in Sessions |-> 0] /\ timer = [s \in Sessions |-> "none"]
    /\ sessionOf = [r \in Runs |-> 0]
    /\ cancel = [r \in Runs |-> FALSE] /\ expected = [r \in Runs |-> FALSE]
    /\ ready = [r \in Runs |-> "no"] /\ startSent = [r \in Runs |-> FALSE]
    /\ started = [r \in Runs |-> FALSE] /\ exited = [r \in Runs |-> FALSE]
    /\ reason = [r \in Runs |-> "none"] /\ entry = [r \in Runs |-> "none"]
    /\ runKey = [r \in Runs |-> FALSE] /\ runProfile = [r \in Runs |-> 0]
    /\ proc = [r \in Runs |-> "none"] /\ asked = [r \in Runs |-> "no"]
    /\ pipe = [r \in Runs |-> <<>>]
    /\ pc = [t \in Threads |-> IF t \in Runs THEN "none" ELSE "idle"]
    /\ outcome = [r \in Runs |-> "none"] /\ target = [t \in Callers |-> 0]

-----------------------------------------------------------------------------
(* Helpers that run inside a critical section.                             *)

(* Definitions named after another one with a suffix (Busy_..., and so on)  *)
(* are not part of the model: each is the definition it precedes with a    *)
(* bug the code could have had, for the mutation tests of the properties.  *)

Busy_ForgetsRun == (session # 0 /\ active[session]) \/ (run # 0 /\ phase = "stopping")
Busy_ForgetsSession == run # 0 /\ (~exited[run] \/ phase = "stopping")
\* Panel._busy
Busy ==
    \/ session # 0 /\ active[session]
    \/ run # 0 /\ (~exited[run] \/ phase = "stopping")

CancelSession_KeepsKey ==
    /\ active' = [s \in Sessions |-> active[s] /\ s # session]
    /\ UNCHANGED key
\* Panel._cancel_session.  Setting retry_at to None is not a variable: a retry
\* is pending exactly when the session is active and its restart thread exists.
CancelSession ==
    /\ active' = [s \in Sessions |-> active[s] /\ s # session]
    /\ key' = [s \in Sessions |-> key[s] /\ s # session]

\* Panel._launch when the process could be created
Launch(s, k, rev) ==
    LET r == run + 1 IN
    /\ r \in Runs
    /\ run' = r
    /\ phase' = "probing" /\ signal' = "unknown" /\ encoding' = FALSE
    /\ sessionOf' = [sessionOf EXCEPT ![r] = s]
    /\ runKey' = [runKey EXCEPT ![r] = k]
    /\ runProfile' = [runProfile EXCEPT ![r] = rev]
    /\ proc' = [proc EXCEPT ![r] = "fresh"]
    /\ pc' = [pc EXCEPT ![r] = "send_probe"]
    /\ UNCHANGED <<closing, revision, preview, cancel, expected, ready, startSent,
                   started, exited, reason, entry, asked, pipe, outcome, target>>

\* Panel._launch raising encoder_unavailable or spawn_failed, and what both its
\* callers do about the phase.  No run is created.
LaunchFails ==
    /\ UNCHANGED <<run, signal, encoding, closing, revision, preview>>
    /\ UNCHANGED <<runVars, procVars, threadVars>>

CanRetry_Unarmed == session # 0 /\ active[session] /\ enabled[session] /\ ~closing
\* Panel._schedule_restart, n being the attempts made so far
CanRetry == session # 0 /\ active[session] /\ enabled[session] /\ armed[session] /\ ~closing

ScheduleRestart_OneMore(n) ==
    IF CanRetry /\ n <= MaxAttempts
    THEN /\ phase' = "restart_wait"
         /\ timer' = [timer EXCEPT ![session] = "waiting"]
         /\ UNCHANGED <<active, key, exhausted>>
    ELSE /\ phase' = "error"
         /\ timer' = [s \in Sessions |-> IF s = session /\ timer[s] = "fired"
                                         THEN "none" ELSE timer[s]]
         /\ exhausted' = [s \in Sessions |-> exhausted[s] \/ (s = session /\ CanRetry)]
         /\ CancelSession
ScheduleRestart_Early(n) ==
    IF CanRetry /\ n + 1 < MaxAttempts
    THEN /\ phase' = "restart_wait"
         /\ timer' = [timer EXCEPT ![session] = "waiting"]
         /\ UNCHANGED <<active, key, exhausted>>
    ELSE /\ phase' = "error"
         /\ timer' = [s \in Sessions |-> IF s = session /\ timer[s] = "fired"
                                         THEN "none" ELSE timer[s]]
         /\ exhausted' = [s \in Sessions |-> exhausted[s] \/ (s = session /\ CanRetry)]
         /\ CancelSession
ScheduleRestart_NoCancel(n) ==
    IF CanRetry /\ n < MaxAttempts
    THEN /\ phase' = "restart_wait"
         /\ timer' = [timer EXCEPT ![session] = "waiting"]
         /\ UNCHANGED <<active, key, exhausted>>
    ELSE /\ phase' = "error"
         /\ timer' = [s \in Sessions |-> IF s = session /\ timer[s] = "fired"
                                         THEN "none" ELSE timer[s]]
         /\ exhausted' = [s \in Sessions |-> exhausted[s] \/ (s = session /\ CanRetry)]
         /\ UNCHANGED <<active, key>>

ScheduleRestart(n) ==
    IF CanRetry /\ n < MaxAttempts
    THEN /\ phase' = "restart_wait"
         /\ timer' = [timer EXCEPT ![session] = "waiting"]
         /\ UNCHANGED <<active, key, exhausted>>
    ELSE /\ phase' = "error"
         /\ timer' = [s \in Sessions |-> IF s = session /\ timer[s] = "fired"
                                         THEN "none" ELSE timer[s]]
         /\ exhausted' = [s \in Sessions |-> exhausted[s] \/ (s = session /\ CanRetry)]
         /\ CancelSession

-----------------------------------------------------------------------------
(* Requests.                                                               *)

NewSession(auto, k) ==
    LET s == sessions + 1 IN
    /\ s \in Sessions
    /\ sessions' = s /\ session' = s
    /\ enabled' = [enabled EXCEPT ![s] = auto]
    /\ profile' = [profile EXCEPT ![s] = revision]
    /\ UNCHANGED <<armed, exhausted, attempts, timer>>

Admits_Closing == ~Busy
\* What Panel.action refuses before it touches anything
Admits == ~closing /\ ~Busy

\* Panel.action("start"), room being left for the whole budget of the session
Start(auto, k) ==
    /\ Admits
    /\ run + 1 + MaxAttempts <= MaxRuns
    /\ NewSession(auto, k)
    /\ \/ /\ Launch(sessions + 1, k, revision)
          /\ active' = [active EXCEPT ![sessions + 1] = TRUE]
          /\ key' = [key EXCEPT ![sessions + 1] = k]
       \/ /\ LaunchFails
          /\ phase' = "error"
          /\ UNCHANGED <<active, key>>

\* Panel.action("probe")
Probe(k) ==
    /\ Admits
    /\ run < MaxProbed
    /\ session' = 0
    /\ \/ Launch(0, k, revision)
       \/ LaunchFails /\ phase' = "error"
    /\ UNCHANGED <<sessions, sessionVars>>

\* Panel.save_config, when os.replace succeeds (nothing changes when it fails)
SaveConfig ==
    /\ ~Busy
    /\ revision < MaxRevision
    /\ revision' = revision + 1
    /\ phase' = "idle" /\ signal' = "unknown"
    /\ UNCHANGED <<encoding, closing, preview, run, session, sessions,
                   sessionVars, runVars, procVars, threadVars>>

MayPreview_NoProcess == ~closing /\ phase = "running"
MayPreview == ~closing /\ phase = "running" /\ run # 0 /\ Alive(run)

\* Panel.start_preview.  Preview.start keeps a live preview process, else drops
\* the old one and may fail to create another: any outcome.
StartPreview ==
    /\ Previewing
    /\ MayPreview
    /\ preview' \in BOOLEAN
    /\ UNCHANGED <<phase, signal, encoding, closing, revision, run, session, sessions,
                   sessionVars, runVars, procVars, threadVars>>

\* POST /api/preview-stop
StopPreview ==
    /\ preview
    /\ preview' = FALSE
    /\ UNCHANGED <<phase, signal, encoding, closing, revision, run, session, sessions,
                   sessionVars, runVars, procVars, threadVars>>

\* Panel.close, up to its call of stop()
Close(t) ==
    /\ t \in Closers /\ pc[t] = "idle"
    /\ closing' = TRUE
    /\ pc' = [pc EXCEPT ![t] = "closing"]
    /\ UNCHANGED <<phase, signal, encoding, revision, preview, run, session, sessions,
                   sessionVars, runVars, procVars, outcome, target>>

Rest(t) == IF t \in Stoppers THEN "idle" ELSE "done"

StopReason_Unset(r) == reason[r]
StopReason(r) ==
    CASE r # run -> reason[r]
      [] r = run /\ closing -> "panel_shutdown"
      [] OTHER -> "operator_stop"

\* Panel.stop, first critical section
StopBegin(t) ==
    /\ pc[t] = IF t \in Stoppers THEN "idle" ELSE "closing"
    /\ CancelSession
    /\ preview' = FALSE
    /\ reason' = [r \in Runs |-> StopReason(r)]
    /\ IF run = 0 \/ (run # 0 /\ exited[run])
       THEN /\ phase' = "idle" /\ signal' = "stopped" /\ encoding' = FALSE
            /\ pc' = [pc EXCEPT ![t] = Rest(t)]
            /\ UNCHANGED <<expected, cancel, target>>
       ELSE /\ phase' = "stopping"
            /\ expected' = [expected EXCEPT ![run] = TRUE]
            /\ cancel' = [cancel EXCEPT ![run] = TRUE]
            /\ target' = [target EXCEPT ![t] = run]
            /\ pc' = [pc EXCEPT ![t] = "stop_lock"]
            /\ UNCHANGED <<signal, encoding>>
    /\ UNCHANGED <<closing, revision, run, session, sessions, armed, enabled, exhausted,
                   attempts, profile, timer, sessionOf, ready, startSent, started, exited,
                   entry, runKey, runProfile, procVars, outcome>>

\* Panel.stop, second critical section
StopEnd(t) ==
    /\ t \in Callers /\ pc[t] = "settle"
    /\ IF target[t] = run
       THEN phase' = "idle" /\ signal' = "stopped" /\ encoding' = FALSE
       ELSE UNCHANGED <<phase, signal, encoding>>
    /\ pc' = [pc EXCEPT ![t] = Rest(t)]
    /\ target' = [target EXCEPT ![t] = 0]
    /\ UNCHANGED <<closing, revision, preview, run, session, sessions, sessionVars,
                   runVars, procVars, outcome>>

-----------------------------------------------------------------------------
(* The restart thread of a session.                                        *)

\* session.cancel.wait(delay) ends because the delay is over ...
TimerFires(s) ==
    /\ timer[s] = "waiting" /\ active[s]
    /\ timer' = [timer EXCEPT ![s] = "fired"]
    /\ UNCHANGED <<panelVars, run, session, sessions, active, armed, enabled, exhausted,
                   attempts, key, profile, runVars, procVars, threadVars>>

\* ... or because the session was cancelled.
TimerCancelled(s) ==
    /\ timer[s] = "waiting" /\ ~active[s]
    /\ timer' = [timer EXCEPT ![s] = "none"]
    /\ UNCHANGED <<panelVars, run, session, sessions, active, armed, enabled, exhausted,
                   attempts, key, profile, runVars, procVars, threadVars>>

MayRestart_Closing(s) == s = session /\ active[s]
MayRestart_Cancelled(s) == s = session /\ ~closing
\* The critical section of Panel._restart
MayRestart(s) == s = session /\ active[s] /\ ~closing
Restart(s) ==
    /\ timer[s] = "fired"
    /\ IF MayRestart(s)
       THEN /\ attempts' = [attempts EXCEPT ![s] = @ + 1]
            /\ \/ /\ Launch(s, key[s], profile[s])
                  /\ timer' = [timer EXCEPT ![s] = "none"]
                  /\ UNCHANGED <<active, key, exhausted>>
               \/ /\ LaunchFails
                  /\ ScheduleRestart(attempts[s] + 1)
       ELSE /\ timer' = [timer EXCEPT ![s] = "none"]
            /\ UNCHANGED <<panelVars, run, attempts, active, key, exhausted,
                           runVars, procVars, threadVars>>
    /\ UNCHANGED <<session, sessions, armed, enabled, profile>>

-----------------------------------------------------------------------------
(* The configure thread of run r.                                          *)

GoTo(t, point) ==
    /\ pc' = [pc EXCEPT ![t] = point]
    /\ UNCHANGED target

\* Panel._send: the command reaches a process that is current and alive
Reaches(r) == r = run /\ ~cancel[r] /\ Alive(r)

Moves(r) ==
    UNCHANGED <<panelVars, run, session, sessions, sessionVars, sessionOf, cancel, expected,
                ready, started, exited, reason, entry, runKey, runProfile, asked, pipe>>

SendProbe(r) ==
    /\ pc[r] = "send_probe"
    /\ IF Reaches(r)
       THEN /\ proc' = [proc EXCEPT ![r] = "probing"]
            /\ GoTo(r, "await_ready") /\ UNCHANGED outcome
       ELSE /\ GoTo(r, IF cancel[r] THEN "done" ELSE "send_failed")
            /\ outcome' = [outcome EXCEPT ![r] = "probe_timeout"]
            /\ UNCHANGED proc
    /\ UNCHANGED startSent /\ Moves(r)

SendStart(r) ==
    /\ pc[r] = "send_start"
    /\ IF Reaches(r)
       THEN /\ proc' = [proc EXCEPT ![r] = "ordered"]
            /\ GoTo(r, "await_started") /\ UNCHANGED outcome
       ELSE /\ GoTo(r, IF cancel[r] THEN "done" ELSE "send_failed")
            /\ outcome' = [outcome EXCEPT ![r] = "start_timeout"]
            /\ UNCHANGED proc
    /\ UNCHANGED startSent /\ Moves(r)

\* Panel._await returns True
AwaitOver(r) ==
    /\ \/ pc[r] = "await_ready" /\ ready[r] # "no" /\ GoTo(r, "decide")
       \/ pc[r] = "await_started" /\ started[r] /\ GoTo(r, "telemetry")
    /\ UNCHANGED <<proc, outcome, startSent>> /\ Moves(r)

AwaitFails_NoDeadline(r) ==
    /\ pc[r] \in {"await_ready", "await_started"} /\ cancel[r]
    /\ GoTo(r, IF cancel[r] THEN "done" ELSE "timed_out")
    /\ outcome' = [outcome EXCEPT ![r] =
                     IF pc[r] = "await_ready" THEN "probe_timeout" ELSE "start_timeout"]
    /\ UNCHANGED <<proc, startSent>> /\ Moves(r)
\* Panel._await returns False: the run is cancelled, or the 20 s are over
AwaitFails(r) ==
    /\ pc[r] \in {"await_ready", "await_started"}
    /\ GoTo(r, IF cancel[r] THEN "done" ELSE "timed_out")
    /\ outcome' = [outcome EXCEPT ![r] =
                     IF pc[r] = "await_ready" THEN "probe_timeout" ELSE "start_timeout"]
    /\ UNCHANGED <<proc, startSent>> /\ Moves(r)

\* The probe is over: not supported, complete, or on to the start commands
Decide(r) ==
    /\ pc[r] = "decide"
    /\ \/ /\ ready[r] = "novideo"
          /\ GoTo(r, "unsupported") /\ outcome' = [outcome EXCEPT ![r] = "unsupported_input"]
          /\ UNCHANGED <<phase, startSent>>
       \/ /\ ready[r] = "video" /\ sessionOf[r] = 0
          /\ GoTo(r, "complete") /\ outcome' = [outcome EXCEPT ![r] = "probe_complete"]
          /\ UNCHANGED <<phase, startSent>>
       \/ /\ ready[r] = "video" /\ sessionOf[r] # 0
          /\ IF r # run \/ cancel[r]
             THEN GoTo(r, "done") /\ UNCHANGED <<phase, startSent>>
             ELSE /\ phase' = "starting"
                  /\ startSent' = [startSent EXCEPT ![r] = TRUE]
                  /\ GoTo(r, "send_start")
          /\ UNCHANGED outcome
    /\ UNCHANGED <<signal, encoding, closing, revision, preview, run, session, sessions,
                   sessionVars, sessionOf, cancel, expected, ready, started, exited, reason,
                   entry, runKey, runProfile, procVars>>

\* _monitor_telemetry writes to the process and reads it, and ends with the run.
TelemetryEnds(r) ==
    /\ pc[r] = "telemetry"
    /\ GoTo(r, "done")
    /\ UNCHANGED <<proc, outcome, startSent>> /\ Moves(r)

\* Panel._finish, first critical section.  It does not set run.cancel.
FinishBegin(r) ==
    /\ pc[r] \in FinishPoints
    /\ IF r # run \/ cancel[r]
       THEN /\ GoTo(r, "done")
            /\ UNCHANGED <<phase, expected, reason, active, key>>
       ELSE /\ phase' = "stopping"
            /\ expected' = [expected EXCEPT ![r] = TRUE]
            /\ reason' = [reason EXCEPT ![r] = outcome[r]]
            /\ CancelSession
            /\ GoTo(r, "stop_lock")
    /\ UNCHANGED <<signal, encoding, closing, revision, preview, run, session, sessions,
                   armed, enabled, exhausted, attempts, profile, timer, sessionOf, cancel,
                   ready, startSent, started, exited, entry, runKey, runProfile, procVars,
                   outcome>>

Settles_AnyReason(r) == r = run
Settles(r) == r = run /\ reason[r] = outcome[r]

\* Panel._finish, second critical section
FinishEnd(r) ==
    /\ r \in Runs /\ pc[r] = "settle"
    /\ IF Settles(r)
       THEN /\ phase' = IF outcome[r] = "probe_complete" THEN "idle" ELSE "error"
            /\ encoding' = FALSE
            /\ signal' = IF outcome[r] = "probe_complete" THEN signal ELSE "stopped"
       ELSE UNCHANGED <<phase, encoding, signal>>
    /\ GoTo(r, "done")
    /\ UNCHANGED <<closing, revision, preview, run, session, sessions, sessionVars, runVars,
                   procVars, outcome>>

-----------------------------------------------------------------------------
(* Panel._terminate, run by a configure thread or by a caller of stop().   *)

Target(t) == IF t \in Runs THEN t ELSE target[t]
StopLockFree(r) == \A t \in Threads : Target(t) = r => pc[t] \notin HoldsStopLock

Terminating == UNCHANGED <<panelVars, run, session, sessions, sessionVars, sessionOf, ready,
                           startSent, started, exited, reason, entry, runKey, runProfile,
                           proc, pipe, outcome>>

\* Takes run.stop_lock and writes "quit"
TerminateBegin(t) ==
    LET r == Target(t) IN
    /\ pc[t] = "stop_lock" /\ StopLockFree(r)
    /\ expected' = [expected EXCEPT ![r] = TRUE]
    /\ cancel' = [cancel EXCEPT ![r] = TRUE]
    /\ IF Alive(r)
       THEN /\ asked' = [asked EXCEPT ![r] = IF @ = "no" THEN "quit" ELSE @]
            /\ GoTo(t, "wait_quit")
       ELSE GoTo(t, "settle") /\ UNCHANGED asked
    /\ Terminating

\* process.wait returns.  run.exited.wait(2) follows: it changes nothing and may
\* time out, so whether the collector is through when it returns is left open.
ProcessGone(t) ==
    /\ pc[t] \in {"wait_quit", "wait_term", "wait_kill"} /\ ~Alive(Target(t))
    /\ GoTo(t, "settle")
    /\ UNCHANGED <<expected, cancel, asked>> /\ Terminating

\* process.wait times out: SIGTERM after 8 s, SIGKILL after 2 more, and after
\* another 2 an exception that leaves _terminate and its caller
Escalate(t) ==
    LET r == Target(t) IN
    /\ pc[t] \in {"wait_quit", "wait_term", "wait_kill"} /\ Alive(r)
    /\ \/ pc[t] = "wait_quit" /\ GoTo(t, "wait_term") /\ asked' = [asked EXCEPT ![r] = "term"]
       \/ pc[t] = "wait_term" /\ GoTo(t, "wait_kill") /\ asked' = [asked EXCEPT ![r] = "kill"]
       \/ /\ pc[t] = "wait_kill" /\ KillMayTimeOut
          /\ GoTo(t, Rest(t))
          /\ UNCHANGED asked
    /\ UNCHANGED <<expected, cancel>> /\ Terminating

-----------------------------------------------------------------------------
(* The encoder process.                                                    *)

Environment == UNCHANGED <<panelVars, run, session, sessions, sessionVars, runVars, asked,
                           threadVars>>

\* What the process may print next, and where that leaves it.  Its input speaks
\* only between "start" and "stopped (", which is the last it says.
AfterLine(state, l) ==
    CASE l \in {"video", "novideo"} /\ state = "probing" -> "probed"
      [] l = "started" /\ state = "ordered" -> "encoding"
      [] l = "started" /\ state = "ordered_over" -> "encoding_over"
      [] l \in {"receiving", "retrying"} /\ state \in {"ordered", "encoding"} -> state
      [] l = "changed" /\ state = "ordered" -> "ordered_over"
      [] l = "changed" /\ state = "encoding" -> "encoding_over"
      [] OTHER -> "none"
Emit(r, l) ==
    /\ l \in Says /\ Alive(r) /\ Len(pipe[r]) < PipeBound
    /\ AfterLine(proc[r], l) # "none"
    /\ proc' = [proc EXCEPT ![r] = AfterLine(@, l)]
    /\ pipe' = [pipe EXCEPT ![r] = Append(@, l)]
    /\ Environment

\* The process ends: by itself at any moment, or because it was asked to
ProcessExit(r) ==
    /\ Alive(r)
    /\ proc' = [proc EXCEPT ![r] = IF asked[r] = "no" THEN "crashed" ELSE "ended"]
    /\ UNCHANGED pipe /\ Environment

-----------------------------------------------------------------------------
(* The collector thread of run r: _line for every line, then the end.      *)

NextLine_StopsReading(r, l) ==
    /\ ~exited[r] /\ ~cancel[r] /\ pipe[r] # <<>> /\ Head(pipe[r]) = l
    /\ pipe' = [pipe EXCEPT ![r] = Tail(@)]
    /\ UNCHANGED <<closing, revision, preview, run, session, sessions, enabled, exhausted,
                   attempts, profile, timer, sessionOf, cancel, expected, startSent, exited,
                   entry, runKey, runProfile, proc, asked, threadVars>>
NextLine(r, l) ==
    /\ ~exited[r] /\ pipe[r] # <<>> /\ Head(pipe[r]) = l
    /\ pipe' = [pipe EXCEPT ![r] = Tail(@)]
    /\ UNCHANGED <<closing, revision, preview, run, session, sessions, enabled, exhausted,
                   attempts, profile, timer, sessionOf, cancel, expected, startSent, exited,
                   entry, runKey, runProfile, proc, asked, threadVars>>

Heeded_Cancelled(r) == r = run
Heeded(r) == r = run /\ ~cancel[r]

\* VIDEO and "Encoder outputs:" count even after a cancellation; the first wins.
LineReady(r) ==
    /\ \E l \in {"video", "novideo"} :
          /\ NextLine(r, l)
          /\ ready' = IF r = run THEN [ready EXCEPT ![r] = l] ELSE ready
    /\ UNCHANGED <<phase, signal, encoding, active, armed, key, started, reason>>

\* "Encoding started"
LineStarted(r) ==
    /\ NextLine(r, "started")
    /\ IF Heeded(r) /\ startSent[r]
       THEN /\ armed' = [s \in Sessions |->
                            armed[s] \/ (s = session /\ s = sessionOf[r] /\ active[s])]
            /\ encoding' = TRUE
            /\ phase' = CASE signal = "stopped" -> phase
                          [] signal = "reconnecting" -> "reconnecting"
                          [] OTHER -> "running"
            /\ started' = [started EXCEPT ![r] = TRUE]
       ELSE UNCHANGED <<armed, encoding, phase, started>>
    /\ UNCHANGED <<signal, active, key, ready, reason>>

\* "URL input: ... receiving video" and "... retrying in"
LineSignal(r) ==
    /\ \/ /\ NextLine(r, "receiving")
          /\ IF Heeded(r)
             THEN /\ signal' = "receiving"
                  /\ phase' = IF encoding THEN "running" ELSE phase
             ELSE UNCHANGED <<signal, phase>>
       \/ /\ NextLine(r, "retrying")
          /\ IF Heeded(r)
             THEN /\ signal' = "reconnecting"
                  /\ phase' = IF encoding THEN "reconnecting" ELSE phase
             ELSE UNCHANGED <<signal, phase>>
    /\ UNCHANGED <<encoding, active, armed, key, started, ready, reason>>

\* "URL input: ... stopped (": the source changed format, the session is over
LineChanged(r) ==
    /\ NextLine(r, "changed")
    /\ IF Heeded(r)
       THEN /\ CancelSession
            /\ reason' = [reason EXCEPT ![r] = "unsupported_input"]
            /\ signal' = "stopped" /\ phase' = "error"
       ELSE UNCHANGED <<active, key, reason, signal, phase>>
    /\ UNCHANGED <<encoding, armed, started, ready>>

\* End of file: the process is reaped and the last critical section runs.
CollectExit(r) ==
    /\ ~exited[r] /\ pipe[r] = <<>> /\ proc[r] \in {"crashed", "ended"}
    /\ cancel' = [cancel EXCEPT ![r] = TRUE]
    /\ runKey' = [runKey EXCEPT ![r] = FALSE]
    /\ exited' = [exited EXCEPT ![r] = TRUE]
    /\ IF r = run
       THEN /\ entry' = [entry EXCEPT ![r] = IF reason[r] = "none" THEN "process_exit"
                                                                   ELSE reason[r]]
            /\ preview' = FALSE /\ encoding' = FALSE
            /\ IF expected[r]
               THEN UNCHANGED <<phase, signal, active, key, exhausted, timer>>
               ELSE /\ signal' = "stopped"
                    /\ ScheduleRestart(IF session = 0 THEN 0 ELSE attempts[session])
       ELSE UNCHANGED <<entry, preview, encoding, phase, signal, active, key, exhausted, timer>>
    /\ UNCHANGED <<closing, revision, run, session, sessions, armed, enabled, attempts,
                   profile, sessionOf, expected, ready, startSent, started, reason,
                   runProfile, procVars, threadVars>>

-----------------------------------------------------------------------------
Requests ==
    \/ \E auto \in BOOLEAN, k \in Keys : Start(auto, k)
    \/ \E k \in Keys : Probe(k)
    \/ SaveConfig
    \/ StartPreview
    \/ StopPreview
    \/ \E t \in Callers : Close(t) \/ StopBegin(t)

Retrying(s) == TimerFires(s) \/ TimerCancelled(s) \/ Restart(s)

Configuring(r) ==
    \/ SendProbe(r) \/ SendStart(r) \/ AwaitOver(r) \/ AwaitFails(r) \/ Decide(r)
    \/ TelemetryEnds(r) \/ FinishBegin(r) \/ FinishEnd(r)

Stopping(t) ==
    TerminateBegin(t) \/ ProcessGone(t) \/ Escalate(t) \/ StopEnd(t)

Collecting(r) ==
    \/ LineReady(r) \/ LineStarted(r) \/ LineSignal(r) \/ LineChanged(r) \/ CollectExit(r)

Next ==
    \/ Requests
    \/ \E s \in Sessions : Retrying(s)
    \/ \E r \in Runs : Configuring(r) \/ Collecting(r) \/ ProcessExit(r)
    \/ \E r \in Runs, l \in Lines : Emit(r, l)
    \/ \E t \in Threads : Stopping(t)

Spec == Init /\ [][Next]_vars

-----------------------------------------------------------------------------
(* Safety.                                                                 *)

\* There is never more than one encoder process: Start, Probe and a retry wait
\* until the previous run has been collected (Panel._busy, Panel._launch).
OneEncoder == \A p, q \in Runs : Alive(p) /\ Alive(q) => p = q

\* A session that counts as active, and so keeps the panel busy, always has
\* somebody who will end it: an uncollected run or a pending restart thread.
\* Otherwise Start, Probe and save would answer 409 for ever.
ActiveSessionIsDriven ==
    session # 0 /\ active[session] /\ ~closing =>
        \/ run # 0 /\ sessionOf[run] = session /\ ~exited[run]
        \/ timer[session] # "none"

\* "restart_wait" means a restart to come and no live process (CONTRACT.md): the
\* last run is collected and an armed, active session has its restart thread.
RestartWaitHasTimer ==
    phase = "restart_wait" /\ ~closing =>
        /\ run # 0 /\ exited[run] /\ ~Alive(run)
        /\ session # 0 /\ active[session] /\ armed[session] /\ enabled[session]
        /\ timer[session] # "none"

\* Once nothing is going on, no passphrase is left in a Session or in a Run,
\* whichever way the last operation ended (_cancel_session, _collect).
KeysDropped ==
    ~Busy => /\ \A s \in Sessions : ~key[s]
             /\ \A r \in Runs : ~runKey[r]

\* A session launches the encoder once and then at most once per attempt, also
\* when an attempt cannot create the process: the budget never renews itself.
Launches(s) == {r \in 1..run : sessionOf[r] = s}
BudgetRespected ==
    \A s \in 1..sessions :
        /\ Cardinality(Launches(s)) <= attempts[s] + 1
        /\ exhausted[s] => attempts[s] = MaxAttempts /\ ~active[s]

\* The encoder runs, and a pending retry will run, the profile that the panel
\* shows: save_config is refused as long as either can happen.
ProfileShownIsRun ==
    /\ run # 0 /\ ~exited[run] => runProfile[run] = revision
    /\ session # 0 /\ active[session] => profile[session] = revision

\* The exit history is true of what it says.  A death that it calls unexpected was
\* unprompted, with no reason but its own or the end of the input; one that it calls
\* expected has the reason of whoever asked: the closing of the panel, the end of a
\* mere probe, or the step that did not succeed.  Not every unprompted death is
\* called unexpected: one first noticed by _send counts as the timeout of that step
\* (see ArmedSessionEndsAsDocumented), and one just before a Stop as that Stop's.
ExitIsExplained ==
    \A r \in Runs : exited[r] =>
        /\ proc[r] = "ended" => expected[r]
        /\ ~expected[r] => entry[r] \in {"process_exit", "unsupported_input"}
        /\ expected[r] => entry[r] \notin {"none", "process_exit"}
        /\ entry[r] = "panel_shutdown" => closing
        /\ entry[r] = "probe_complete" => sessionOf[r] = 0
        /\ entry[r] = "probe_timeout" => ~startSent[r]
        /\ entry[r] = "start_timeout" => startSent[r]

\* No preview process outlives the encoder it shows.
PreviewHasEncoder == preview => run # 0 /\ ~exited[run]

\* An operation in progress has a run: the phases in which the panel says that
\* something runs are never shown over a collected process, but for the
\* moment in which _finish has yet to settle the outcome, which it never does
\* if even the wait after SIGKILL timed out.
ActivePhaseHasRun ==
    phase \in {"probing", "starting", "running", "reconnecting"} =>
        run # 0 /\ (exited[run] => pc[run] \in StopPoints \/ asked[run] = "kill")

-----------------------------------------------------------------------------
(* What a step may never do.                                               *)

\* After close() has begun nothing launches an encoder any more.
NoLaunchWhenClosing == [][closing => run' = run]_vars

\* A cancelled session stays cancelled and launches nothing: Stop wins over a
\* restart thread that has already left its wait (Panel._restart).
CancelledStaysDown ==
    [][\A s \in 1..sessions : ~active[s] =>
          ~active'[s] /\ (run' # run => sessionOf'[run'] # s)]_vars

\* "idle" is left only at an operator's request: no late result of a thread of
\* an earlier operation moves a panel that has come to rest.  One case is left
\* out: a line that _finish lets through after it has set "stopping" (see
\* TimeoutIsTerminal) lets a save in before _finish has settled.
LateLine(r) == started[r] \/ outcome[r] = "unsupported_input"
IdleIsStable ==
    [][phase = "idle" /\ phase' # "idle" =>
          \/ \E auto \in BOOLEAN, k \in Keys : Start(auto, k)
          \/ \E k \in Keys : Probe(k)
          \/ \E t \in Callers : StopBegin(t)
          \/ \E r \in Runs : FinishEnd(r) /\ LateLine(r)]_vars

\* A panel at rest becomes busy only by a Start or a Probe, which Channels.action
\* serialises: no late thread takes up the ports of a channel behind its back
\* (what Channels.tla assumes of the operation of each of its panels).
QuietUntilAsked ==
    [][~Busy /\ Busy' =>
          \/ \E auto \in BOOLEAN, k \in Keys : Start(auto, k)
          \/ \E k \in Keys : Probe(k)]_vars

\* CONTRACT.md, "Recupero dopo crash": once armed, a session that may still
\* retry ends only by Stop, by the exhaustion of its budget, by an explicit
\* timeout of the probe or of the start, or because the source is not (or no
\* longer) supported; a crash during the probe of a retry uses the budget.
Documented(s) ==
    \/ \E t \in Callers : StopBegin(t)
    \/ exhausted'[s]
    \/ \E r \in Runs : pc[r] \in {"timed_out", "unsupported"} /\ FinishBegin(r)
    \/ \E r \in Runs : LineChanged(r)
ArmedSessionEndsAsDocumented ==
    [][\A s \in Sessions :
          s = session /\ CanRetry /\ ~active'[s] => Documented(s)]_vars

\* CONTRACT.md, "Recupero dopo crash": "un timeout esplicito del probe o
\* dell'avvio e' terminale".  Once _finish has declared the timeout of the
\* current run, the panel does not show that run as running again.
TimeoutIsTerminal ==
    [][\A r \in Runs :
          r = run /\ run' = run /\ reason[r] \in {"probe_timeout", "start_timeout"} =>
              phase' = phase \/ phase' \notin {"running", "reconnecting"}]_vars

-----------------------------------------------------------------------------
(* Liveness.  Every thread that can take a step eventually does; a deadline *)
(* that nothing else ends is eventually over; a process sent SIGKILL dies. *)
(* Nothing is assumed of the operator, or of an encoder that may hang.     *)

ConfigureThread(r) == Configuring(r) \/ Stopping(r)
CallerThread(t) == Stopping(t) \/ (t \in Closers /\ StopBegin(t))
Fairness ==
    /\ \A s \in Sessions : WF_vars(Retrying(s))
    /\ \A r \in Runs : /\ WF_vars(ConfigureThread(r)) /\ WF_vars(Collecting(r))
                       /\ WF_vars(asked[r] = "kill" /\ ProcessExit(r))
    /\ \A t \in Callers : WF_vars(CallerThread(t))
FairSpec == Spec /\ Fairness

\* An operation that waits for the encoder is not stuck in its phase.
PhaseMovesOn ==
    \A p \in {"probing", "starting", "restart_wait", "stopping"} :
        phase = p ~> phase # p

\* Closing the panel ends the encoder, and for good.
CloseEndsEncoder == closing ~> [](\A r \in Runs : ~Alive(r))

\* A run that dies is collected, so the panel does not stay busy with it.
DeathIsCollected ==
    \A r \in Runs : proc[r] \in {"crashed", "ended"} ~> exited[r]
=============================================================================
