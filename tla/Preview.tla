------------------------------ MODULE Preview -------------------------------
(***************************************************************************)
(* webpanel/preview.py: the FFmpeg that turns the output into pictures,    *)
(* its reader thread, and the threads that start and stop it: start under  *)
(* Panel.lock (Panel.start_preview), stop under Panel.lock (Panel.stop,    *)
(* Panel._collect) or without it (the preview-stop request).  A step is a  *)
(* block under Preview.lock or one wait.                                   *)
(***************************************************************************)
EXTENDS Naturals, FiniteSets

CONSTANTS
    Callers,    \* threads of the panel inside Preview
    MaxFfmpeg   \* bound: processes started

ASSUME PreviewConstants == IsFiniteSet(Callers) /\ "nobody" \notin Callers /\ MaxFfmpeg \in Nat \ {0}

None == 0
Processes == 1..MaxFfmpeg

VARIABLES
    panelLock,          \* who holds Panel.lock, for more than a step
    lifecycle,          \* who holds Preview.lifecycle
    job, step,          \* of each caller: start or stop, and how far it is
    held,               \* the process that the thread inside ends, or has just started
    process,            \* Preview.process
    frame,              \* the process that Preview.frame shows
    ffmpeg, reader,     \* of each process: it, and its reader thread
    inFlight            \* a picture it wrote and its reader has not shown yet

lockVars == <<panelLock, lifecycle>>
callerVars == <<job, step, held>>
processVars == <<ffmpeg, reader, inFlight>>
previewVars == <<lockVars, callerVars, process, frame, processVars>>

PreviewTypeOK ==
    /\ panelLock \in Callers \cup {"nobody"} /\ lifecycle \in Callers \cup {"nobody"}
    /\ job \in [Callers -> {"none", "start", "stop"}]
    /\ step \in [Callers -> {"out", "lifecycle", "forget", "kill", "join", "launch", "install", "read",
                         "leave", "raise"}]
    /\ held \in Processes \cup {None}
    /\ process \in Processes \cup {None} /\ frame \in Processes \cup {None}
    /\ ffmpeg \in [Processes -> {"none", "alive", "killed", "dead"}]
    /\ reader \in [Processes -> {"none", "reading", "ending", "gone"}]
    /\ inFlight \in [Processes -> BOOLEAN]

PreviewInit ==
    /\ panelLock = "nobody" /\ lifecycle = "nobody"
    /\ job = [c \in Callers |-> "none"] /\ step = [c \in Callers |-> "out"] /\ held = None
    /\ process = None /\ frame = None
    /\ ffmpeg = [p \in Processes |-> "none"] /\ reader = [p \in Processes |-> "none"]
    /\ inFlight = [p \in Processes |-> FALSE]

AliveNow(p) == p # None /\ ffmpeg[p] = "alive"
GoesTo(c, s) == step' = [step EXCEPT ![c] = s] /\ UNCHANGED job

-----------------------------------------------------------------------------
(* start() and stop()                                                       *)

Calls(c, j, locked) ==
    /\ job[c] = "none" /\ job' = [job EXCEPT ![c] = j]
    /\ step' = [step EXCEPT ![c] = "lifecycle"]
    /\ IF locked THEN panelLock = "nobody" /\ panelLock' = c ELSE UNCHANGED panelLock
    /\ UNCHANGED <<lifecycle, held, process, frame, processVars>>
Request(c) == Calls(c, "start", TRUE) \/ Calls(c, "stop", TRUE) \/ Calls(c, "stop", FALSE)

Enters(c) ==
    /\ step[c] = "lifecycle" /\ lifecycle = "nobody" /\ lifecycle' = c
    /\ GoesTo(c, IF job[c] = "start" /\ AliveNow(process) THEN "leave" ELSE "forget")
    /\ UNCHANGED <<panelLock, held, process, frame, processVars>>

\* _stop: forget the process and its picture, ...
Forgets(c) ==
    /\ step[c] = "forget"
    /\ GoesTo(c, IF AliveNow(process) THEN "kill" ELSE "join") /\ held' = process
    /\ process' = None /\ frame' = None
    /\ UNCHANGED <<lockVars, processVars>>

\* ... terminate it, kill it after a second, give up by an exception two
\* seconds later, ...
Kills_TermOnly(c) ==
    /\ step[c] = "kill"
    /\ ffmpeg' \in {ffmpeg, [ffmpeg EXCEPT ![held] = "dead"]}
    /\ GoesTo(c, "join")
    /\ UNCHANGED <<lockVars, held, process, frame, reader, inFlight>>
Kills(c) ==
    /\ step[c] = "kill"
    /\ \/ ffmpeg' = [ffmpeg EXCEPT ![held] = "dead"] /\ GoesTo(c, "join")
       \/ ffmpeg' = [ffmpeg EXCEPT ![held] = "killed"] /\ GoesTo(c, "raise")
    /\ UNCHANGED <<lockVars, held, process, frame, reader, inFlight>>

\* ... and give its reader two seconds: it may well go on
JoinsReader(c) ==
    /\ step[c] = "join"
    /\ GoesTo(c, IF job[c] = "start" THEN "launch" ELSE "leave")
    /\ UNCHANGED <<lockVars, held, process, frame, processVars>>

\* The rest of start(): the new FFmpeg, which may die or write at once, is not the
\* preview until it is noted under Preview.lock, and has no reader until later still.
LaunchesPreview(c) ==
    /\ step[c] = "launch"
    /\ \/ \E p \in Processes :
            /\ ffmpeg[p] = "none" /\ \A q \in Processes : ffmpeg[q] = "none" => q >= p
            /\ ffmpeg' = [ffmpeg EXCEPT ![p] = "alive"] /\ held' = p
            /\ GoesTo(c, "install")
       \/ GoesTo(c, "raise") /\ UNCHANGED <<ffmpeg, held>>
    /\ UNCHANGED <<lockVars, process, frame, reader, inFlight>>
InstallsPreview(c) ==
    /\ step[c] = "install" /\ GoesTo(c, "read")
    /\ process' = held
    /\ UNCHANGED <<lockVars, held, frame, processVars>>
StartsReader(c) ==
    /\ step[c] = "read" /\ GoesTo(c, "leave")
    /\ reader' = [reader EXCEPT ![held] = "reading"]
    /\ UNCHANGED <<lockVars, held, process, frame, ffmpeg, inFlight>>

Leaves(c) ==
    /\ step[c] \in {"leave", "raise"}
    /\ lifecycle' = IF lifecycle = c THEN "nobody" ELSE lifecycle
    /\ panelLock' = IF panelLock = c THEN "nobody" ELSE panelLock
    /\ job' = [job EXCEPT ![c] = "none"] /\ step' = [step EXCEPT ![c] = "out"]
    /\ held' = IF lifecycle = c THEN None ELSE held
    /\ UNCHANGED <<process, frame, processVars>>

Caller(c) == \/ Enters(c) \/ Forgets(c) \/ Kills(c) \/ JoinsReader(c)
             \/ LaunchesPreview(c) \/ InstallsPreview(c) \/ StartsReader(c) \/ Leaves(c)

-----------------------------------------------------------------------------
(* _read(process), and FFmpeg, which writes and dies as it likes            *)

ReaderShows_Unchecked(p) ==
    /\ reader[p] = "reading" /\ inFlight[p]
    /\ inFlight' = [inFlight EXCEPT ![p] = FALSE]
    /\ frame' = p
    /\ UNCHANGED <<lockVars, callerVars, process, ffmpeg, reader>>
ReaderShows(p) ==
    /\ reader[p] = "reading" /\ inFlight[p]
    /\ inFlight' = [inFlight EXCEPT ![p] = FALSE]
    /\ IF process = p THEN frame' = p /\ UNCHANGED reader
       ELSE reader' = [reader EXCEPT ![p] = "ending"] /\ UNCHANGED frame
    /\ UNCHANGED <<lockVars, callerVars, process, ffmpeg>>

ReaderEnds(p) ==
    /\ \/ /\ reader[p] = "reading" /\ ~inFlight[p] /\ ffmpeg[p] \in {"dead", "killed"}
          /\ reader' = [reader EXCEPT ![p] = "ending"] /\ UNCHANGED frame
       \/ /\ reader[p] = "ending" /\ ffmpeg[p] = "dead"     \* process.wait()
          /\ reader' = [reader EXCEPT ![p] = "gone"]
          /\ IF process = p THEN frame' = None ELSE UNCHANGED frame
    /\ UNCHANGED <<lockVars, callerVars, process, ffmpeg, inFlight>>

FfmpegRuns(p) ==
    /\ \/ /\ ffmpeg[p] = "alive" /\ ~inFlight[p] /\ reader[p] \in {"none", "reading"}
          /\ inFlight' = [inFlight EXCEPT ![p] = TRUE] /\ UNCHANGED ffmpeg
       \/ /\ ffmpeg[p] \in {"alive", "killed"}
          /\ ffmpeg' = [ffmpeg EXCEPT ![p] = "dead"] /\ UNCHANGED inFlight
    /\ UNCHANGED <<lockVars, callerVars, process, frame, reader>>

PreviewRuns ==
    \E p \in Processes : ReaderShows(p) \/ ReaderEnds(p) \/ FfmpegRuns(p)
PreviewNext ==
    \/ \E c \in Callers : Request(c) \/ Caller(c)
    \/ PreviewRuns

PreviewSpec == PreviewInit /\ [][PreviewNext]_previewVars

-----------------------------------------------------------------------------
\* The picture that state() and jpeg() may show comes from the FFmpeg that is the
\* preview now: a reader that is late never shows one of an FFmpeg that was stopped.
ShownFrameIsCurrent == frame # None => frame = process

\* An FFmpeg that is not Preview.process is dead, was killed, or is in the hands of the
\* thread inside, which stops it or has just started it; so a preview never runs, and
\* receives, beside another.
NoPreviewLeftBehind ==
    \A p \in Processes :
        ffmpeg[p] = "alive" => p = process \/ (p = held /\ \E c \in Callers : step[c] \in {"kill", "install"})
=============================================================================
