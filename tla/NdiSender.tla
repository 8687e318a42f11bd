----------------------------- MODULE NdiSender -----------------------------
(***************************************************************************)
(* gateway/ndi_sender.py: run(), which captures an NDI source and feeds it *)
(* to FFmpeg through BoundedPackets and a writer thread, its watchdog and  *)
(* control reader, and main(), which calls run() again when it serves SRT. *)
(* A step is what one thread does between two points where it waits or     *)
(* where another thread can be seen.                                       *)
(*                                                                         *)
(* Started over SSH the process lives on a control pipe that carries       *)
(* heartbeats; `control` and `beats` are that pipe, seen from this end.    *)
(***************************************************************************)
EXTENDS Naturals, FiniteSets

CONSTANTS
    MaxRuns,    \* bound: calls of run() by main()
    MaxPackets, \* BoundedPackets.queue.maxsize
    MaxBytes,   \* BoundedPackets.max_bytes
    VideoSize, AudioSize    \* bytes of a packet of each track

ASSUME SenderConstants ==
    /\ MaxRuns \in Nat \ {0} /\ MaxPackets \in Nat \ {0} /\ MaxBytes \in Nat
    /\ VideoSize \in Nat /\ AudioSize \in Nat

VARIABLES
    srt,        \* args.srt_port: serve SRT and retry; otherwise run once, over SSH
    at,         \* where main() and run() are
    run,        \* how many times run() was called
    raised,     \* run() is being left by an exception
    stopFile,   \* the stop file says stop
    watchdog,   \* the watchdog thread of the run lives, or none has begun
    control,    \* the control pipe
    beats,      \* heartbeats are still sent through it
    \* of each run: its Event, the list errors, and whether NDI was not closed
    stop, errors, ndi,
    ffmpeg, writer,         \* its FFmpeg and its writer thread
    queued, marker, bytes   \* BoundedPackets: packets by track, the None, bytes

pipeVars == <<control, beats>>
mainVars == <<srt, at, run, raised, stopFile, watchdog>>
queueVars == <<queued, marker, bytes>>
runVars == <<stop, errors, ndi, ffmpeg, writer, queueVars>>
senderVars == <<mainVars, pipeVars, runVars>>

Runs == 1..MaxRuns
Tracks == {"video", "audio"}
Size(k) == IF k = "video" THEN VideoSize ELSE AudioSize
Places == {"absent", "head", "connect", "probe", "loop", "frame", "marker", "join",
           "wait", "terminate", "kill", "rejoin", "release", "returned", "sleep", "exited"}

TypeOK ==
    /\ srt \in BOOLEAN /\ raised \in BOOLEAN /\ stopFile \in BOOLEAN /\ beats \in BOOLEAN
    /\ watchdog \in BOOLEAN
    /\ control \in {"open", "closed"} /\ at \in Places /\ run \in 0..MaxRuns
    /\ stop \in [Runs -> BOOLEAN] /\ errors \in [Runs -> BOOLEAN] /\ ndi \in [Runs -> BOOLEAN]
    /\ ffmpeg \in [Runs -> {"none", "alive", "told", "killed", "dead"}]
    \* a track: a packet taken from the queue and still in the account
    /\ writer \in [Runs -> {"none", "get", "write", "ended"} \cup Tracks]
    /\ queued \in [Runs -> [Tracks -> Nat]]
    /\ marker \in [Runs -> BOOLEAN] /\ bytes \in [Runs -> Nat]

SenderInit ==
    /\ srt \in BOOLEAN /\ at = IF srt THEN "head" ELSE "absent"
    /\ run = 0 /\ raised = FALSE /\ stopFile = FALSE /\ watchdog = TRUE /\ control = "open" /\ beats = FALSE
    /\ stop = [r \in Runs |-> FALSE] /\ errors = [r \in Runs |-> FALSE] /\ ndi = [r \in Runs |-> FALSE]
    /\ ffmpeg = [r \in Runs |-> "none"] /\ writer = [r \in Runs |-> "none"]
    /\ queued = [r \in Runs |-> [k \in Tracks |-> 0]]
    /\ marker = [r \in Runs |-> FALSE] /\ bytes = [r \in Runs |-> 0]

-----------------------------------------------------------------------------
(* BoundedPackets and the writer thread of a run.  put_nowait is one step,  *)
(* under its lock; get() takes the packet under the lock of the queue and   *)
(* corrects the account later, under the other.                             *)

Count(r) == queued[r]["video"] + queued[r]["audio"] + (IF marker[r] THEN 1 ELSE 0)
Fits(r, k) == bytes[r] + Size(k) <= MaxBytes /\ Count(r) < MaxPackets

Put(r, k) ==
    /\ queued' = [queued EXCEPT ![r][k] = @ + 1]
    /\ bytes' = [bytes EXCEPT ![r] = @ + Size(k)]

\* queue.get() returns a packet, or the None once every packet is gone; the
\* None ends the writer, which closes the pipe.  Packets were flushed; only a header
\* that no packet followed may fail now, which is noted in errors when nobody looks
\* at it any more.
WriterGets(r) ==
    /\ writer[r] = "get"
    /\ \/ \E k \in Tracks :
            /\ queued[r][k] > 0
            /\ queued' = [queued EXCEPT ![r][k] = @ - 1]
            /\ writer' = [writer EXCEPT ![r] = k]
            /\ UNCHANGED marker
       \/ /\ marker[r] /\ \A k \in Tracks : queued[r][k] = 0
          /\ marker' = [marker EXCEPT ![r] = FALSE]
          /\ writer' = [writer EXCEPT ![r] = "ended"]
          /\ UNCHANGED queued
    /\ UNCHANGED <<mainVars, pipeVars, stop, errors, ndi, ffmpeg, bytes>>

WriterAccounts(r) ==
    /\ writer[r] \in Tracks
    /\ bytes' = [bytes EXCEPT ![r] = @ - Size(writer[r])]
    /\ writer' = [writer EXCEPT ![r] = "write"]
    /\ UNCHANGED <<mainVars, pipeVars, stop, errors, ndi, ffmpeg, queued, marker>>

\* FFmpeg takes the packet (it may well stall), or the pipe is broken
WriterWrites(r) ==
    /\ writer[r] = "write"
    /\ \/ /\ ffmpeg[r] \in {"alive", "told", "killed"}
          /\ writer' = [writer EXCEPT ![r] = "get"]
          /\ UNCHANGED <<stop, errors>>
       \/ /\ ffmpeg[r] \in {"dead", "killed"}
          /\ writer' = [writer EXCEPT ![r] = "ended"]
          /\ errors' = [errors EXCEPT ![r] = TRUE]
          /\ stop' = [stop EXCEPT ![r] = TRUE]
    /\ UNCHANGED <<mainVars, pipeVars, ndi, ffmpeg, queueVars>>

FfmpegDies(r) ==
    /\ ffmpeg[r] \in {"alive", "told"}
    /\ ffmpeg' = [ffmpeg EXCEPT ![r] = "dead"]
    /\ UNCHANGED <<mainVars, pipeVars, stop, errors, ndi, writer, queueVars>>

-----------------------------------------------------------------------------
(* run().  Whatever raises, `finally` sets stop and closes down what there  *)
(* is: the end marker, two seconds for the writer, then for FFmpeg, then    *)
(* terminate and kill with two seconds each.                                *)

Within(place) == at = place
GoTo(place) == at' = place /\ UNCHANGED <<srt, run, stopFile, watchdog, raised>>
Leave(e) ==
    /\ at' = IF ffmpeg[run] = "none" THEN "release" ELSE "marker"
    /\ raised' = e
    /\ stop' = [stop EXCEPT ![run] = TRUE]
    /\ UNCHANGED <<srt, run, stopFile, watchdog>>

RunBegins ==
    /\ Within("head") /\ ~stopFile /\ run < MaxRuns
    /\ at' = "connect" /\ run' = run + 1 /\ raised' = FALSE /\ watchdog' = TRUE
    /\ UNCHANGED <<srt, stopFile, pipeVars, runVars>>

\* NDI() and connect(): the source is found, or something raises
Connects ==
    /\ Within("connect")
    /\ \/ ndi' = [ndi EXCEPT ![run] = TRUE] /\ GoTo("probe") /\ UNCHANGED stop
       \/ ndi' \in {ndi, [ndi EXCEPT ![run] = TRUE]} /\ Leave(TRUE)
    /\ UNCHANGED <<pipeVars, errors, ffmpeg, writer, queueVars>>

\* The first frames of both tracks, the timeline and the launch of FFmpeg.  The
\* header that the writer writes first stays in the buffer of the pipe: that
\* succeeds, FFmpeg dead or not.
Probes ==
    /\ Within("probe")
    /\ \/ /\ ~stop[run]
          /\ ffmpeg' = [ffmpeg EXCEPT ![run] = "alive"]
          /\ writer' = [writer EXCEPT ![run] = "get"]
          /\ GoTo("loop") /\ UNCHANGED stop
       \/ Leave(~stop[run]) /\ UNCHANGED <<ffmpeg, writer>>
       \/ Leave(TRUE) /\ UNCHANGED <<ffmpeg, writer>>
    /\ UNCHANGED <<pipeVars, errors, ndi, queueVars>>

LoopTurns ==
    /\ Within("loop")
    /\ \/ stop[run] /\ Leave(errors[run])
       \/ ~stop[run] /\ ffmpeg[run] = "dead" /\ Leave(TRUE)
       \/ ~stop[run] /\ ffmpeg[run] # "dead" /\ GoTo("frame") /\ UNCHANGED stop
    /\ UNCHANGED <<pipeVars, errors, ndi, ffmpeg, writer, queueVars>>

\* A frame, or none in time.  NDI disconnected, a timecode that goes back or
\* jumps (Timeline), another format and a track that stalls all raise, and so
\* does a queue without room.
ReadsFrame_CountsFirst ==
    /\ Within("frame")
    /\ \/ GoTo("loop") /\ UNCHANGED <<stop, queued, bytes>>
       \/ Leave(TRUE) /\ UNCHANGED <<queued, bytes>>
       \/ \E k \in Tracks : Fits(run, k) /\ Put(run, k) /\ GoTo("loop") /\ UNCHANGED stop
       \/ \E k \in Tracks :
            /\ ~Fits(run, k) /\ Leave(TRUE)
            /\ bytes' = [bytes EXCEPT ![run] = @ + Size(k)] /\ UNCHANGED queued
    /\ UNCHANGED <<pipeVars, errors, ndi, ffmpeg, writer, marker>>
ReadsFrame ==
    /\ Within("frame")
    /\ \/ GoTo("loop") /\ UNCHANGED <<stop, queued, bytes>>
       \/ \E k \in Tracks : Fits(run, k) /\ Put(run, k) /\ GoTo("loop") /\ UNCHANGED stop
       \/ Leave(TRUE) /\ UNCHANGED <<queued, bytes>>
    /\ UNCHANGED <<pipeVars, errors, ndi, ffmpeg, writer, marker>>

\* put_nowait(None) finds no room when the queue is full, and nothing comes of it
PutsMarker_Retries ==
    /\ Within("marker")
    /\ \/ /\ Count(run) < MaxPackets /\ marker' = [marker EXCEPT ![run] = TRUE] /\ GoTo("join")
       \/ Count(run) = MaxPackets /\ UNCHANGED <<mainVars, marker>>
    /\ UNCHANGED <<pipeVars, stop, errors, ndi, ffmpeg, writer, queued, bytes>>
PutsMarker ==
    /\ Within("marker")
    /\ marker' = [marker EXCEPT ![run] = Count(run) < MaxPackets]
    /\ GoTo("join")
    /\ UNCHANGED <<pipeVars, stop, errors, ndi, ffmpeg, writer, queued, bytes>>

\* writer.join, which the writer may also outlast
JoinsWriter ==
    /\ \/ Within("join") /\ GoTo("wait")
       \/ Within("rejoin") /\ GoTo("release")
    /\ UNCHANGED <<pipeVars, runVars>>

\* process.wait: FFmpeg is dead, or after two seconds it is told, then killed.
\* A wait that expires after kill() leaves `finally` by an exception.
WaitsFfmpeg_GivesUp ==
    /\ at \in {"wait", "terminate"}
    /\ \/ ffmpeg[run] = "dead" /\ GoTo("rejoin") /\ UNCHANGED ffmpeg
       \/ /\ ffmpeg[run] = "alive" /\ GoTo("terminate")
          /\ ffmpeg' = [ffmpeg EXCEPT ![run] = "told"]
       \/ ffmpeg[run] = "told" /\ GoTo("rejoin") /\ UNCHANGED ffmpeg
    /\ UNCHANGED <<pipeVars, stop, errors, ndi, writer, queueVars>>
WaitsFfmpeg ==
    /\ at \in {"wait", "terminate", "kill"}
    /\ \/ /\ ffmpeg[run] \in {"dead", "killed"} /\ GoTo("rejoin")
          /\ ffmpeg' = [ffmpeg EXCEPT ![run] = "dead"]
       \/ /\ ffmpeg[run] = "alive" /\ GoTo("terminate")
          /\ ffmpeg' = [ffmpeg EXCEPT ![run] = "told"]
       \/ /\ ffmpeg[run] = "told" /\ GoTo("kill")
          /\ ffmpeg' = [ffmpeg EXCEPT ![run] = "killed"]
       \/ /\ ffmpeg[run] = "killed" /\ at' = "returned" /\ raised' = TRUE
          /\ UNCHANGED <<srt, run, stopFile, watchdog, ffmpeg>>
    /\ UNCHANGED <<pipeVars, stop, errors, ndi, writer, queueVars>>

Releases ==
    /\ Within("release") /\ GoTo("returned")
    /\ ndi' = [ndi EXCEPT ![run] = FALSE]
    /\ UNCHANGED <<pipeVars, stop, errors, ffmpeg, writer, queueVars>>

-----------------------------------------------------------------------------
(* main(): one run over SSH; a listener tries again after two seconds,      *)
(* unless the stop file says stop.                                          *)

Ends == \/ Within("head") /\ stopFile
        \/ Within("returned") /\ (~raised \/ ~srt \/ stopFile)
\* a stop file that cannot be read ends main() by an exception
MainEnds ==
    /\ Ends \/ (srt /\ at \in {"head", "returned"})
    /\ GoTo("exited") /\ UNCHANGED <<pipeVars, runVars>>
MainRetries ==
    /\ \/ Within("returned") /\ ~Ends /\ GoTo("sleep")
       \/ Within("sleep") /\ GoTo("head")
    /\ UNCHANGED <<pipeVars, runVars>>

Main == \/ RunBegins \/ Connects \/ Probes \/ LoopTurns \/ ReadsFrame
        \/ PutsMarker \/ JoinsWriter \/ WaitsFfmpeg \/ Releases
        \/ MainEnds \/ MainRetries
\* The writer is a daemon thread: it ends with the process at the latest
Writer(r) == at # "exited" /\ (WriterGets(r) \/ WriterAccounts(r) \/ WriterWrites(r))

-----------------------------------------------------------------------------
(* watch_control and watchdog set the stop event of the run.  Over SSH the  *)
(* end of the control pipe and a late heartbeat do; a heartbeat may be late *)
(* at any time, and is when none is sent any more.  A stop file that cannot  *)
(* be read, or that is removed while it is, ends the watchdog thread of the *)
(* run, of which nobody else hears.                                         *)

Watching == run > 0 /\ at # "exited" /\ ~stop[run]
SetsStop == stop' = [stop EXCEPT ![run] = TRUE]
              /\ UNCHANGED <<mainVars, pipeVars, errors, ndi, ffmpeg, writer, queueVars>>
ControlEnds == Watching /\ ~srt /\ control = "closed" /\ SetsStop
HeartbeatLate == Watching /\ ~srt /\ SetsStop
StopFileSeen == Watching /\ srt /\ watchdog /\ stopFile /\ SetsStop
WatchdogDies ==
    /\ Watching /\ srt /\ watchdog /\ watchdog' = FALSE
    /\ UNCHANGED <<srt, at, run, raised, stopFile, pipeVars, runVars>>
Watchers == ControlEnds \/ HeartbeatLate \/ StopFileSeen \/ WatchdogDies

Operator == ~stopFile /\ srt /\ stopFile' = TRUE
              /\ UNCHANGED <<srt, at, run, raised, watchdog, pipeVars, runVars>>

Sender == Main \/ (\E r \in Runs : Writer(r) \/ FfmpegDies(r)) \/ Watchers \/ Operator

\* The other end of the control pipe: any that starts the program once
Outside ==
    /\ ~srt
    /\ \/ at = "absent" /\ at' = "head" /\ beats' = TRUE /\ UNCHANGED control
       \/ at' = at /\ beats' \in {beats, FALSE} /\ control' \in {control, "closed"}
    /\ UNCHANGED <<srt, run, raised, stopFile, watchdog, runVars>>

SenderSpec == SenderInit /\ [][Sender \/ Outside]_senderVars

\* Each thread goes on; FFmpeg need not
SenderFairness ==
    /\ WF_senderVars(Main)
    /\ WF_senderVars(ControlEnds) /\ WF_senderVars(HeartbeatLate /\ ~beats) /\ WF_senderVars(StopFileSeen)

-----------------------------------------------------------------------------
\* The account of BoundedPackets is what waits in the queue and what the writer
\* has taken and not yet taken off, although put and get change the two under
\* different locks; so it never goes below zero, and with it max_bytes bounds
\* the queue.
Held(r) == IF writer[r] \in Tracks THEN Size(writer[r]) ELSE 0
BytesAccounted ==
    \A r \in Runs :
        /\ bytes[r] = VideoSize * queued[r]["video"] + AudioSize * queued[r]["audio"] + Held(r)
        /\ bytes[r] <= MaxBytes /\ Count(r) <= MaxPackets

\* When main() calls run() again, the run before it has let go of the NDI
\* receiver and of the SRT port: its FFmpeg is dead.  Only one that would not
\* die of kill() within two seconds is left behind.
RunsDoNotOverlap ==
    \A r \in Runs : r < run =>
        /\ ffmpeg[r] \notin {"alive", "told"}
        /\ ndi[r] => ffmpeg[r] = "killed"

\* A sender that is told to stop, or hears no more heartbeats, ends, although
\* FFmpeg may read nothing any more and the queue may have no room for the
\* end marker.  Only a watchdog that died of the stop file no longer sees what it
\* says; the run it watched then goes on until something else ends it.
ToldToStop == at # "absent" /\ IF srt THEN stopFile ELSE control = "closed" \/ ~beats
SenderStops == ToldToStop ~> at = "exited" \/ (srt /\ ~watchdog)
=============================================================================
