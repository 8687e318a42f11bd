------------------------------ MODULE SshRelay ------------------------------
(***************************************************************************)
(* gateway/ssh_relay.py: run(), which starts the NDI sender on another     *)
(* machine over SSH, session after session, feeds it heartbeats and hands  *)
(* its output to a sink inside the container, together with the sender of  *)
(* one session; or the sender alone when it serves SRT itself.             *)
(*                                                                         *)
(* The sender of the session `watched`, any of them, is followed as        *)
(* NdiSender describes it.  The sender of another session is the           *)
(* environment: senders of two sessions share nothing.                     *)
(***************************************************************************)
EXTENDS NdiSender

CONSTANTS MaxSessions   \* bound: SSH sessions

ASSUME SessionsAssumption == MaxSessions \in Nat \ {0}

VARIABLES
    watched,    \* the session whose sender is followed
    relayAt,    \* where run() is
    relayStop,  \* its Event stop
    session,    \* sessions
    ssh, sink,  \* the processes: process and relay
    diagnosing, \* the diagnostics thread reads process.stderr
    output      \* the sender's end has written what was not yet read

relayVars == <<watched, relayAt, relayStop, session, ssh, sink, diagnosing, output>>
vars == <<senderVars, relayVars>>

RelayPlaces == {"head", "upload", "loop", "forward", "finish", "wait", "join", "close", "end", "stopped"}
\* "gone": dead, or killed and about to be
Processes == {"none", "alive", "gone"}
RelayTypeOK ==
    /\ watched \in 1..MaxSessions /\ session \in 0..MaxSessions
    /\ relayAt \in RelayPlaces /\ relayStop \in BOOLEAN /\ output \in BOOLEAN
    /\ diagnosing \in BOOLEAN
    /\ ssh \in Processes /\ sink \in Processes

Init ==
    /\ SenderInit
    /\ watched \in IF srt THEN {1} ELSE 1..MaxSessions
    /\ relayAt = IF srt THEN "stopped" ELSE "head"
    /\ relayStop = FALSE /\ session = 0 /\ ssh = "none" /\ sink = "none" /\ output = FALSE
    /\ diagnosing = FALSE

RelayGoTo(place) == relayAt' = place /\ UNCHANGED <<watched, relayStop>>
Alone == UNCHANGED <<mainVars, runVars, control>>   \* the sender is not touched

-----------------------------------------------------------------------------
(* The loop over sessions.  Pauses are part of the step they follow.        *)

\* A sink is needed: there is one, or docker inspect and docker exec give one,
\* or something raises; then ssh is started, also when a stop came in between
Begins ==
    /\ relayAt = "head" /\ Alone
    /\ \/ relayStop /\ RelayGoTo("end") /\ UNCHANGED <<session, ssh, sink, diagnosing>>
       \/ ~relayStop /\ sink # "alive" /\ sink' = "none" /\ RelayGoTo("head")
          /\ UNCHANGED <<session, ssh, diagnosing>>
       \/ ~relayStop /\ sink' = "alive" /\ RelayGoTo("head") /\ UNCHANGED <<session, ssh, diagnosing>>
       \/ /\ ~relayStop /\ session < MaxSessions
          /\ sink' = "alive" /\ ssh' = "alive" /\ session' = session + 1 /\ RelayGoTo("upload")
          /\ diagnosing' = TRUE
    /\ output' = FALSE
    /\ UNCHANGED beats

\* write_all of the program; the sender starts once it has all of it, and the
\* heartbeat thread with it.  A stop cuts it short: the loop is then not entered.
Uploads ==
    /\ relayAt = "upload"
    /\ \/ /\ ssh = "alive" /\ ~relayStop /\ RelayGoTo("loop")
          /\ beats' = (session = watched)
          /\ at' = IF session = watched THEN "head" ELSE at
          /\ UNCHANGED <<srt, run, raised, stopFile, watchdog, control, runVars>>
       \/ RelayGoTo("finish") /\ Alone /\ UNCHANGED beats
    /\ UNCHANGED <<session, ssh, sink, diagnosing, output>>

\* The heartbeat thread returns at the first write that fails, be it only that
\* the pipe is full at the moment (BlockingIOError)
HeartbeatFails ==
    /\ beats /\ beats' = FALSE /\ Alone /\ UNCHANGED relayVars

\* One turn: stop or the limit of seconds; too long without data; what was read
\* is handed on or is no transport stream; the end of the output
Turns_NoTimeout ==
    /\ relayAt = "loop" /\ Alone
    /\ \/ RelayGoTo("finish") /\ relayStop /\ UNCHANGED output
       \/ RelayGoTo("finish") /\ ~output /\ ssh = "gone" /\ UNCHANGED output
       \/ ~relayStop /\ output /\ output' = FALSE /\ (RelayGoTo("forward") \/ RelayGoTo("finish"))
    /\ UNCHANGED <<beats, session, ssh, sink, diagnosing>>
Turns_IgnoresStop ==
    /\ relayAt = "loop" /\ Alone
    /\ \/ ~output /\ RelayGoTo("finish") /\ UNCHANGED output
       \/ output /\ output' = FALSE /\ (RelayGoTo("forward") \/ RelayGoTo("finish"))
    /\ UNCHANGED <<beats, session, ssh, sink, diagnosing>>
Turns ==
    /\ relayAt = "loop" /\ Alone
    /\ \/ relayStop /\ RelayGoTo("finish") /\ UNCHANGED output
       \/ ~output /\ RelayGoTo("finish") /\ UNCHANGED output
       \/ ~relayStop /\ output /\ output' = FALSE /\ (RelayGoTo("forward") \/ RelayGoTo("finish"))
    /\ UNCHANGED <<beats, session, ssh, sink, diagnosing>>

\* write_all to the sink: done, cut short by stop, refused for eight seconds or
\* broken
Forwards ==
    /\ relayAt = "forward" /\ Alone
    /\ \/ (sink = "alive" \/ relayStop) /\ RelayGoTo("loop")
       \/ RelayGoTo("finish")
    /\ UNCHANGED <<beats, session, ssh, sink, diagnosing, output>>

\* The end of a session, however it came: session_stop and the end of the control
\* pipe, ...
Finishes ==
    /\ relayAt = "finish" /\ Alone /\ RelayGoTo("wait")
    /\ beats' = FALSE
    /\ UNCHANGED <<session, ssh, sink, diagnosing, output>>

\* ... the waits of finish_process, with terminate and kill between them, the last
\* of which may leave run() by an exception, ...
Waits ==
    /\ relayAt = "wait" /\ Alone
    /\ ssh' = "gone" /\ (RelayGoTo("join") \/ RelayGoTo("end"))
    /\ UNCHANGED <<beats, session, sink, diagnosing, output>>

\* ... a second for the heartbeat thread and two for the diagnostics, which may
\* well go on, ...
Joins ==
    /\ relayAt = "join" /\ Alone /\ RelayGoTo("close")
    /\ UNCHANGED <<beats, session, ssh, sink, diagnosing, output>>

\* ... and the close of stdout and stderr.  That of stderr waits for a thread that is
\* inside readline: for as long as any process holds the other end, which sshpass,
\* killed, may leave to its ssh.  Next is another session, or the end of run() if
\* authentication failed.
Closes(found) ==
    /\ relayAt = "close" /\ diagnosing = found /\ Alone
    /\ output' = FALSE /\ diagnosing' = FALSE
    /\ RelayGoTo("head") \/ RelayGoTo("end")
    /\ UNCHANGED <<beats, session, ssh, sink>>

\* The thread comes to the end of stderr; that it did so earlier shows only here
DiagnosticsEnd ==
    /\ relayAt \in {"join", "close"} /\ diagnosing /\ diagnosing' = FALSE
    /\ UNCHANGED <<senderVars, watched, relayAt, relayStop, session, ssh, sink, output>>

\* finish_process(relay)
EndsRelay ==
    /\ relayAt = "end" /\ Alone
    /\ sink' = IF sink = "alive" THEN "gone" ELSE sink
    /\ relayAt' = "stopped" /\ relayStop' = TRUE
    /\ UNCHANGED <<watched, beats, session, ssh, diagnosing, output>>

Relay == \/ Begins \/ Uploads \/ Turns \/ Forwards
         \/ Finishes \/ Waits \/ Joins \/ Closes(FALSE) \/ EndsRelay

-----------------------------------------------------------------------------
(* The world: a signal; processes and the connection that end at any time;  *)
(* the far end, which writes while the FFmpeg of its sender lives.          *)

Signal ==
    /\ ~srt /\ ~relayStop /\ relayStop' = TRUE
    /\ UNCHANGED <<senderVars, watched, relayAt, session, ssh, sink, diagnosing, output>>
SshDies ==
    /\ ssh = "alive" /\ ssh' = "gone"
    /\ UNCHANGED <<senderVars, watched, relayAt, relayStop, session, sink, diagnosing, output>>
SinkDies ==
    /\ sink = "alive" /\ sink' = "gone"
    /\ UNCHANGED <<senderVars, watched, relayAt, relayStop, session, ssh, diagnosing, output>>

FarEndLives == session # watched \/ \E r \in Runs : ffmpeg[r] \in {"alive", "told"}
FarEndWrites ==
    /\ ssh = "alive" /\ relayAt \in {"loop", "forward"} /\ FarEndLives
    /\ ~output /\ output' = TRUE
    /\ UNCHANGED <<senderVars, watched, relayAt, relayStop, session, ssh, sink, diagnosing>>

\* The control pipe of the sender is closed once the relay has closed it or SSH
\* is gone; a connection that is merely lost may never show it
SessionOver ==
    \/ session > watched
    \/ session = watched /\ (ssh # "alive" \/ relayAt \notin {"upload", "loop", "forward", "finish"})
ControlCloses ==
    /\ ~srt /\ control = "open" /\ SessionOver /\ control' = "closed"
    /\ UNCHANGED <<mainVars, runVars, beats, relayVars>>

\* Closes(TRUE): the diagnostics thread is between two lines when stderr is closed
World == \/ Signal \/ SshDies \/ SinkDies \/ FarEndWrites \/ ControlCloses
         \/ DiagnosticsEnd \/ Closes(TRUE)
Quiet == relayAt = "stopped" /\ at \in IF srt THEN {"exited"} ELSE {"absent", "exited"}

Next ==
    \/ (Sender /\ UNCHANGED relayVars)
    \/ Relay \/ HeartbeatFails \/ World
    \/ (Quiet /\ UNCHANGED vars)

\* Threads go on, and a wait for data ends one way or the other: nothing else
\* is asked of processes, connections or networks, nor that anybody closes stderr
Spec ==
    /\ Init /\ [][Next]_vars
    /\ SenderFairness
    /\ WF_vars(Relay)

\* Closing stderr, which another process holds open
Hangs == relayAt = "close" /\ diagnosing

\* A relay that is told to stop ends, whatever its processes and threads are
\* doing, and leaves only what would not die of kill(); the one thing that can keep
\* it is the close of a stderr that another process holds.
RelayEnds == relayStop ~> (relayAt = "stopped" /\ ssh # "alive" /\ sink # "alive") \/ Hangs

\* When the heartbeat thread has returned while its session goes on, the far end
\* stops the sender and the relay comes out of the session and of its clean-up by
\* itself, but for the same close: a contribution never stays connected to a sender
\* that is gone.
SilentSessionEnds ==
    (relayAt = "loop" /\ session = watched /\ ~beats)
        ~> relayAt \in {"head", "end", "stopped"} \/ Hangs
=============================================================================
