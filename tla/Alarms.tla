------------------------------- MODULE Alarms -------------------------------
(***************************************************************************)
(* The alarms of webpanel/monitoring.py: class Alarms, whose evaluate() is *)
(* called with one snapshot of the panel about every second, by the        *)
(* monitor thread and under Panel.lock.  One action is one evaluation.     *)
(*                                                                         *)
(* The code keeps the time at which something began; here that is an age,  *)
(* in seconds, as of the last evaluation, with None for "did not begin"    *)
(* and ages cut off where no rule tells them apart any more.               *)
(***************************************************************************)
EXTENDS Integers, FiniteSets

CONSTANTS
    Codes,      \* bound: the rules of RULES that this instance evaluates
    MaxRun,     \* bound: runs of the encoder, 0 standing for none yet
    MaxLink,    \* bound: connections of the SRT input within a run
    MaxCount,   \* bound: errors or drops counted
    Delays      \* seconds that may pass from one evaluation to the next

Counted == {"udp_errors", "srt_drops"}
Graded == {"srt_rtt", "video_queue"}
Plain == {"encoder_error", "source_missing", "telemetry_missing", "srt_missing"}
AllCodes == Counted \cup Graded \cup Plain \cup {"video_stalled"}

ASSUME AlarmBounds ==
    /\ Codes \subseteq AllCodes
    /\ MaxRun \in Nat /\ MaxLink \in Nat \ {0} /\ MaxCount \in Nat
    /\ Delays \subseteq Nat \ {0}

\* RULES
Trigger(c) == CASE c \in {"source_missing", "telemetry_missing", "srt_missing"} -> 3
                [] c \in Graded -> 5
                [] OTHER -> 0
Clear(c) == IF c \in Graded THEN 5 ELSE 3
Quiet == 10
Stall == 5

None == -1              \* no age
NoCount == <<0, 0>>     \* no entry in Alarms.counters
Longest == 5            \* no delay of RULES is longer
Older(age, d, cap) == IF age = None THEN None ELSE IF age + d > cap THEN cap ELSE age + d
Since(age) == IF age = None THEN 0 ELSE age

VARIABLES
    runId,      \* Alarms.run_id
    active,     \* codes in Alarms.active
    raisedBy,   \* run_id of the event kept in Alarms.active
    pending, clearing,      \* Alarms.pending, Alarms.clearing
    counters,   \* Alarms.counters: generation and value
    increments, \* Alarms.increments
    frame,      \* Alarms.frame_changed
    seen,       \* the snapshot last evaluated
    events,     \* what the last evaluation returned
    \* For the properties only, as ages: since when, without a gap, the measures
    \* behind a code have been live; since when its condition has been seen to
    \* hold; the last time its counter was seen to go up.
    measured, held, counted,
    beat        \* flips, so that evaluating an unchanged snapshot is a step too

alarmVars == <<runId, active, raisedBy, pending, clearing, counters, increments, frame>>
historyVars == <<seen, events, measured, held, counted, beat>>
vars == <<alarmVars, historyVars>>

-----------------------------------------------------------------------------
(* What the panel shows.  A run is being configured ("up"), encodes, and is *)
(* then dead, with or without the panel knowing.  "stopped" stands for the  *)
(* phases idle and stopping, "failed" for error and restart_wait (an error  *)
(* with a live encoder is a change of format), "working" for the others.    *)
(* A measure exists only while it is live (_telemetry_state, SRTStats.view).*)
(* A live telemetry may lack the readings of the video, all of them at once *)
(* (_telemetry_line): `video` says whether they are there.                  *)

Lives == {"none", "up", "encoding", "dead"}
Phases == {"stopped", "failed", "working"}
Statuses == {"idle", "live", "missing"}
Levels == {"low", "between", "high"}    \* under both thresholds, between them, over both
Snapshot == [run: 0..MaxRun, life: Lives, phase: Phases, signal: {"receiving", "reconnecting", "other"},
             telemetry: Statuses, srt: Statuses, errors: 0..MaxCount, drops: 0..MaxCount,
             link: 1..MaxLink, rtt: Levels, video: BOOLEAN, queue: Levels, moved: BOOLEAN]
Blank == [run |-> 0, life |-> "none", phase |-> "stopped", signal |-> "other",
          telemetry |-> "idle", srt |-> "idle", errors |-> 0, drops |-> 0, link |-> 1,
          rtt |-> "low", video |-> TRUE, queue |-> "low", moved |-> FALSE]

Operating(s) == s.life = "encoding"
Live(s) == Operating(s) /\ s.telemetry = "live"
SrtLive(s) == Operating(s) /\ s.srt = "live"
Receiving(s) == Live(s) /\ s.signal = "receiving" /\ s.video

\* bound: a field that no rule in Codes reads keeps one value
For(codes, values, default) == IF codes \cap Codes # {} THEN values ELSE {default}

\* The snapshots that may follow: a run does not come back to life, and counters
\* do not go back within a run (errors) or a connection (drops).  Nor does a phase
\* go back to "working", except before the encoder has started: "starting" may
\* follow a change of format ("failed"), and an "Encoding started" line the end of
\* a start that timed out ("stopped").  Left out: the same line coming while
\* _finish takes the lock, so that the run shown as stopping already encodes.
Onward == [none |-> {"none"}, up |-> {"up", "encoding", "dead"},
           encoding |-> {"encoding", "dead"}, dead |-> {"dead"}]
PhasesOf(life) == IF life = "none" THEN {"stopped", "failed"} ELSE Phases
LaterPhases(life) ==
    CASE \/ seen.phase = "working"
         \/ seen.life = "up" /\ (life # "up" \/ seen.phase = "failed") -> PhasesOf(life)
      [] seen.phase = "stopped" /\ seen.life # "up" /\ life = "encoding" -> {"stopped"}
      [] OTHER -> PhasesOf(life) \ {"working"}
SameRun ==
    UNION {{[Blank EXCEPT !.run = seen.run, !.life = life, !.phase = p, !.errors = seen.errors,
                          !.drops = seen.drops, !.link = seen.link] :
                p \in LaterPhases(life)} : life \in Onward[seen.life]}
NewRun ==
    IF seen.run = MaxRun THEN {}
    ELSE UNION {{[Blank EXCEPT !.run = seen.run + 1, !.life = life, !.phase = p] :
                    p \in PhasesOf(life)} : life \in {"up", "encoding", "dead"}}

Readings(base) ==
    [signal: For({"source_missing", "video_stalled"}, {"receiving", "reconnecting"}, "receiving"),
     telemetry: For({"telemetry_missing", "udp_errors", "video_queue", "video_stalled"}, Statuses, "live"),
     srt: For({"srt_missing", "srt_drops", "srt_rtt"}, Statuses, "live"),
     errors: For({"udp_errors"}, base.errors..MaxCount, 0),
     drops: For({"srt_drops"}, 0..MaxCount, 0),
     link: For({"srt_drops"}, base.link..MaxLink, 1),
     rtt: For({"srt_rtt"}, Levels, "low"),
     video: For({"video_queue", "video_stalled"}, BOOLEAN, TRUE),
     queue: For({"video_queue"}, Levels, "low"), moved: For({"video_stalled"}, BOOLEAN, TRUE)]
Read(base) ==
    {[base EXCEPT !.signal = r.signal, !.telemetry = r.telemetry, !.srt = r.srt, !.errors = r.errors,
                  !.drops = r.drops, !.link = r.link, !.rtt = r.rtt, !.video = r.video,
                  !.queue = r.queue, !.moved = r.moved] : r \in Readings(base)}
Sampled(base) ==
    IF ~Operating(base) THEN {base}
    ELSE {s \in Read(base) :
          /\ s.telemetry # "live" => s.errors = base.errors /\ s.video /\ s.queue = "low"
          /\ ~s.video => s.queue = "low" /\ s.moved
          /\ s.srt # "live" => s.drops = base.drops /\ s.link = base.link /\ s.rtt = "low"
          /\ s.link = base.link => s.drops >= base.drops}

Snapshots == UNION {Sampled(b) : b \in SameRun \cup NewRun}

-----------------------------------------------------------------------------
(* Alarms.evaluate, in its order: the reset, the counters, the progress of *)
(* the frames, the conditions, and for each code the hysteresis in time.   *)
(* A definition named after the next one with a suffix (Changed_Never ...) *)
(* is that one with a bug, for the mutation tests of the properties.       *)

Stopped(s) == s.phase = "stopped"
Changed_Never(s) == FALSE
Changed(s) == s.run # runId
Reset(s) == Changed(s) \/ Stopped(s)

\* The state after the reset, as of now, d seconds later
Kept(s) == IF Reset(s) THEN {} ELSE active
Aged(age, s, d, cap) == IF Reset(s) THEN None ELSE Older(age, d, cap)

Value(c, s) == IF c = "udp_errors" THEN s.errors ELSE s.drops
Generation(c, s) == IF c = "udp_errors" THEN s.run ELSE s.link
Readable(c, s) == IF c = "udp_errors" THEN Live(s) ELSE SrtLive(s)
Baseline_AcrossLinks(c, s) == IF Reset(s) THEN 0 ELSE counters[c][2]
Baseline(c, s) ==
    IF Reset(s) \/ counters[c][1] # Generation(c, s) THEN 0 ELSE counters[c][2]
Incremented(c, s) == c \in Counted /\ Readable(c, s) /\ Value(c, s) > Baseline(c, s)

IncrementAge(c, s, d) == IF Incremented(c, s) THEN 0 ELSE Aged(increments[c], s, d, Quiet)
FrameAge_EachSample(s, d) == IF Receiving(s) THEN 0 ELSE None
FrameAge(s, d) ==
    CASE ~Receiving(s) -> None
      [] Receiving(s) /\ (Reset(s) \/ frame = None \/ s.moved) -> 0
      [] OTHER -> Older(frame, d, Stall)

Over(level, raised) == level = "high" \/ (raised /\ level = "between")
Condition(c, s, d) ==
    CASE c = "encoder_error" -> s.phase = "failed"
      [] c = "source_missing" -> Operating(s) /\ s.signal = "reconnecting"
      [] c = "telemetry_missing" -> Operating(s) /\ s.telemetry = "missing"
      [] c = "srt_missing" -> Operating(s) /\ s.srt = "missing"
      [] c \in Counted -> Operating(s) /\ IncrementAge(c, s, d) \in 0..(Quiet - 1)
      [] c = "srt_rtt" -> SrtLive(s) /\ Over(s.rtt, c \in Kept(s))
      [] c = "video_queue" -> Live(s) /\ s.video /\ Over(s.queue, c \in Kept(s))
      [] c = "video_stalled" -> Receiving(s) /\ FrameAge(s, d) >= Stall

Known(c, s) ==
    CASE c \in {"udp_errors", "video_queue"} -> Live(s)
      [] c \in {"srt_drops", "srt_rtt"} -> SrtLive(s)
      [] c = "video_stalled" -> Receiving(s)
      [] OTHER -> TRUE
Unknown_Never(c, s) == FALSE
\* Missing measurements are unknown, not evidence of recovery.
Unknown(c, s) == Operating(s) /\ ~Known(c, s)

Pending_Latched(c, s, d) ==
    IF Condition(c, s, d) \/ Unknown(c, s) THEN Since(Aged(pending[c], s, d, Longest)) ELSE None
Pending(c, s, d) ==
    IF Condition(c, s, d) /\ ~Unknown(c, s) THEN Since(Aged(pending[c], s, d, Longest)) ELSE None
Clearing(c, s, d) ==
    IF ~Condition(c, s, d) /\ ~Unknown(c, s) THEN Since(Aged(clearing[c], s, d, Longest)) ELSE None

Raises(c, s, d) == c \notin Kept(s) /\ Pending(c, s, d) # None /\ Pending(c, s, d) >= Trigger(c)
Recovers(c, s, d) == c \in Kept(s) /\ Clearing(c, s, d) # None /\ Clearing(c, s, d) >= Clear(c)

\* The transitions are reported with the reason that _transition is given.
Dropped(s) ==
    {[code |-> c, reason |-> IF Changed(s) THEN "process_changed" ELSE "encoder_stopped"] :
        c \in active \ Kept(s)}
Raised(s, d) == {c \in Codes : Raises(c, s, d)}
Recovered(s, d) == {c \in Codes : Recovers(c, s, d)}

\* The first half of an evaluation, and all of it once the panel is stopped
EvaluateStopped(s) ==
    /\ Stopped(s)
    /\ active' = {} /\ events' = Dropped(s)
    /\ pending' = [c \in Codes |-> None] /\ clearing' = [c \in Codes |-> None]
    /\ counters' = [c \in Codes |-> NoCount] /\ increments' = [c \in Codes |-> None]
    /\ frame' = None
    /\ UNCHANGED raisedBy

EvaluateRules(s, d) ==
    /\ ~Stopped(s)
    /\ active' = (Kept(s) \cup Raised(s, d)) \ Recovered(s, d)
    /\ raisedBy' = [c \in Codes |-> IF c \in Raised(s, d) THEN s.run ELSE raisedBy[c]]
    /\ events' = Dropped(s)
                 \cup {[code |-> c, reason |-> "threshold"] : c \in Raised(s, d)}
                 \cup {[code |-> c, reason |-> "recovered"] : c \in Recovered(s, d)}
    /\ pending' = [c \in Codes |-> Pending(c, s, d)]
    /\ clearing' = [c \in Codes |-> Clearing(c, s, d)]
    /\ counters' = [c \in Codes |->
                      IF c \in Counted /\ Readable(c, s) THEN <<Generation(c, s), Value(c, s)>>
                      ELSE IF Reset(s) THEN NoCount ELSE counters[c]]
    /\ increments' = [c \in Codes |-> IncrementAge(c, s, d)]
    /\ frame' = FrameAge(s, d)

\* What the properties remember of the snapshots
CountedUp(c, s) ==
    IF s.run = seen.run /\ (c = "srt_drops" => s.link = seen.link)
    THEN Value(c, s) > Value(c, seen)
    ELSE Value(c, s) > 0
Measured(c, s) == Known(c, s) /\ (c = "video_queue" => s.video)
Shown(c, s) ==
    CASE c = "srt_rtt" -> SrtLive(s) /\ s.rtt = "high"
      [] c = "video_queue" -> Live(s) /\ s.queue = "high"
      [] c \in Plain -> Condition(c, s, 0)
      [] OTHER -> FALSE
Stretch(age, goesOn, s, d) ==
    IF ~goesOn THEN None ELSE IF s.run # seen.run THEN 0 ELSE Since(Older(age, d, Longest))
Remember(s, d) ==
    /\ seen' = s
    /\ measured' = [c \in Codes |-> Stretch(measured[c], Measured(c, s), s, d)]
    /\ held' = [c \in Codes |-> Stretch(held[c], Shown(c, s), s, d)]
    /\ counted' = [c \in Codes |->
                     IF c \in Counted /\ CountedUp(c, s) THEN 0
                     ELSE IF s.run # seen.run THEN None
                     ELSE Older(counted[c], d, Quiet + Clear(c))]

Evaluate(s, d) ==
    /\ EvaluateStopped(s) \/ EvaluateRules(s, d)
    /\ runId' = s.run
    /\ Remember(s, d)
    /\ beat' = ~beat

Init ==
    /\ runId = 0 /\ active = {} /\ raisedBy = [c \in Codes |-> 0]
    /\ pending = [c \in Codes |-> None] /\ clearing = [c \in Codes |-> None]
    /\ counters = [c \in Codes |-> NoCount] /\ increments = [c \in Codes |-> None]
    /\ frame = None
    /\ seen = Blank /\ events = {}
    /\ measured = [c \in Codes |-> None] /\ held = [c \in Codes |-> None]
    /\ counted = [c \in Codes |-> None]
    /\ beat = FALSE

Next == \E s \in Snapshots, d \in Delays : Evaluate(s, d)

\* The monitor thread takes a sample every second (Panel._monitor).
Spec == Init /\ [][Next]_vars /\ WF_vars(Next)

-----------------------------------------------------------------------------
\* Types, and that a code never waits to be raised and to be cleared at once.
TypeOK ==
    /\ runId \in 0..MaxRun /\ active \subseteq Codes /\ raisedBy \in [Codes -> 0..MaxRun]
    /\ pending \in [Codes -> None..Longest] /\ clearing \in [Codes -> None..Longest]
    /\ increments \in [Codes -> None..Quiet] /\ frame \in None..Stall
    /\ \A c \in Codes : counters[c] \in Nat \X (0..MaxCount)
    /\ seen \in Snapshot /\ beat \in BOOLEAN
    /\ \A c \in Codes : pending[c] = None \/ clearing[c] = None

\* No alarm outlives the process it is about, nor the operator's Stop: whatever
\* is open was raised by the run now shown (docs/webpanel.md: a change of process
\* closes the incidents of the one before).
AlarmsAreOfThisRun ==
    /\ active # {} => ~Stopped(seen)
    /\ \A c \in active : raisedBy[c] = seen.run

\* An alarm with a delay is raised only if its condition was seen to hold, in
\* this run, for all of the delay, in spite of missing samples.
RaisedAfterHolding ==
    [][\A c \in Codes \cap (Graded \cup Plain) :
          [code |-> c, reason |-> "threshold"] \in events' => held'[c] >= Trigger(c)]_vars

\* An alarm about drops or errors is raised only over a real increment seen in
\* the last 10 s, and recovers only 10 s plus 3 s after the last one: a total
\* that merely persists, or comes back after missing samples, does neither.
CountersSpeakOfChanges ==
    [][\A c \in Codes \cap Counted :
          /\ [code |-> c, reason |-> "threshold"] \in events' => counted'[c] \in 0..(Quiet - 1)
          /\ [code |-> c, reason |-> "recovered"] \in events' /\ Operating(seen') =>
                counted'[c] >= Quiet + Clear(c)]_vars

\* Missing measures are no evidence of recovery (docs/webpanel.md:247): an alarm
\* about a measure is declared recovered only after that measure was live for all
\* of the delay, without a gap.
Evidenced(c) ==
    [code |-> c, reason |-> "recovered"] \in events' => measured'[c] >= Clear(c)
RecoveryIsMeasured == [][\A c \in Codes : Evidenced(c)]_vars

\* The same where the code keeps to it: as long as the encoder is up, and for every
\* alarm but that of the video queue.  A live telemetry without video readings is
\* `known` to that one, though the queue is not in it, and ends the alarm
\* (RecoveryIsMeasured shows what happens once the encoder is down).
RecoveryIsMeasuredWhileEncoding ==
    [][\A c \in Codes \ {"video_queue"} : Operating(seen') => Evidenced(c)]_vars

\* What stays wrong ends up raised, and what stays right, and is measured, ends
\* up cleared: the delays only delay.
Bad(c) ==
    /\ ~Stopped(seen)
    /\ IF c = "video_stalled" THEN Receiving(seen) /\ ~seen.moved ELSE Shown(c, seen)
Good(c) ==
    /\ ~Stopped(seen) /\ Measured(c, seen)
    /\ CASE c \in Counted -> counted[c] \notin 0..(Quiet - 1)
         [] c = "srt_rtt" -> seen.rtt = "low"
         [] c = "video_queue" -> seen.queue = "low"
         [] c = "video_stalled" -> seen.moved
         [] OTHER -> ~Shown(c, seen)
AlarmsFollow ==
    \A c \in Codes :
        /\ <>[]Bad(c) => <>[](c \in active)
        /\ <>[]Good(c) => <>[](c \notin active)
=============================================================================
