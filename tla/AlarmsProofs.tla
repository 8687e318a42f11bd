---------------------------- MODULE AlarmsProofs -----------------------------
(***************************************************************************)
(* Proofs about the alarms, for any set of rules, any number of runs,      *)
(* connections and counts, and any intervals between the samples.          *)
(***************************************************************************)
EXTENDS Alarms, TLAPS

USE DEF alarmVars, historyVars, vars, None

Delayed == Codes \cap (Graded \cup Plain)
Ages == -1..Longest

\* The ages are ages, and the snapshot is of the run that the alarms know.
AgeType ==
    /\ pending \in [Codes -> Ages] /\ clearing \in [Codes -> Ages]
    /\ held \in [Codes -> Ages] /\ measured \in [Codes -> Ages]
    /\ raisedBy \in [Codes -> Nat] /\ active \subseteq Codes
    /\ seen.run \in Nat /\ runId = seen.run

\* A delay never runs ahead of what was seen to hold, ...
HeldLongEnough == \A c \in Delayed : c \notin active => held[c] >= pending[c]
\* ... an alarm about a measure is only open in a run that has encoded, ...
OpenAfterEncoding == \A c \in active : c \notin Plain => seen.life \in {"encoding", "dead"}
\* ... and while it encodes the delay of the recovery never runs ahead of the measure
\* (but for the video queue, which may not be in a live telemetry at all).
MeasuredLongEnough ==
    \A c \in active \ {"video_queue"} :
        Operating(seen) \/ c \in Plain => measured[c] >= clearing[c]

AlarmInv ==
    AgeType /\ AlarmsAreOfThisRun /\ HeldLongEnough /\ OpenAfterEncoding /\ MeasuredLongEnough

LEMMA InitAlarms == Init => AlarmInv
BY AlarmBounds DEF Init, AlarmInv, AgeType, Ages, Longest, AlarmsAreOfThisRun, HeldLongEnough, Delayed,
   OpenAfterEncoding, MeasuredLongEnough, Blank, Stopped

\* Of two ages the older stays the older.
LEMMA AgesKeepOrder ==
    ASSUME NEW x \in Ages, NEW y \in Ages, y >= x, NEW d \in Nat \ {0}
    PROVE  /\ Since(Older(x, d, Longest)) \in 0..Longest
           /\ Since(Older(y, d, Longest)) \in 0..Longest
           /\ Since(Older(y, d, Longest)) >= Since(Older(x, d, Longest))
BY DEF Ages, Since, Older, Longest

\* What may follow a snapshot
LEMMA NextSnapshot ==
    ASSUME NEW s \in Snapshots
    PROVE  \/ s.run = seen.run /\ s.life \in Onward[seen.life]
           \/ s.run = seen.run + 1
<1>1. PICK b \in SameRun \cup NewRun : s \in Sampled(b)
  BY DEF Snapshots
<1>2. /\ "run" \in DOMAIN b /\ "life" \in DOMAIN b
      /\ \/ b.run = seen.run /\ b.life \in Onward[seen.life]
         \/ b.run = seen.run + 1
  <2>1. CASE b \in SameRun
    <3>1. PICK life \in Onward[seen.life] :
             b \in {[Blank EXCEPT !.run = seen.run, !.life = life, !.phase = p, !.errors = seen.errors,
                                  !.drops = seen.drops, !.link = seen.link] : p \in LaterPhases(life)}
      BY <2>1 DEF SameRun
    <3>2. PICK p : b = [Blank EXCEPT !.run = seen.run, !.life = life, !.phase = p,
                                     !.errors = seen.errors, !.drops = seen.drops, !.link = seen.link]
      BY <3>1, Zenon
    <3> QED  BY <3>1, <3>2 DEF Blank
  <2>2. CASE b \in NewRun
    <3>1. PICK life \in {"up", "encoding", "dead"} :
             b \in {[Blank EXCEPT !.run = seen.run + 1, !.life = life, !.phase = p] :
                       p \in PhasesOf(life)}
      BY <2>2 DEF NewRun
    <3>2. PICK p : b = [Blank EXCEPT !.run = seen.run + 1, !.life = life, !.phase = p]
      BY <3>1, Zenon
    <3> QED  BY <3>2 DEF Blank
  <2> QED  BY <1>1, <2>1, <2>2
<1>3. s.run = b.run /\ s.life = b.life
  <2>1. CASE ~Operating(b)
    BY <1>1, <2>1 DEF Sampled
  <2>2. CASE Operating(b)
    <3>1. s \in Read(b)
      BY <1>1, <2>2 DEF Sampled
    <3>2. PICK r : s = [b EXCEPT !.signal = r.signal, !.telemetry = r.telemetry, !.srt = r.srt,
                                 !.errors = r.errors, !.drops = r.drops, !.link = r.link,
                                 !.rtt = r.rtt, !.video = r.video, !.queue = r.queue,
                                 !.moved = r.moved]
      BY <3>1, Zenon DEF Read
    <3> QED  BY <1>2, <3>2
  <2> QED  BY <2>1, <2>2
<1> QED  BY <1>2, <1>3

-----------------------------------------------------------------------------
(* One evaluation                                                           *)

\* A delay runs only over a condition, and a recovery only over its absence.
LEMMA NotBoth ==
    ASSUME NEW s, NEW d, NEW c
    PROVE  /\ Pending(c, s, d) # None => Condition(c, s, d) /\ ~Unknown(c, s) /\ Clearing(c, s, d) = None
           /\ Clearing(c, s, d) # None => ~Condition(c, s, d) /\ ~Unknown(c, s)
BY DEF Pending, Clearing

LEMMA NewAges ==
    ASSUME AgeType, NEW s, NEW d \in Nat \ {0}, NEW c \in Codes
    PROVE  /\ Pending(c, s, d) \in Ages /\ Clearing(c, s, d) \in Ages
           /\ Stretch(held[c], Shown(c, s), s, d) \in Ages
           /\ Stretch(measured[c], Measured(c, s), s, d) \in Ages
<1>1. /\ Since(Older(pending[c], d, Longest)) \in Ages /\ Since(Older(clearing[c], d, Longest)) \in Ages
      /\ Since(Older(held[c], d, Longest)) \in Ages /\ Since(Older(measured[c], d, Longest)) \in Ages
  BY AgesKeepOrder DEF AgeType, Ages, Longest
<1>2. Since(None) \in Ages /\ None \in Ages /\ 0 \in Ages
  BY DEF Since, Ages, Longest
<1> QED  BY <1>1, <1>2 DEF Pending, Clearing, Aged, Stretch

\* The run of the snapshot changes exactly with the one the alarms know.
LEMMA ResetOrSame ==
    ASSUME AgeType, NEW s, ~Stopped(s)
    PROVE  Reset(s) <=> s.run # seen.run
BY DEF AgeType, Reset, Changed

\* Without an open alarm the condition is what the snapshot shows.
LEMMA ConditionIsShown ==
    ASSUME NEW s, NEW d, NEW c \in Delayed, c \notin Kept(s), Condition(c, s, d)
    PROVE  Shown(c, s)
BY DEF Delayed, Graded, Plain, Counted, Condition, Shown, Over

LEMMA HeldAsLong ==
    ASSUME AlarmInv, NEW s, ~Stopped(s), NEW d \in Nat \ {0}, NEW c \in Delayed, c \notin Kept(s)
    PROVE  Stretch(held[c], Shown(c, s), s, d) >= Pending(c, s, d)
<1>0. c \in Codes /\ AgeType /\ held[c] \in Ages /\ pending[c] \in Ages
  BY DEF Delayed, AlarmInv, AgeType
<1>1. Stretch(held[c], Shown(c, s), s, d) \in Ages
  BY <1>0, NewAges
<1>2. CASE Pending(c, s, d) = None
  BY <1>1, <1>2 DEF Ages, Longest
<1>3. CASE Pending(c, s, d) # None
  <2>1. Shown(c, s)
    BY <1>3, NotBoth, ConditionIsShown
  <2>2. CASE s.run # seen.run
    BY <1>0, <2>1, <2>2, <1>3, ResetOrSame DEF Pending, Aged, Since, Stretch
  <2>3. CASE s.run = seen.run
    <3>1. c \notin active /\ ~Reset(s)
      BY <1>0, <2>3, ResetOrSame DEF Kept
    <3>2. held[c] >= pending[c]
      BY <3>1 DEF AlarmInv, HeldLongEnough
    <3>3. Pending(c, s, d) = Since(Older(pending[c], d, Longest))
      BY <1>3, <3>1 DEF Pending, Aged
    <3>4. Stretch(held[c], Shown(c, s), s, d) = Since(Older(held[c], d, Longest))
      BY <2>1, <2>3 DEF Stretch
    <3> QED  BY <1>0, <3>2, <3>3, <3>4, AgesKeepOrder
  <2> QED  BY <2>2, <2>3
<1> QED  BY <1>2, <1>3

\* A condition about a measure needs an encoder that encodes.
LEMMA ConditionOperates ==
    ASSUME NEW s, NEW d, NEW c \in Codes, c \notin Plain, Condition(c, s, d)
    PROVE  Operating(s)
BY AlarmBounds DEF AllCodes, Plain, Graded, Counted, Condition, SrtLive, Live, Receiving

\* Every open alarm was open in this run, or is raised now.
LEMMA KeptOrRaised ==
    ASSUME AlarmInv, NEW s, NEW d, EvaluateRules(s, d), NEW c \in active'
    PROVE  c \in Codes /\ \/ c \in active /\ s.run = seen.run
                          \/ c \in Raised(s, d) /\ c \notin Kept(s)
BY DEF EvaluateRules, Kept, Reset, Changed, Raised, Raises, AlarmInv, AgeType

\* After what it measures has begun, a recovery waits as long as it is measured.
LEMMA MeasuredAsLong ==
    ASSUME AlarmInv, NEW s \in Snapshots, NEW d \in Nat \ {0}, EvaluateRules(s, d),
           NEW c \in active \ {"video_queue"}, s.run = seen.run, Operating(s) \/ c \in Plain
    PROVE  Stretch(measured[c], Measured(c, s), s, d) >= Clearing(c, s, d)
<1>0. c \in Codes /\ AgeType /\ measured[c] \in Ages /\ clearing[c] \in Ages /\ ~Stopped(s)
  BY DEF AlarmInv, AgeType, EvaluateRules
<1>1. Stretch(measured[c], Measured(c, s), s, d) \in Ages
  BY <1>0, NewAges
<1>2. CASE Clearing(c, s, d) = None
  BY <1>1, <1>2 DEF Ages, Longest
<1>3. CASE Clearing(c, s, d) # None
  <2>1. Measured(c, s)
    <3>1. ~Unknown(c, s)
      BY <1>3, NotBoth
    <3> QED  BY <3>1 DEF Unknown, Known, Measured, Plain
  <2>2. Operating(seen) \/ c \in Plain
    <3>1. CASE c \notin Plain
      <4>1. s.life = "encoding" /\ seen.life \in {"encoding", "dead"}
        BY <3>1 DEF Operating, AlarmInv, OpenAfterEncoding
      <4>2. s.life \in Onward[seen.life]
        BY NextSnapshot DEF AlarmInv, AgeType
      <4> QED  BY <4>1, <4>2 DEF Onward, Operating
    <3> QED  BY <3>1
  <2>3. measured[c] >= clearing[c]
    BY <2>2 DEF AlarmInv, MeasuredLongEnough
  <2>4. Clearing(c, s, d) = Since(Older(clearing[c], d, Longest))
    BY <1>0, <1>3, ResetOrSame DEF Clearing, Aged
  <2>5. Stretch(measured[c], Measured(c, s), s, d) = Since(Older(measured[c], d, Longest))
    BY <2>1 DEF Stretch
  <2> QED  BY <1>0, <2>3, <2>4, <2>5, AgesKeepOrder
<1> QED  BY <1>2, <1>3

-----------------------------------------------------------------------------
LEMMA RulesKeepInv ==
    ASSUME AlarmInv, NEW s \in Snapshots, NEW d \in Nat \ {0}, EvaluateRules(s, d), runId' = s.run,
           Remember(s, d)
    PROVE  AlarmInv'
<1>0. AgeType /\ seen' = s /\ ~Stopped(s) /\ s.run \in Nat
  BY NextSnapshot DEF AlarmInv, AgeType, EvaluateRules, Remember
<1>1. \A c \in Codes : /\ pending'[c] = Pending(c, s, d) /\ clearing'[c] = Clearing(c, s, d)
                       /\ held'[c] = Stretch(held[c], Shown(c, s), s, d)
                       /\ measured'[c] = Stretch(measured[c], Measured(c, s), s, d)
  BY DEF EvaluateRules, Remember
<1>2. AgeType'
  <2>1. /\ pending' \in [Codes -> Ages] /\ clearing' \in [Codes -> Ages]
        /\ held' \in [Codes -> Ages] /\ measured' \in [Codes -> Ages]
    BY <1>0, NewAges DEF EvaluateRules, Remember
  <2>2. raisedBy' \in [Codes -> Nat] /\ active' \subseteq Codes
    BY <1>0, KeptOrRaised DEF EvaluateRules, AgeType
  <2> QED  BY <1>0, <2>1, <2>2 DEF AgeType
<1>3. AlarmsAreOfThisRun'
  <2>1. ASSUME NEW c \in active' PROVE raisedBy'[c] = s.run
    BY <2>1, KeptOrRaised DEF EvaluateRules, AlarmInv, AlarmsAreOfThisRun
  <2> QED  BY <1>0, <2>1 DEF AlarmsAreOfThisRun
<1>4. HeldLongEnough'
  <2>1. ASSUME NEW c \in Delayed, c \notin active' PROVE held'[c] >= pending'[c]
    <3>1. CASE c \notin Kept(s)
      BY <1>0, <1>1, <3>1, HeldAsLong DEF Delayed
    <3>2. CASE c \in Kept(s)
      <4>1. Clearing(c, s, d) # None
        BY <2>1, <3>2 DEF EvaluateRules, Recovered, Recovers
      <4>2. pending'[c] = None /\ held'[c] \in Ages
        BY <1>0, <1>1, <4>1, NotBoth, NewAges DEF Delayed
      <4> QED  BY <4>2 DEF Ages, Longest
    <3> QED  BY <3>1, <3>2
  <2> QED  BY <2>1 DEF HeldLongEnough, Delayed
<1>5. OpenAfterEncoding'
  <2>1. ASSUME NEW c \in active', c \notin Plain PROVE s.life \in {"encoding", "dead"}
    <3>1. CASE c \in active /\ s.run = seen.run
      <4>1. s.life \in Onward[seen.life] /\ seen.life \in {"encoding", "dead"}
        BY <1>0, <2>1, <3>1, NextSnapshot DEF AgeType, AlarmInv, OpenAfterEncoding
      <4> QED  BY <4>1 DEF Onward
    <3>2. CASE c \in Raised(s, d)
      <4>1. Condition(c, s, d) /\ c \in Codes
        BY <2>1, <3>2, NotBoth DEF Raised, Raises
      <4> QED  BY <2>1, <4>1, ConditionOperates DEF Operating
    <3> QED  BY <2>1, <3>1, <3>2, KeptOrRaised
  <2> QED  BY <1>0, <2>1 DEF OpenAfterEncoding
<1>6. MeasuredLongEnough'
  <2>1. ASSUME NEW c \in active' \ {"video_queue"}, Operating(s) \/ c \in Plain
        PROVE  measured'[c] >= clearing'[c]
    <3>0. c \in Codes
      BY <2>1, KeptOrRaised
    <3>1. CASE c \in active /\ s.run = seen.run
      BY <1>1, <2>1, <3>0, <3>1, MeasuredAsLong
    <3>2. CASE c \in Raised(s, d)
      <4>1. clearing'[c] = None /\ measured'[c] \in Ages
        BY <1>0, <1>1, <3>0, <3>2, NotBoth, NewAges DEF Raised, Raises
      <4> QED  BY <4>1 DEF Ages, Longest
    <3> QED  BY <2>1, <3>1, <3>2, KeptOrRaised
  <2> QED  BY <1>0, <2>1 DEF MeasuredLongEnough
<1> QED  BY <1>2, <1>3, <1>4, <1>5, <1>6 DEF AlarmInv

LEMMA StopKeepsInv ==
    ASSUME AlarmInv, NEW s \in Snapshots, NEW d \in Nat \ {0}, EvaluateStopped(s), runId' = s.run,
           Remember(s, d)
    PROVE  AlarmInv'
<1>0. AgeType /\ seen' = s /\ s.run \in Nat /\ active' = {}
  BY NextSnapshot DEF AlarmInv, AgeType, EvaluateStopped, Remember
<1>1. \A c \in Codes : /\ pending'[c] = None /\ clearing'[c] = None
                       /\ held'[c] = Stretch(held[c], Shown(c, s), s, d)
                       /\ measured'[c] = Stretch(measured[c], Measured(c, s), s, d)
  BY DEF EvaluateStopped, Remember
<1>2. AgeType'
  <2>1. held' \in [Codes -> Ages] /\ measured' \in [Codes -> Ages]
    BY <1>0, NewAges DEF Remember
  <2>2. None \in Ages
    BY DEF Ages, Longest
  <2> QED  BY <1>0, <2>1, <2>2 DEF AgeType, EvaluateStopped
<1>3. HeldLongEnough'
  BY <1>0, <1>1, NewAges DEF HeldLongEnough, Delayed, Ages, Longest
<1> QED  BY <1>0, <1>2, <1>3 DEF AlarmInv, AlarmsAreOfThisRun, OpenAfterEncoding, MeasuredLongEnough

LEMMA NextAlarms == AlarmInv /\ [Next]_vars => AlarmInv'
<1> SUFFICES ASSUME AlarmInv, [Next]_vars PROVE AlarmInv'
  OBVIOUS
<1>1. ASSUME NEW s \in Snapshots, NEW d \in Delays, Evaluate(s, d) PROVE AlarmInv'
  BY <1>1, AlarmBounds, RulesKeepInv, StopKeepsInv DEF Evaluate
<1>2. CASE UNCHANGED vars
  BY <1>2 DEF AlarmInv, AgeType, AlarmsAreOfThisRun, HeldLongEnough, OpenAfterEncoding,
     MeasuredLongEnough
<1> QED  BY <1>1, <1>2 DEF Next

LEMMA AlarmInvariant == Spec => []AlarmInv
BY InitAlarms, NextAlarms, PTL DEF Spec

\* No alarm outlives the process that it is about, nor a Stop.
THEOREM AlarmsBelongToTheRun == Spec => []AlarmsAreOfThisRun
BY AlarmInvariant, PTL DEF AlarmInv

\* An alarm is raised only over a condition that was seen to hold for all of its
\* delay, whatever the intervals between the samples.
THEOREM NoAlarmBeforeItsDelay == Spec => RaisedAfterHolding
<1>1. AlarmInv /\ [Next]_vars =>
        [\A c \in Codes \cap (Graded \cup Plain) :
            [code |-> c, reason |-> "threshold"] \in events' => held'[c] >= Trigger(c)]_vars
  <2> SUFFICES ASSUME AlarmInv, NEW s \in Snapshots, NEW d \in Delays, Evaluate(s, d),
                      NEW c \in Delayed, [code |-> c, reason |-> "threshold"] \in events'
               PROVE  held'[c] >= Trigger(c)
    BY DEF Next, Delayed
  <2>1. EvaluateRules(s, d) /\ c \in Raised(s, d)
    BY DEF Evaluate, EvaluateRules, EvaluateStopped, Dropped
  <2>2. held'[c] >= Pending(c, s, d) /\ Pending(c, s, d) >= Trigger(c)
    BY <2>1, AlarmBounds, HeldAsLong DEF Evaluate, EvaluateRules, Remember, Raised, Raises, Delayed
  <2>3. held'[c] \in Int /\ Pending(c, s, d) \in Int /\ Trigger(c) \in Int
    BY <2>1, AlarmBounds, NewAges DEF AlarmInv, Evaluate, Remember, Delayed, Ages, Trigger, Longest
  <2> QED  BY <2>2, <2>3
<1> QED  BY <1>1, AlarmInvariant, PTL DEF Spec, RaisedAfterHolding

\* While the encoder is up an alarm about a measure, but for the one of the video
\* queue, recovers only after that measure was live for all of the delay, without a
\* gap (Alarms.evaluate, `known`).
THEOREM NoRecoveryUnmeasured == Spec => RecoveryIsMeasuredWhileEncoding
<1>1. AlarmInv /\ [Next]_vars =>
        [\A c \in Codes \ {"video_queue"} : Operating(seen') => Evidenced(c)]_vars
  <2> SUFFICES ASSUME AlarmInv, NEW s \in Snapshots, NEW d \in Delays, Evaluate(s, d),
                      NEW c \in Codes \ {"video_queue"}, Operating(s), [code |-> c, reason |-> "recovered"] \in events'
               PROVE  measured'[c] >= Clear(c)
    BY DEF Next, Evaluate, Remember, Evidenced
  <2>1. EvaluateRules(s, d) /\ c \in Recovered(s, d) /\ d \in Nat \ {0}
    BY AlarmBounds DEF Evaluate, EvaluateRules, EvaluateStopped, Dropped
  <2>2. c \in active /\ s.run = seen.run
    BY <2>1 DEF Recovered, Recovers, Kept, Reset, Changed, AlarmInv, AgeType
  <2>3. measured'[c] >= Clearing(c, s, d) /\ Clearing(c, s, d) >= Clear(c)
    BY <2>1, <2>2, MeasuredAsLong DEF Evaluate, Remember, Recovered, Recovers
  <2>4. measured'[c] \in Int /\ Clearing(c, s, d) \in Int /\ Clear(c) \in Int
    BY <2>1, NewAges DEF AlarmInv, Evaluate, Remember, Ages, Clear, Longest
  <2> QED  BY <2>3, <2>4
<1> QED  BY <1>1, AlarmInvariant, PTL DEF Spec, RecoveryIsMeasuredWhileEncoding
-----------------------------------------------------------------------------
(* The counters.                                                            *)

\* While a run goes on the baseline is the last value seen, or there is none yet
\* and nothing was counted, ...
Going(s) == s.life = "up" \/ (s.life = "encoding" /\ ~Stopped(s))
CountersFollow ==
    Going(seen) =>
        \A c \in Codes \cap Counted :
            \/ counters[c] = <<Generation(c, seen), Value(c, seen)>>
            \/ counters[c] = NoCount /\ Value(c, seen) = 0
\* ... the code's age of the last increment is the true one, cut off, ...
SameAge(i, n) == i # None => n = i \/ (i = Quiet /\ n >= Quiet)
AgesFollow == \A c \in Codes \cap Counted : SameAge(increments[c], counted[c])
\* ... an alarm is open only over an increment, ...
OpenAfterIncrement == \A c \in active \cap Counted : increments[c] # None
\* ... and its recovery begins when that increment is ten seconds old.
QuietFor(age, n) == age # None => n >= Quiet + age \/ n >= Quiet + 3
QuietWhileClearing ==
    \A c \in active \cap Counted : Operating(seen) => QuietFor(clearing[c], counted[c])

CountType ==
    /\ seen.errors \in Nat /\ seen.drops \in Nat /\ seen.link \in Nat \ {0}
    /\ seen.life \in Lives /\ (seen.life = "up" => seen.errors = 0 /\ seen.drops = 0)
    /\ \A c \in Codes \cap Counted :
          increments[c] \in None..Quiet /\ counted[c] \in None..(Quiet + 3)

CountInv == CountType /\ CountersFollow /\ AgesFollow /\ OpenAfterIncrement /\ QuietWhileClearing

LEMMA InitCounts == Init => CountInv
BY DEF Init, CountInv, CountType, CountersFollow, AgesFollow, SameAge, OpenAfterIncrement,
   QuietWhileClearing, Blank, Going, Stopped, Quiet, Lives

\* What the snapshots of a run, or of a new one, are made from
LEMMA Bases ==
    ASSUME NEW b \in SameRun \cup NewRun
    PROVE  \/ \E p \in LaterPhases(b.life) :
                 /\ b = [Blank EXCEPT !.run = seen.run, !.life = b.life, !.phase = p,
                                      !.errors = seen.errors, !.drops = seen.drops, !.link = seen.link]
                 /\ b.life \in Onward[seen.life]
           \/ \E p : /\ b = [Blank EXCEPT !.run = seen.run + 1, !.life = b.life, !.phase = p]
                     /\ b.life \in {"up", "encoding", "dead"}
<1>1. CASE b \in SameRun
  <2>1. PICK life \in Onward[seen.life] :
           b \in {[Blank EXCEPT !.run = seen.run, !.life = life, !.phase = p, !.errors = seen.errors,
                                !.drops = seen.drops, !.link = seen.link] : p \in LaterPhases(life)}
    BY <1>1 DEF SameRun
  <2>2. PICK p \in LaterPhases(life) :
           b = [Blank EXCEPT !.run = seen.run, !.life = life, !.phase = p,
                             !.errors = seen.errors, !.drops = seen.drops, !.link = seen.link]
    BY <2>1, Zenon
  <2>3. b.life = life
    BY <2>2 DEF Blank
  <2> QED  BY <2>1, <2>2, <2>3
<1>2. CASE b \in NewRun
  <2>1. PICK life \in {"up", "encoding", "dead"} :
           b \in {[Blank EXCEPT !.run = seen.run + 1, !.life = life, !.phase = p] :
                     p \in PhasesOf(life)}
    BY <1>2 DEF NewRun
  <2>2. PICK p : b = [Blank EXCEPT !.run = seen.run + 1, !.life = life, !.phase = p]
    BY <2>1, Zenon
  <2>3. b.life = life
    BY <2>2 DEF Blank
  <2> QED  BY <2>1, <2>2, <2>3
<1> QED  BY <1>1, <1>2

LEMMA BaseFields ==
    ASSUME NEW b \in SameRun \cup NewRun
    PROVE  \/ /\ b.run = seen.run /\ b.life \in Onward[seen.life] /\ b.phase \in LaterPhases(b.life)
              /\ b.errors = seen.errors /\ b.drops = seen.drops /\ b.link = seen.link
           \/ /\ b.run = seen.run + 1 /\ b.life \in {"up", "encoding", "dead"}
              /\ b.errors = 0 /\ b.drops = 0 /\ b.link = 1
<1>1. CASE \E p \in LaterPhases(b.life) :
              /\ b = [Blank EXCEPT !.run = seen.run, !.life = b.life, !.phase = p,
                                   !.errors = seen.errors, !.drops = seen.drops, !.link = seen.link]
              /\ b.life \in Onward[seen.life]
  BY <1>1 DEF Blank
<1>2. CASE \E p : /\ b = [Blank EXCEPT !.run = seen.run + 1, !.life = b.life, !.phase = p]
                  /\ b.life \in {"up", "encoding", "dead"}
  BY <1>2 DEF Blank
<1> QED  BY <1>1, <1>2, Bases

\* Reading the measures changes nothing else.
LEMMA ReadFields ==
    ASSUME NEW b \in SameRun \cup NewRun, NEW s \in Read(b)
    PROVE  /\ s.run = b.run /\ s.life = b.life /\ s.phase = b.phase
           /\ \E r \in Readings(b) : s.errors = r.errors /\ s.drops = r.drops /\ s.link = r.link
<1>1. {"run", "life", "phase", "errors", "drops", "link"} \subseteq DOMAIN b
  <2>1. CASE \E p \in LaterPhases(b.life) :
                b = [Blank EXCEPT !.run = seen.run, !.life = b.life, !.phase = p,
                                  !.errors = seen.errors, !.drops = seen.drops, !.link = seen.link]
    BY <2>1 DEF Blank
  <2>2. CASE \E p : b = [Blank EXCEPT !.run = seen.run + 1, !.life = b.life, !.phase = p]
    BY <2>2 DEF Blank
  <2> QED  BY <2>1, <2>2, Bases
<1>2. PICK r \in Readings(b) :
         s = [b EXCEPT !.signal = r.signal, !.telemetry = r.telemetry, !.srt = r.srt,
                       !.errors = r.errors, !.drops = r.drops, !.link = r.link,
                       !.rtt = r.rtt, !.video = r.video, !.queue = r.queue,
                                 !.moved = r.moved]
  BY Zenon DEF Read
<1> QED  BY <1>1, <1>2

\* Between two snapshots a counter moves only where it is read.
LEMMA NextCounts ==
    ASSUME AgeType, CountType, NEW s \in Snapshots
    PROVE  /\ s.errors \in Nat /\ s.drops \in Nat /\ s.link \in Nat \ {0} /\ s.life \in Lives
           /\ s.run = seen.run => s.life \in Onward[seen.life]
           /\ s.life = "up" => s.errors = 0 /\ s.drops = 0
           /\ s.run = seen.run /\ Going(s) => Going(seen)
           /\ \A c \in Codes \cap Counted : ~Readable(c, s) =>
                 IF s.run = seen.run
                 THEN Value(c, s) = Value(c, seen) /\ Generation(c, s) = Generation(c, seen)
                 ELSE Value(c, s) = 0
<1>1. PICK b \in SameRun \cup NewRun : s \in Sampled(b)
  BY DEF Snapshots
<1>2. /\ b.errors \in Nat /\ b.drops \in Nat /\ b.link \in Nat \ {0} /\ b.life \in Lives
  <2>1. \A l \in Lives : Onward[l] \subseteq Lives
    BY DEF Onward, Lives
  <2>2. /\ b.errors \in Nat /\ b.drops \in Nat /\ b.link \in Nat \ {0}
        /\ b.life \in Onward[seen.life] \cup {"up", "encoding", "dead"}
    BY BaseFields DEF CountType
  <2> QED  BY <2>1, <2>2 DEF CountType, Lives
<1>3. /\ s.run = b.run /\ s.life = b.life /\ s.phase = b.phase
      /\ s.errors \in Nat /\ s.drops \in Nat /\ s.link \in Nat \ {0}
      /\ "udp_errors" \in Codes /\ ~Live(s) => s.errors = b.errors
      /\ "srt_drops" \in Codes /\ ~SrtLive(s) => s.drops = b.drops /\ s.link = b.link
  <2>1. CASE ~Operating(b)
    BY <1>1, <1>2, <2>1 DEF Sampled
  <2>2. CASE Operating(b)
    <3>1. /\ s \in Read(b)
          /\ s.telemetry # "live" => s.errors = b.errors
          /\ s.srt # "live" => s.drops = b.drops /\ s.link = b.link
      BY <1>1, <2>2 DEF Sampled
    <3>2. PICK r \in Readings(b) : s.errors = r.errors /\ s.drops = r.drops /\ s.link = r.link
      BY <3>1, ReadFields
    <3>3. r.errors \in Nat /\ r.drops \in Nat /\ r.link \in Nat \ {0}
      BY <1>2, AlarmBounds DEF Readings, For
    <3>4. s.run = b.run /\ s.life = b.life /\ s.phase = b.phase
      BY <3>1, ReadFields
    <3> QED  BY <2>2, <3>1, <3>2, <3>3, <3>4 DEF Live, SrtLive, Operating
  <2> QED  BY <2>1, <2>2
<1>4. s.run = seen.run =>
          /\ s.life \in Onward[seen.life] /\ s.phase \in LaterPhases(s.life)
          /\ b.errors = seen.errors /\ b.drops = seen.drops
  <2>1. s.run = b.run /\ s.phase = b.phase /\ s.life = b.life
    BY <1>3
  <2>2. seen.run \in Nat /\ (b.run = seen.run =>
                               /\ b.life \in Onward[seen.life] /\ b.phase \in LaterPhases(b.life)
                               /\ b.errors = seen.errors /\ b.drops = seen.drops)
    BY BaseFields DEF AgeType
  <2> QED  BY <2>1, <2>2
<1>7. s.run = seen.run /\ Going(s) => Going(seen)
  <2> SUFFICES ASSUME s.run = seen.run, Going(s) PROVE Going(seen)
    OBVIOUS
  <2>1. seen.life \in Lives /\ s.life \in Onward[seen.life] /\ s.phase \in LaterPhases(s.life)
    BY <1>4 DEF CountType
  <2>2. CASE s.life = "up"
    BY <2>1, <2>2 DEF Going, Lives, Onward
  <2>3. CASE s.life = "encoding" /\ ~Stopped(s)
    <3>1. seen.life \in {"up", "encoding"}
      BY <2>1, <2>3 DEF Lives, Onward
    <3>2. seen.life = "encoding" => ~Stopped(seen)
      BY <2>1, <2>3 DEF Stopped, LaterPhases
    <3> QED  BY <3>1, <3>2 DEF Going
  <2> QED  BY <2>2, <2>3 DEF Going
<1>8. s.life = "up" => s.errors = 0 /\ s.drops = 0
  <2> SUFFICES ASSUME s.life = "up" PROVE s.errors = 0 /\ s.drops = 0
    OBVIOUS
  <2>1. s.errors = b.errors /\ s.drops = b.drops
    BY <1>1, <1>3 DEF Sampled, Operating
  <2>2. CASE s.run = seen.run
    BY <1>4, <2>1, <2>2 DEF CountType, Lives, Onward
  <2>3. CASE s.run # seen.run
    BY <1>3, <2>1, <2>3, BaseFields
  <2> QED  BY <2>2, <2>3
<1>5. ASSUME NEW c \in Codes \cap Counted, ~Readable(c, s)
      PROVE  IF s.run = seen.run
             THEN Value(c, s) = Value(c, seen) /\ Generation(c, s) = Generation(c, seen)
             ELSE Value(c, s) = 0
  <2>1. /\ c = "udp_errors" => s.errors = b.errors
        /\ c = "srt_drops" => s.drops = b.drops /\ s.link = b.link
    BY <1>3, <1>5 DEF Readable
  <2>2. CASE s.run = seen.run
    <3>1. b.run = seen.run /\ seen.run \in Nat
      BY <1>3, <2>2 DEF AgeType
    <3>2. b.errors = seen.errors /\ b.drops = seen.drops /\ b.link = seen.link
      BY <3>1, BaseFields
    <3> QED  BY <2>1, <2>2, <3>2 DEF Counted, Value, Generation
  <2>3. CASE s.run # seen.run
    <3>1. b.errors = 0 /\ b.drops = 0
      BY <1>3, <2>3, BaseFields
    <3> QED  BY <2>1, <2>3, <3>1 DEF Counted, Value
  <2> QED  BY <2>2, <2>3
<1>6. s.run = seen.run => s.life \in Onward[seen.life]
  BY NextSnapshot DEF AgeType
<1> QED  BY <1>2, <1>3, <1>5, <1>6, <1>7, <1>8

\* An increment is what the snapshots show of one: neither a total that persists nor
\* one that comes back with a new run or connection is taken for it.
LEMMA IncrementIsSeen ==
    ASSUME AgeType, CountInv, NEW s \in Snapshots, ~Stopped(s), NEW c \in Codes \cap Counted
    PROVE  Incremented(c, s) <=> CountedUp(c, s)
<1> USE DEF Value, Generation, CountedUp, Incremented
<1>0. CountType /\ Value(c, s) \in Nat /\ Value(c, seen) \in Nat
  BY NextCounts DEF CountInv, CountType
<1>1. CASE ~Readable(c, s)
  <2>1. IF s.run = seen.run
        THEN Value(c, s) = Value(c, seen) /\ Generation(c, s) = Generation(c, seen)
        ELSE Value(c, s) = 0
    BY <1>0, <1>1, NextCounts
  <2> QED  BY <1>0, <1>1, <2>1 DEF Counted
<1>2. CASE Readable(c, s) /\ s.run # seen.run
  BY <1>2, ResetOrSame DEF Baseline
<1>3. CASE Readable(c, s) /\ s.run = seen.run
  <2>1. Going(seen)
    <3>1. s.life = "encoding"
      BY <1>3 DEF Readable, Live, SrtLive, Operating
    <3> QED  BY <1>0, <1>3, <3>1, NextCounts DEF Going
  <2>2. ~Reset(s)
    BY <1>3, ResetOrSame
  <2>3. \/ counters[c] = <<Generation(c, seen), Value(c, seen)>>
        \/ counters[c] = NoCount /\ Value(c, seen) = 0
    BY <2>1 DEF CountInv, CountersFollow
  <2>4. CASE counters[c] = <<Generation(c, seen), Value(c, seen)>>
    BY <1>3, <2>2, <2>4 DEF Baseline, Counted
  <2>5. CASE counters[c] = NoCount /\ Value(c, seen) = 0
    BY <1>0, <1>3, <2>2, <2>5 DEF Baseline, Counted, NoCount
  <2> QED  BY <2>3, <2>4, <2>5
<1> QED  BY <1>1, <1>2, <1>3

\* Two ages that agree go on to agree, each up to its own limit.
LEMMA AgesAgree ==
    ASSUME NEW i \in None..Quiet, NEW n \in None..(Quiet + 3), SameAge(i, n), NEW d \in Nat \ {0}
    PROVE  /\ Older(i, d, Quiet) \in None..Quiet /\ Older(n, d, Quiet + 3) \in None..(Quiet + 3)
           /\ SameAge(Older(i, d, Quiet), Older(n, d, Quiet + 3))
BY DEF Older, SameAge, Quiet

LEMMA RulesCount ==
    ASSUME AgeType, CountInv, NEW s \in Snapshots, NEW d \in Nat \ {0}, ~Stopped(s), Remember(s, d),
           NEW c \in Codes \cap Counted
    PROVE  /\ IncrementAge(c, s, d) \in None..Quiet /\ counted'[c] \in None..(Quiet + 3)
           /\ SameAge(IncrementAge(c, s, d), counted'[c])
<1>1. /\ increments[c] \in None..Quiet /\ counted[c] \in None..(Quiet + 3)
      /\ SameAge(increments[c], counted[c])
  BY DEF CountInv, CountType, AgesFollow
<1>2. counted'[c] = IF CountedUp(c, s) THEN 0
                    ELSE IF s.run # seen.run THEN None ELSE Older(counted[c], d, Quiet + 3)
  BY DEF Remember, Clear, Counted, Graded
<1>3. IncrementAge(c, s, d) = IF CountedUp(c, s) THEN 0
                              ELSE IF s.run # seen.run THEN None ELSE Older(increments[c], d, Quiet)
  BY IncrementIsSeen, ResetOrSame DEF IncrementAge, Aged
<1>4. /\ Older(increments[c], d, Quiet) \in None..Quiet
      /\ Older(counted[c], d, Quiet + 3) \in None..(Quiet + 3)
      /\ SameAge(Older(increments[c], d, Quiet), Older(counted[c], d, Quiet + 3))
  BY <1>1, AgesAgree
<1>5. CASE CountedUp(c, s)
  <2>1. counted'[c] = 0 /\ IncrementAge(c, s, d) = 0
    BY <1>2, <1>3, <1>5
  <2> QED  BY <2>1 DEF SameAge, Quiet
<1>6. CASE ~CountedUp(c, s) /\ s.run # seen.run
  <2>1. counted'[c] = None /\ IncrementAge(c, s, d) = None
    BY <1>2, <1>3, <1>6
  <2> QED  BY <2>1 DEF SameAge, Quiet
<1>7. CASE ~CountedUp(c, s) /\ s.run = seen.run
  BY <1>2, <1>3, <1>4, <1>7
<1> QED  BY <1>5, <1>6, <1>7

\* While the encoder is up, the recovery of an open alarm runs behind its quiet.
LEMMA QuietAsLong ==
    ASSUME AlarmInv, CountInv, NEW s \in Snapshots, NEW d \in Nat \ {0}, ~Stopped(s), Remember(s, d),
           NEW c \in active \cap Counted, s.run = seen.run, Operating(s)
    PROVE  QuietFor(Clearing(c, s, d), counted'[c])
<1>0. c \in Codes \cap Counted /\ AgeType /\ ~Reset(s) /\ clearing[c] \in Ages
  BY ResetOrSame DEF AlarmInv, AgeType
<1> SUFFICES ASSUME Clearing(c, s, d) # None
             PROVE  counted'[c] >= Quiet + Clearing(c, s, d) \/ counted'[c] >= Quiet + 3
  BY DEF QuietFor
<1>1. Operating(seen)
  <2>1. s.life = "encoding" /\ seen.life \in {"encoding", "dead"}
    BY <1>0 DEF Operating, AlarmInv, OpenAfterEncoding, Counted, Plain
  <2>2. s.life \in Onward[seen.life]
    BY NextSnapshot, <1>0 DEF AgeType
  <2> QED  BY <2>1, <2>2 DEF Onward, Operating
<1>2. ~CountedUp(c, s) /\ increments[c] # None /\ IncrementAge(c, s, d) = Quiet
  <2>1. ~Condition(c, s, d)
    BY NotBoth
  <2>2. IncrementAge(c, s, d) \notin 0..(Quiet - 1)
    BY <1>0, <2>1 DEF Condition, Counted
  <2>3. increments[c] # None /\ increments[c] \in None..Quiet
    BY <1>0 DEF CountInv, OpenAfterIncrement, CountType
  <2>4. IncrementAge(c, s, d) \in 0..Quiet
    BY <1>0, <2>3 DEF IncrementAge, Aged, Older, Quiet
  <2>5. IncrementAge(c, s, d) = Quiet
    BY <2>2, <2>4 DEF Quiet
  <2> QED  BY <1>0, <2>3, <2>5, IncrementIsSeen DEF IncrementAge, Quiet
<1>3. counted'[c] \in Quiet..(Quiet + 3)
  BY <1>0, <1>2, RulesCount DEF SameAge, Quiet
<1>4. counted'[c] = Older(counted[c], d, Quiet + 3) /\ counted[c] \in None..(Quiet + 3)
  BY <1>0, <1>2 DEF Remember, Clear, Counted, Graded, CountInv, CountType
<1>5. Clearing(c, s, d) = Since(Older(clearing[c], d, Longest))
  BY <1>0 DEF Clearing, Aged
<1>6. CASE clearing[c] = None
  BY <1>3, <1>5, <1>6 DEF Older, Since, Quiet
<1>7. CASE clearing[c] # None
  <2>1. clearing[c] \in 0..Longest /\ (counted[c] >= Quiet + clearing[c] \/ counted[c] >= Quiet + 3)
    BY <1>0, <1>1, <1>7 DEF CountInv, QuietWhileClearing, QuietFor, Ages, Longest
  <2> QED  BY <1>3, <1>4, <1>5, <2>1 DEF Older, Since, Quiet, Longest
<1> QED  BY <1>6, <1>7

LEMMA CountersStep ==
    ASSUME AgeType, CountInv, NEW s \in Snapshots, NEW d, EvaluateRules(s, d), seen' = s
    PROVE  CountersFollow'
<1> SUFFICES ASSUME Going(s), NEW c \in Codes \cap Counted
             PROVE  \/ counters'[c] = <<Generation(c, s), Value(c, s)>>
                    \/ counters'[c] = NoCount /\ Value(c, s) = 0
  BY DEF CountersFollow, Value, Generation
<1>0. CountType /\ ~Stopped(s)
  BY DEF CountInv, EvaluateRules
<1>1. CASE Readable(c, s)
  BY <1>1 DEF EvaluateRules
<1>2. CASE ~Readable(c, s) /\ s.run # seen.run
  <2>1. counters'[c] = NoCount
    BY <1>0, <1>2, ResetOrSame DEF EvaluateRules
  <2> QED  BY <1>0, <1>2, <2>1, NextCounts
<1>3. CASE ~Readable(c, s) /\ s.run = seen.run
  <2>1. counters'[c] = counters[c]
    BY <1>0, <1>3, ResetOrSame DEF EvaluateRules
  <2>2. Going(seen)
    BY <1>0, <1>3, NextCounts
  <2>3. \/ counters[c] = <<Generation(c, seen), Value(c, seen)>>
        \/ counters[c] = NoCount /\ Value(c, seen) = 0
    BY <2>2 DEF CountInv, CountersFollow
  <2>4. Value(c, s) = Value(c, seen) /\ Generation(c, s) = Generation(c, seen)
    BY <1>0, <1>3, NextCounts
  <2> QED  BY <2>1, <2>3, <2>4
<1> QED  BY <1>1, <1>2, <1>3

LEMMA RulesKeepCounts ==
    ASSUME AlarmInv, CountInv, NEW s \in Snapshots, NEW d \in Nat \ {0}, EvaluateRules(s, d),
           Remember(s, d)
    PROVE  CountInv'
<1>0. AgeType /\ CountType /\ seen' = s /\ ~Stopped(s)
  BY DEF AlarmInv, CountInv, EvaluateRules, Remember
<1>1. \A c \in Codes : /\ increments'[c] = IncrementAge(c, s, d) /\ clearing'[c] = Clearing(c, s, d)
  BY DEF EvaluateRules
<1>2. CountType'
  BY <1>0, <1>1, NextCounts, RulesCount DEF CountType
<1>3. CountersFollow'
  BY <1>0, CountersStep
<1>4. AgesFollow'
  BY <1>0, <1>1, RulesCount DEF AgesFollow
<1>5. OpenAfterIncrement' /\ QuietWhileClearing'
  <2> SUFFICES ASSUME NEW c \in active' \cap Counted
               PROVE  /\ increments'[c] # None
                      /\ Operating(s) => QuietFor(clearing'[c], counted'[c])
    BY <1>0 DEF OpenAfterIncrement, QuietWhileClearing
  <2>0. c \in Codes \cap Counted
    BY KeptOrRaised
  <2>1. CASE c \in active /\ s.run = seen.run
    <3>1. increments'[c] # None
      <4>1. increments[c] # None /\ increments[c] \in None..Quiet
        BY <1>0, <2>0, <2>1 DEF CountInv, OpenAfterIncrement, CountType
      <4> QED  BY <1>0, <1>1, <2>0, <2>1, <4>1, ResetOrSame DEF IncrementAge, Aged, Older, Quiet
    <3> QED  BY <1>0, <1>1, <2>0, <2>1, <3>1, QuietAsLong
  <2>2. CASE c \in Raised(s, d)
    <3>1. Condition(c, s, d) /\ Clearing(c, s, d) = None
      BY <2>2, NotBoth DEF Raised, Raises
    <3>2. IncrementAge(c, s, d) \in 0..(Quiet - 1)
      BY <2>0, <3>1 DEF Condition, Counted
    <3> QED  BY <1>1, <2>0, <3>1, <3>2 DEF QuietFor, Quiet
  <2> QED  BY <2>1, <2>2, KeptOrRaised
<1> QED  BY <1>2, <1>3, <1>4, <1>5 DEF CountInv

LEMMA StopKeepsCounts ==
    ASSUME AlarmInv, CountInv, NEW s \in Snapshots, NEW d \in Nat \ {0}, EvaluateStopped(s),
           Remember(s, d)
    PROVE  CountInv'
<1>0. AgeType /\ CountType /\ seen' = s /\ Stopped(s) /\ active' = {}
      /\ \A c \in Codes : increments'[c] = None
  BY DEF AlarmInv, CountInv, EvaluateStopped, Remember
<1>1. ASSUME NEW c \in Codes \cap Counted PROVE counted'[c] \in None..(Quiet + 3)
  <2>1. counted[c] \in None..(Quiet + 3) /\ Clear(c) = 3
    BY <1>0 DEF CountType, Clear, Counted, Graded
  <2>2. counted'[c] = IF CountedUp(c, s) THEN 0
                      ELSE IF s.run # seen.run THEN None ELSE Older(counted[c], d, Quiet + Clear(c))
    BY DEF Remember
  <2> QED  BY <2>1, <2>2 DEF Older, Quiet
<1>2. CountType'
  BY <1>0, <1>1, NextCounts DEF CountType, EvaluateStopped, Remember, Quiet
<1>3. CountersFollow'
  <2> SUFFICES ASSUME Going(s), NEW c \in Codes \cap Counted
               PROVE  counters'[c] = NoCount /\ Value(c, s) = 0
    BY <1>0 DEF CountersFollow, Value, Generation
  <2>1. s.life = "up" /\ counters'[c] = NoCount
    BY <1>0 DEF Going, EvaluateStopped
  <2> QED  BY <1>0, <2>1, NextCounts DEF Value
<1> QED
  BY <1>0, <1>2, <1>3 DEF CountInv, AgesFollow, SameAge, OpenAfterIncrement, QuietWhileClearing

LEMMA NextCountInv == AlarmInv /\ CountInv /\ [Next]_vars => CountInv'
<1> SUFFICES ASSUME AlarmInv, CountInv, [Next]_vars PROVE CountInv'
  OBVIOUS
<1>1. ASSUME NEW s \in Snapshots, NEW d \in Delays, Evaluate(s, d) PROVE CountInv'
  BY <1>1, AlarmBounds, RulesKeepCounts, StopKeepsCounts DEF Evaluate
<1>2. CASE UNCHANGED vars
  BY <1>2 DEF CountInv, CountType, CountersFollow, AgesFollow, OpenAfterIncrement,
     QuietWhileClearing, Value, Generation
<1> QED  BY <1>1, <1>2 DEF Next

LEMMA CountInvariant == Spec => []CountInv
BY InitCounts, NextCountInv, AlarmInvariant, PTL DEF Spec

\* An alarm about errors or drops is raised only over an increment of the last ten
\* seconds, and recovers only ten seconds and three more after the last one; a total
\* that persists or comes back does neither (Alarms.evaluate, its counters).
THEOREM CountersAreNoTotals == Spec => CountersSpeakOfChanges
<1>1. AlarmInv /\ CountInv /\ [Next]_vars =>
        [\A c \in Codes \cap Counted :
            /\ [code |-> c, reason |-> "threshold"] \in events' => counted'[c] \in 0..(Quiet - 1)
            /\ [code |-> c, reason |-> "recovered"] \in events' /\ Operating(seen') =>
                  counted'[c] >= Quiet + Clear(c)]_vars
  <2> SUFFICES ASSUME AlarmInv, CountInv, NEW s \in Snapshots, NEW d \in Delays,
                      Evaluate(s, d), NEW c \in Codes \cap Counted
               PROVE  /\ [code |-> c, reason |-> "threshold"] \in events' =>
                            counted'[c] \in 0..(Quiet - 1)
                      /\ [code |-> c, reason |-> "recovered"] \in events' /\ Operating(s) =>
                            counted'[c] >= Quiet + Clear(c)
    BY DEF Next, Evaluate, Remember
  <2>0. AgeType /\ d \in Nat \ {0} /\ Remember(s, d)
    BY AlarmBounds DEF AlarmInv, Evaluate
  <2>1. ASSUME [code |-> c, reason |-> "threshold"] \in events'
        PROVE  counted'[c] \in 0..(Quiet - 1)
    <3>1. EvaluateRules(s, d) /\ c \in Raised(s, d)
      BY <2>1 DEF Evaluate, EvaluateRules, EvaluateStopped, Dropped
    <3>2. IncrementAge(c, s, d) \in 0..(Quiet - 1)
      BY <3>1, NotBoth DEF Raised, Raises, Condition, Counted
    <3>3. SameAge(IncrementAge(c, s, d), counted'[c])
      BY <2>0, <3>1, RulesCount DEF EvaluateRules
    <3> QED  BY <3>2, <3>3 DEF SameAge, Quiet
  <2>2. ASSUME [code |-> c, reason |-> "recovered"] \in events', Operating(s)
        PROVE  counted'[c] >= Quiet + Clear(c)
    <3>1. EvaluateRules(s, d) /\ c \in Recovered(s, d) /\ ~Stopped(s)
      BY <2>2 DEF Evaluate, EvaluateRules, EvaluateStopped, Dropped
    <3>2. c \in active /\ s.run = seen.run /\ Clear(c) = 3
      BY <2>0, <3>1 DEF Recovered, Recovers, Kept, Reset, Changed, AgeType, Clear, Counted, Graded
    <3>3. Clearing(c, s, d) # None /\ Clearing(c, s, d) >= 3
      BY <3>1, <3>2 DEF Recovered, Recovers
    <3>4. QuietFor(Clearing(c, s, d), counted'[c])
      BY <2>0, <2>2, <3>1, <3>2, QuietAsLong
    <3>5. Clearing(c, s, d) \in Ages /\ counted'[c] \in None..(Quiet + 3)
      BY <2>0, <3>1, NewAges, RulesCount
    <3> QED  BY <3>2, <3>3, <3>4, <3>5 DEF QuietFor, Quiet, Ages, Longest
  <2> QED  BY <2>1, <2>2
<1> QED  BY <1>1, AlarmInvariant, CountInvariant, PTL DEF Spec, CountersSpeakOfChanges

-----------------------------------------------------------------------------
(* Types.  Every snapshot that may follow is a snapshot again, so what the  *)
(* alarms take over from it keeps its bounds.                               *)

LEMMA PhasesArePhases ==
    ASSUME NEW l \in Lives
    PROVE  PhasesOf(l) \subseteq Phases /\ LaterPhases(l) \subseteq Phases /\ Onward[l] \subseteq Lives
BY DEF Lives, PhasesOf, LaterPhases, Phases, Onward

LEMMA BlankIsSnapshot == Blank \in Snapshot
BY AlarmBounds DEF Blank, Snapshot, Lives, Phases, Statuses, Levels

LEMMA BaseIsSnapshot ==
    ASSUME seen \in Snapshot, NEW b \in SameRun \cup NewRun
    PROVE  b \in Snapshot
<1>0. Blank \in Snapshot /\ seen.life \in Lives
  BY BlankIsSnapshot DEF Snapshot
<1>1. CASE b \in SameRun
  <2>1. PICK life \in Onward[seen.life] :
           b \in {[Blank EXCEPT !.run = seen.run, !.life = life, !.phase = p, !.errors = seen.errors,
                                !.drops = seen.drops, !.link = seen.link] : p \in LaterPhases(life)}
    BY <1>1 DEF SameRun
  <2>2. PICK p \in LaterPhases(life) :
           b = [Blank EXCEPT !.run = seen.run, !.life = life, !.phase = p,
                             !.errors = seen.errors, !.drops = seen.drops, !.link = seen.link]
    BY <2>1, Zenon
  <2>3. life \in Lives /\ p \in Phases
    BY <1>0, <2>1, <2>2, PhasesArePhases
  <2> QED  BY <1>0, <2>2, <2>3 DEF Snapshot
<1>2. CASE b \in NewRun
  <2>1. PICK life \in {"up", "encoding", "dead"} :
           /\ seen.run # MaxRun
           /\ b \in {[Blank EXCEPT !.run = seen.run + 1, !.life = life, !.phase = p] :
                       p \in PhasesOf(life)}
    BY <1>2 DEF NewRun
  <2>2. PICK p \in PhasesOf(life) : b = [Blank EXCEPT !.run = seen.run + 1, !.life = life, !.phase = p]
    BY <2>1, Zenon
  <2>3. life \in Lives
    BY DEF Lives
  <2>4. p \in Phases
    BY <2>2, <2>3, PhasesArePhases
  <2>5. seen.run + 1 \in 0..MaxRun
    <3>1. seen.run \in 0..MaxRun
      BY DEF Snapshot
    <3>2. seen.run # MaxRun
      BY <2>1
    <3> QED  BY <3>1, <3>2, AlarmBounds
  <2> QED  BY <1>0, <2>2, <2>3, <2>4, <2>5 DEF Snapshot
<1> QED  BY <1>1, <1>2

LEMMA NextIsSnapshot ==
    ASSUME seen \in Snapshot, NEW s \in Snapshots
    PROVE  s \in Snapshot
<1>1. PICK b \in SameRun \cup NewRun : s \in Sampled(b)
  BY DEF Snapshots
<1>2. b \in Snapshot
  BY BaseIsSnapshot
<1>3. CASE ~Operating(b)
  BY <1>1, <1>2, <1>3 DEF Sampled
<1>4. CASE Operating(b)
  <2>1. s \in Read(b)
    BY <1>1, <1>4 DEF Sampled
  <2>2. PICK r \in Readings(b) :
           s = [b EXCEPT !.signal = r.signal, !.telemetry = r.telemetry, !.srt = r.srt,
                         !.errors = r.errors, !.drops = r.drops, !.link = r.link,
                         !.rtt = r.rtt, !.video = r.video, !.queue = r.queue,
                                 !.moved = r.moved]
    BY <2>1, Zenon DEF Read
  <2>3. /\ r.signal \in {"receiving", "reconnecting", "other"}
        /\ r.telemetry \in Statuses /\ r.srt \in Statuses /\ r.rtt \in Levels /\ r.queue \in Levels
        /\ r.video \in BOOLEAN /\ r.moved \in BOOLEAN
    BY DEF Readings, For, Statuses, Levels
  <2>4. r.errors \in 0..MaxCount /\ r.drops \in 0..MaxCount /\ r.link \in 1..MaxLink
    BY <1>2, AlarmBounds DEF Readings, For, Snapshot
  <2> QED  BY <1>2, <2>2, <2>3, <2>4 DEF Snapshot
<1> QED  BY <1>3, <1>4

LEMMA OlderType ==
    ASSUME NEW cap \in Nat, NEW age \in None..cap, NEW d \in Nat
    PROVE  Older(age, d, cap) \in None..cap
BY DEF Older

\* What a counter is kept as, and the ages of one evaluation
LEMMA NewTypes ==
    ASSUME TypeOK, NEW s \in Snapshot, NEW d \in Nat \ {0}
    PROVE  /\ FrameAge(s, d) \in None..Stall
           /\ \A c \in Codes :
                 /\ Pending(c, s, d) \in None..Longest /\ Clearing(c, s, d) \in None..Longest
                 /\ Pending(c, s, d) = None \/ Clearing(c, s, d) = None
                 /\ IncrementAge(c, s, d) \in None..Quiet
                 /\ Generation(c, s) \in Nat /\ Value(c, s) \in 0..MaxCount
<1>1. FrameAge(s, d) \in None..Stall
  <2>1. frame \in None..Stall /\ Stall \in Nat
    BY DEF TypeOK, Stall
  <2>2. Older(frame, d, Stall) \in None..Stall
    BY <2>1, OlderType
  <2>3. None \in None..Stall /\ 0 \in None..Stall
    BY DEF Stall
  <2> QED  BY <2>2, <2>3 DEF FrameAge
<1>2. ASSUME NEW c \in Codes
      PROVE  /\ Pending(c, s, d) \in None..Longest /\ Clearing(c, s, d) \in None..Longest
             /\ IncrementAge(c, s, d) \in None..Quiet
  <2>1. /\ Aged(pending[c], s, d, Longest) \in None..Longest
        /\ Aged(clearing[c], s, d, Longest) \in None..Longest
        /\ Aged(increments[c], s, d, Quiet) \in None..Quiet
    <3>1. /\ pending[c] \in None..Longest /\ clearing[c] \in None..Longest
          /\ increments[c] \in None..Quiet /\ Longest \in Nat /\ Quiet \in Nat
      BY DEF TypeOK, Longest, Quiet
    <3>2. /\ Older(pending[c], d, Longest) \in None..Longest
          /\ Older(clearing[c], d, Longest) \in None..Longest
          /\ Older(increments[c], d, Quiet) \in None..Quiet
      BY <3>1, OlderType
    <3>3. None \in None..Longest /\ None \in None..Quiet
      BY DEF Longest, Quiet
    <3> QED  BY <3>2, <3>3 DEF Aged
  <2> QED  BY <2>1 DEF Pending, Clearing, IncrementAge, Since, Longest, Quiet
<1>3. ASSUME NEW c \in Codes PROVE Generation(c, s) \in Nat /\ Value(c, s) \in 0..MaxCount
  BY AlarmBounds DEF Generation, Value, Snapshot
<1> QED  BY <1>1, <1>2, <1>3, NotBoth

LEMMA InitTypes == Init => TypeOK
<1>1. NoCount \in Nat \X (0..MaxCount)
  BY AlarmBounds DEF NoCount
<1>2. None \in None..Longest /\ None \in None..Quiet /\ None \in None..Stall
  BY DEF Longest, Quiet, Stall
<1> SUFFICES ASSUME Init PROVE TypeOK
  OBVIOUS
<1>3. runId \in 0..MaxRun /\ raisedBy \in [Codes -> 0..MaxRun] /\ active \subseteq Codes
  BY AlarmBounds DEF Init
<1>4. /\ pending \in [Codes -> None..Longest] /\ clearing \in [Codes -> None..Longest]
      /\ increments \in [Codes -> None..Quiet] /\ frame \in None..Stall
      /\ \A c \in Codes : pending[c] = None
  BY <1>2 DEF Init
<1>5. \A c \in Codes : counters[c] \in Nat \X (0..MaxCount)
  BY <1>1 DEF Init
<1>6. seen \in Snapshot /\ beat \in BOOLEAN
  BY BlankIsSnapshot DEF Init
<1> QED  BY <1>3, <1>4, <1>5, <1>6 DEF TypeOK

LEMMA NextTypes == TypeOK /\ [Next]_vars => TypeOK'
<1> SUFFICES ASSUME TypeOK, [Next]_vars PROVE TypeOK'
  OBVIOUS
<1>1. ASSUME NEW s \in Snapshots, NEW d \in Delays, Evaluate(s, d) PROVE TypeOK'
  <2>0. /\ s \in Snapshot /\ d \in Nat \ {0} /\ seen' = s /\ runId' = s.run /\ beat' \in BOOLEAN
        /\ s.run \in 0..MaxRun
    BY <1>1, NextIsSnapshot, AlarmBounds DEF TypeOK, Evaluate, Remember, Snapshot
  <2>1. CASE EvaluateStopped(s)
    BY <2>0, <2>1, AlarmBounds DEF TypeOK, EvaluateStopped, NoCount, Longest, Quiet, Stall
  <2>2. CASE EvaluateRules(s, d)
    <3>1. active' \subseteq Codes /\ raisedBy' \in [Codes -> 0..MaxRun]
      BY <2>0, <2>2 DEF TypeOK, EvaluateRules, Kept, Raised
    <3>2. \A c \in Codes : counters'[c] \in Nat \X (0..MaxCount)
      <4>1. NoCount \in Nat \X (0..MaxCount)
        BY AlarmBounds DEF NoCount
      <4>2. \A c \in Codes : counters[c] \in Nat \X (0..MaxCount)
        BY DEF TypeOK
      <4> QED  BY <2>0, <2>2, <4>1, <4>2, NewTypes DEF EvaluateRules
    <3>3. /\ pending' \in [Codes -> None..Longest] /\ clearing' \in [Codes -> None..Longest]
          /\ increments' \in [Codes -> None..Quiet] /\ frame' \in None..Stall
          /\ \A c \in Codes : pending'[c] = None \/ clearing'[c] = None
      BY <2>0, <2>2, NewTypes DEF EvaluateRules
    <3> QED  BY <2>0, <3>1, <3>2, <3>3 DEF TypeOK
  <2> QED  BY <1>1, <2>1, <2>2 DEF Evaluate
<1>2. CASE UNCHANGED vars
  BY <1>2 DEF TypeOK
<1> QED  BY <1>1, <1>2 DEF Next

\* The alarms keep their types, and no code waits to be raised and to be cleared at
\* once (Alarms.pending and Alarms.clearing).
THEOREM AlarmTypes == Spec => []TypeOK
BY InitTypes, NextTypes, PTL DEF Spec
=============================================================================
