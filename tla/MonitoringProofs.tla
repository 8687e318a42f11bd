-------------------------- MODULE MonitoringProofs ---------------------------
(***************************************************************************)
(* Proofs about the history of the incidents on disk, for any finite set   *)
(* of alarms, any limit of the rows kept and any samples, over any number  *)
(* of crashes, restarts and refusals of the disk.                          *)
(***************************************************************************)
EXTENDS Monitoring, TLAPS, FiniteSetTheorems, SequenceTheorems

Rows == [code : Codes, state : {"active", "resolved"}]

-----------------------------------------------------------------------------
(* What a batch of rows does to the incidents that are open on disk         *)

LEMMA InSomeOrder ==
    ASSUME NEW S, IsFiniteSet(S)
    PROVE  /\ SetToSeq(S) \in [1..Cardinality(S) -> S]
           /\ \A x \in S : \E i \in DOMAIN SetToSeq(S) : SetToSeq(S)[i] = x
<1> DEFINE n == Cardinality(S)
           f == SetToSeq(S)
<1>1. n \in Nat /\ ExistsBijection(1..n, S)
  BY FS_CardinalityType
<1>2. \E g \in [1..n -> S] : IsInjective(g)
  BY <1>1 DEF ExistsBijection, Bijection, Injection
<1>3. f \in [1..n -> S] /\ IsInjective(f)
  BY <1>2 DEF SetToSeq
<1>4. f \in Injection(1..n, S)
  BY <1>3 DEF Injection
<1>5. Cardinality(1..n) = n /\ IsFiniteSet(1..n)
  BY <1>1, FS_Interval
<1>6. f \in Surjection(1..n, S)
  BY <1>4, <1>5, FS_Injection
<1> HIDE DEF f, n
<1> QED  BY <1>1, <1>3, <1>6 DEF Surjection, f, n

LEMMA RangeOfEvents ==
    ASSUME NEW codes \in SUBSET Codes, NEW s \in {"active", "resolved"}
    PROVE  /\ EventsOf(codes, s) \in Seq(Rows)
           /\ Range(EventsOf(codes, s)) = {Event(c, s) : c \in codes}
<1> DEFINE order == SetToSeq(codes)
           n == Cardinality(codes)
<1>1. IsFiniteSet(codes) /\ n \in Nat
  BY MonitoringConstants, FS_Subset, FS_CardinalityType
<1>2. /\ order \in [1..n -> codes] /\ DOMAIN order = 1..n
      /\ \A x \in codes : \E i \in DOMAIN order : order[i] = x
  BY <1>1, InSomeOrder
<1>3. \A i \in 1..n : order[i] \in codes
  BY <1>2
<1>4. EventsOf(codes, s) = [i \in 1..n |-> Event(order[i], s)]
  BY <1>2 DEF EventsOf
<1> HIDE DEF order, n
<1>5. \A i \in 1..n : Event(order[i], s) \in Rows
  BY <1>3 DEF Event, Rows
<1>6. [i \in 1..n |-> Event(order[i], s)] \in Seq(Rows)
  BY <1>1, <1>5, IsASeq
<1>7. Range(EventsOf(codes, s)) = {Event(order[i], s) : i \in 1..n}
  BY <1>4 DEF Range
<1>8. {Event(order[i], s) : i \in 1..n} = {Event(c, s) : c \in codes}
  BY <1>2, <1>3
<1> QED  BY <1>4, <1>6, <1>7, <1>8 DEF order, n

LEMMA RangeOfConcat ==
    ASSUME NEW a \in Seq(Rows), NEW b \in Seq(Rows)
    PROVE  a \o b \in Seq(Rows) /\ Range(a \o b) = Range(a) \cup Range(b)
<1>1. /\ a \o b \in Seq(Rows) /\ Len(a \o b) = Len(a) + Len(b) /\ Len(a) \in Nat /\ Len(b) \in Nat
      /\ \A i \in 1..Len(a) + Len(b) : (a \o b)[i] = IF i <= Len(a) THEN a[i] ELSE b[i - Len(a)]
      /\ DOMAIN (a \o b) = 1..Len(a) + Len(b) /\ DOMAIN a = 1..Len(a) /\ DOMAIN b = 1..Len(b)
  BY ConcatProperties, LenProperties
<1>2. ASSUME NEW e \in Range(a \o b) PROVE e \in Range(a) \cup Range(b)
  <2>1. PICK i \in 1..Len(a) + Len(b) : e = (a \o b)[i]
    BY <1>1 DEF Range
  <2>2. CASE i <= Len(a)
    BY <1>1, <2>1, <2>2 DEF Range
  <2>3. CASE i > Len(a)
    <3>1. i - Len(a) \in 1..Len(b) /\ e = b[i - Len(a)]
      BY <1>1, <2>1, <2>3
    <3> QED  BY <1>1, <3>1 DEF Range
  <2> QED  BY <1>1, <2>2, <2>3
<1>3. ASSUME NEW e \in Range(a) PROVE e \in Range(a \o b)
  <2>1. PICK i \in 1..Len(a) : e = a[i]
    BY <1>1 DEF Range
  <2>2. i \in 1..Len(a) + Len(b) /\ e = (a \o b)[i]
    BY <1>1, <2>1
  <2> QED  BY <1>1, <2>2 DEF Range
<1>4. ASSUME NEW e \in Range(b) PROVE e \in Range(a \o b)
  <2>1. PICK i \in 1..Len(b) : e = b[i]
    BY <1>1 DEF Range
  <2>2. i + Len(a) \in 1..Len(a) + Len(b) /\ e = (a \o b)[i + Len(a)]
    BY <1>1, <2>1
  <2> QED  BY <1>1, <2>2 DEF Range
<1> QED  BY <1>1, <1>2, <1>3, <1>4

\* To keep only the newest rows opens nothing: what goes is older than what stays.
LEMMA NewestOpensNothing ==
    ASSUME NEW rows \in Seq(Rows)
    PROVE  Newest(rows, AlarmLimit) \in Seq(Rows) /\ OpenOn(Newest(rows, AlarmLimit)) \subseteq OpenOn(rows)
<1>1. CASE Len(rows) <= AlarmLimit
  BY <1>1 DEF Newest
<1>2. CASE ~(Len(rows) <= AlarmLimit)
  <2> DEFINE k == Len(rows) - AlarmLimit
             kept == SubSeq(rows, k + 1, Len(rows))
  <2>1. Len(rows) \in Nat /\ k \in Nat /\ AlarmLimit \in Nat /\ k + AlarmLimit = Len(rows)
    BY <1>2, MonitoringConstants, LenProperties
  <2>2. \A i \in k + 1..Len(rows) : rows[i] \in Rows
    BY <2>1, ElementOfSeq
  <2>3. /\ kept \in Seq(Rows) /\ Len(kept) = AlarmLimit
        /\ \A i \in 1..AlarmLimit : kept[i] = rows[k + i]
    BY <2>1, <2>2, SubSeqProperties, MonitoringConstants
  <2>4. Newest(rows, AlarmLimit) = kept
    BY <1>2 DEF Newest
  <2> HIDE DEF kept, k
  <2>5. ASSUME NEW c \in OpenOn(kept) PROVE c \in OpenOn(rows)
    <3>1. PICK i \in 1..AlarmLimit : /\ kept[i] = Event(c, "active")
                                     /\ \A j \in i + 1..AlarmLimit : kept[j].code # c
      BY <2>3 DEF OpenOn
    <3>2. k + i \in 1..Len(rows) /\ rows[k + i] = Event(c, "active")
      BY <2>1, <2>3, <3>1
    <3>3. ASSUME NEW j \in k + i + 1..Len(rows) PROVE rows[j].code # c
      <4>1. j - k \in i + 1..AlarmLimit /\ j - k \in 1..AlarmLimit /\ k + (j - k) = j
        BY <2>1
      <4> QED  BY <2>3, <3>1, <4>1
    <3> QED  BY <3>2, <3>3 DEF OpenOn
  <2> QED  BY <2>3, <2>4, <2>5
<1> QED  BY <1>1, <1>2

\* What is open after a batch of rows was opened by it, or was open before and
\* the batch does not speak of it.
LEMMA OpenAfterBatch ==
    ASSUME NEW rows \in Seq(Rows), NEW batch \in Seq(Rows), NEW c \in OpenOn(rows \o batch)
    PROVE  \/ Event(c, "active") \in Range(batch)
           \/ c \in OpenOn(rows) /\ \A e \in Range(batch) : e.code # c
<1> DEFINE m == Len(rows)
           n == Len(batch)
           all == rows \o batch
<1>1. /\ m \in Nat /\ n \in Nat /\ Len(all) = m + n
      /\ \A i \in 1..m + n : all[i] = IF i <= m THEN rows[i] ELSE batch[i - m]
      /\ DOMAIN batch = 1..n
  BY ConcatProperties, LenProperties
<1>2. PICK i \in 1..m + n : /\ all[i] = Event(c, "active")
                            /\ \A j \in i + 1..m + n : all[j].code # c
  BY <1>1 DEF OpenOn
<1> HIDE DEF m, n, all
<1>3. CASE i > m
  <2>1. i - m \in 1..n /\ batch[i - m] = Event(c, "active")
    BY <1>1, <1>2, <1>3
  <2> QED  BY <1>1, <2>1 DEF Range
<1>4. CASE i <= m
  <2>1. i \in 1..m /\ rows[i] = Event(c, "active")
    BY <1>1, <1>2, <1>4
  <2>2. \A j \in i + 1..m : rows[j].code # c
    <3>1. ASSUME NEW j \in i + 1..m PROVE rows[j].code # c
      <4>1. j \in i + 1..m + n /\ j \in 1..m + n /\ j <= m
        BY <1>1
      <4>2. all[j] = rows[j]
        BY <1>1, <4>1
      <4> QED  BY <1>2, <4>1, <4>2
    <3> QED  BY <3>1
  <2>3. ASSUME NEW e \in Range(batch) PROVE e.code # c
    <3>1. PICK j \in 1..n : e = batch[j]
      BY <1>1 DEF Range
    <3>2. m + j \in i + 1..m + n /\ all[m + j] = batch[j]
      BY <1>1, <1>4, <3>1
    <3> QED  BY <1>2, <3>1, <3>2
  <2> QED  BY <2>1, <2>2, <2>3 DEF OpenOn, m
<1> QED  BY <1>1, <1>3, <1>4

LEMMA OpenAfterWriting ==
    ASSUME NEW rows \in Seq(Rows), NEW batch \in Seq(Rows),
           NEW c \in OpenOn(Newest(rows \o batch, AlarmLimit))
    PROVE  \/ Event(c, "active") \in Range(batch)
           \/ c \in OpenOn(rows) /\ \A e \in Range(batch) : e.code # c
BY RangeOfConcat, NewestOpensNothing, OpenAfterBatch
-----------------------------------------------------------------------------
(* The samplers, one after the other as long as close() waits for the       *)
(* monitor thread, and what they carry                                      *)

Places == {"idle", "append", "stored", "refused", "ended", "out"}
SampleType == [signature : Signatures \cup {"none"}, save : BOOLEAN, batch : Seq(Rows)]
MonitorType ==
    /\ closerAt \in {"no", "joining", "sampling", "closed", "killed"}
    /\ alarms \subseteq Codes /\ disk \in Seq(Rows)
    /\ sampler \in [Samplers -> Places] /\ taken \in [Samplers -> SampleType]
    /\ known \in Signatures \cup {"none"} /\ historySignature \in Signatures \cup {"none"}
    /\ historyFailed \in BOOLEAN /\ late \in BOOLEAN /\ unsure \in BOOLEAN /\ unfinished \in BOOLEAN

Busy == {t \in Samplers : sampler[t] \in {"append", "stored", "refused"}}
Speaks(t, state) == {c \in Codes : Event(c, state) \in Range(taken[t].batch)}

\* The closer samples after the monitor thread has ended, or late is set.
Turns ==
    /\ \A t \in Samplers \ Busy : taken[t] = Nothing
    /\ closerAt \in {"no", "joining"} => sampler["closer"] = "out" /\ ~late
    /\ closerAt \in {"sampling", "closed"} => late \/ sampler["monitor"] = "ended"
    /\ ~Up => /\ sampler = [monitor |-> "idle", closer |-> "out"] /\ ~late
              /\ alarms = {} /\ known = "none" /\ historySignature = "none" /\ ~historyFailed

\* A batch opens what is open; what it closed, and did not raise again, is closed on
\* disk once it is stored, and all it closed counts as lost once it was refused.
BatchesAreTrue ==
    ~late =>
        \A t \in Busy :
            /\ Speaks(t, "active") \subseteq alarms
            /\ sampler[t] = "stored" => Speaks(t, "resolved") \cap OpenOn(disk) \subseteq Speaks(t, "active")
            /\ sampler[t] = "refused" => Speaks(t, "resolved") \subseteq lost

\* The sample under way is the last one, and need not be saved only if it says what
\* the last saved one said; what was noted as saved is on disk.
SamplesAreTrue ==
    Up /\ ~late =>
        /\ \A t \in Busy :
              /\ known = taken[t].signature /\ known # "none"
              /\ ~taken[t].save => known = historySignature
              /\ sampler[t] = "stored" /\ ~unsure => lastSaved = known
        /\ Busy = {} /\ ~historyFailed /\ ~unfinished => known \in {"none", historySignature}
        /\ ~unsure /\ historySignature # "none" /\ (\A t \in Samplers : sampler[t] # "stored") =>
              lastSaved = historySignature

MonitorInv == MonitorType /\ Turns /\ BatchesAreTrue /\ SamplesAreTrue /\ IncidentsOnDiskAreOpen

LEMMA InitMonitor == Init => MonitorInv
<1>1. <<>> \in Seq(Rows)
  BY EmptySeq
<1>2. OpenOn(<<>>) = {}
  BY DEF OpenOn
<1> SUFFICES ASSUME Init PROVE MonitorInv
  OBVIOUS
<1>3. Nothing \in SampleType
  BY <1>1 DEF Nothing, SampleType
<1>4. MonitorType
  <2>1. sampler \in [Samplers -> Places]
    BY DEF Init, Samplers, Places
  <2>2. taken \in [Samplers -> SampleType]
    BY <1>3 DEF Init
  <2> QED  BY <1>1, <2>1, <2>2 DEF Init, MonitorType
<1>5. Busy = {} /\ \A t \in Samplers : taken[t] = Nothing
  BY DEF Init, Busy, Samplers
<1> QED
  BY <1>2, <1>4, <1>5 DEF Init, MonitorInv, Turns, BatchesAreTrue, SamplesAreTrue,
     IncidentsOnDiskAreOpen, Up

\* While close() has not overtaken the monitor thread only one of the two is at work.
LEMMA OneAtATime ==
    ASSUME MonitorType, Turns, Up, ~late, NEW t \in Samplers, sampler[t] \notin {"ended", "out"},
           NEW o \in Samplers, o # t
    PROVE  sampler[o] \in {"ended", "out"} /\ o \notin Busy /\ taken[o] = Nothing
BY DEF MonitorType, Turns, Up, Busy, Samplers, Places

\* Writing a batch, whether the sampler learns of it or not, opens on disk only what
\* the batch opens, and what it closes is closed.
LEMMA WritingABatch ==
    ASSUME MonitorType, NEW t \in Samplers, disk' = Newest(disk \o taken[t].batch, AlarmLimit)
    PROVE  /\ disk' \in Seq(Rows)
           /\ \A c \in OpenOn(disk)' : \/ c \in Speaks(t, "active")
                                       \/ c \in OpenOn(disk) /\ c \notin Speaks(t, "resolved")
<1>1. disk \in Seq(Rows) /\ taken[t].batch \in Seq(Rows)
  BY DEF MonitorType, SampleType
<1>2. disk \o taken[t].batch \in Seq(Rows)
  BY <1>1, RangeOfConcat
<1>3. disk' \in Seq(Rows)
  BY <1>2, NewestOpensNothing
<1>4. ASSUME NEW c \in OpenOn(disk)'
      PROVE  \/ c \in Speaks(t, "active")
             \/ c \in OpenOn(disk) /\ c \notin Speaks(t, "resolved")
  <2>1. c \in OpenOn(Newest(disk \o taken[t].batch, AlarmLimit)) /\ c \in Codes
    BY <1>4 DEF OpenOn
  <2>2. \/ Event(c, "active") \in Range(taken[t].batch)
        \/ c \in OpenOn(disk) /\ \A e \in Range(taken[t].batch) : e.code # c
    BY <1>1, <2>1, OpenAfterWriting
  <2>3. Event(c, "resolved").code = c
    BY DEF Event
  <2> QED  BY <2>1, <2>2, <2>3 DEF Speaks
<1> QED  BY <1>3, <1>4

-----------------------------------------------------------------------------
(* One step                                                                 *)

LEMMA SamplesStep ==
    ASSUME MonitorInv, Up, NEW t \in Samplers, Samples(t)
    PROVE  MonitorInv'
<1> USE DEF MonitorInv
<1>1. PICK now \in SUBSET Codes, s \in Signatures : \E closed \in {alarms \ now, alarms} :
         LET raised == now \ (alarms \ closed)
             batch == EventsOf(closed, "resolved") \o EventsOf(raised, "active")
             changed == s # historySignature \/ batch # <<>>
         IN /\ alarms' = now /\ known' = s
            /\ \E save \in {changed, TRUE} :
                 taken' = [taken EXCEPT ![t] = [signature |-> s, save |-> save, batch |-> batch]]
  BY Zenon DEF Samples
<1>1a. PICK closed \in {alarms \ now, alarms} :
         LET raised == now \ (alarms \ closed)
             batch == EventsOf(closed, "resolved") \o EventsOf(raised, "active")
             changed == s # historySignature \/ batch # <<>>
         IN /\ alarms' = now /\ known' = s
            /\ \E save \in {changed, TRUE} :
                 taken' = [taken EXCEPT ![t] = [signature |-> s, save |-> save, batch |-> batch]]
  BY <1>1, Zenon
<1> DEFINE raised == now \ (alarms \ closed)
           batch == EventsOf(closed, "resolved") \o EventsOf(raised, "active")
           changed == s # historySignature \/ batch # <<>>
<1>1b. PICK save \in {changed, TRUE} :
         taken' = [taken EXCEPT ![t] = [signature |-> s, save |-> save, batch |-> batch]]
  BY <1>1a, Zenon
<1>1c. save \in BOOLEAN /\ (save \/ s = historySignature)
  OBVIOUS
<1>2. /\ batch \in Seq(Rows)
      /\ Range(batch) = {Event(c, "resolved") : c \in closed} \cup {Event(c, "active") : c \in raised}
      /\ closed \subseteq Codes /\ raised \subseteq now /\ alarms \subseteq now \cup closed
  <2>1. closed \in SUBSET Codes /\ raised \in SUBSET Codes
    BY DEF MonitorType
  <2> QED  BY <2>1, RangeOfEvents, RangeOfConcat
<1> HIDE DEF batch, raised, changed
<1>3. /\ taken' = [taken EXCEPT ![t] = [signature |-> s, save |-> save, batch |-> batch]]
      /\ alarms' = now /\ known' = s /\ (save \/ s = historySignature)
  BY <1>1a, <1>1b, <1>1c
<1>4. /\ sampler[t] = "idle" /\ sampler' = [sampler EXCEPT ![t] = "append"]
      /\ UNCHANGED <<closerAt, db, disk, lastSaved, historySignature, historyFailed, lost, unsure, late>>
      /\ unfinished' = FALSE
  BY DEF Samples, diskVars
<1>5. MonitorType'
  <2>1. [signature |-> s, save |-> save, batch |-> batch] \in SampleType
    BY <1>2, <1>1c DEF SampleType
  <2> QED  BY <1>3, <1>4, <2>1 DEF MonitorType, Places
<1>6. /\ taken'[t] = [signature |-> s, save |-> save, batch |-> batch]
      /\ \A o \in Samplers : o # t => taken'[o] = taken[o] /\ sampler'[o] = sampler[o]
      /\ sampler'[t] = "append"
  BY <1>3, <1>4 DEF MonitorType
<1>7. Speaks(t, "active")' = raised /\ Speaks(t, "resolved")' = closed
  <2>1. \A c, d : /\ Event(c, "active") # Event(d, "resolved")
                  /\ \A st : Event(c, st) = Event(d, st) <=> c = d
    BY DEF Event
  <2>2. taken'[t].batch = batch /\ closed \subseteq Codes /\ raised \subseteq Codes
    BY <1>2, <1>6
  <2> QED  BY <1>2, <2>1, <2>2 DEF Speaks
<1>8. Busy' = Busy \cup {t}
  BY <1>6 DEF Busy
<1>9. Turns'
  BY <1>4, <1>6, <1>8 DEF Turns, Up, Busy, Samplers
<1>10. ~late => Busy' = {t}
  BY <1>4, <1>8, OneAtATime DEF Busy
<1>11. BatchesAreTrue'
  BY <1>2, <1>3, <1>4, <1>6, <1>7, <1>10 DEF BatchesAreTrue
<1>12. SamplesAreTrue'
  <2> SUFFICES ASSUME ~late
               PROVE  /\ known' = taken'[t].signature /\ known' # "none"
                      /\ ~taken'[t].save => known' = historySignature
                      /\ ~unsure /\ historySignature # "none" => lastSaved = historySignature
    BY <1>4, <1>6, <1>10 DEF SamplesAreTrue, Up
  <2>1. known' = taken'[t].signature /\ taken'[t].save = save /\ known' # "none"
    BY <1>3, <1>6, MonitoringConstants
  <2>2. \A o \in Samplers : sampler[o] # "stored"
    BY <1>4, OneAtATime
  <2> QED  BY <1>3, <2>1, <2>2 DEF SamplesAreTrue
<1>13. IncidentsOnDiskAreOpen'
  <2> SUFFICES ASSUME NEW c \in OpenOn(disk), ~late
               PROVE  \/ c \in now \cup lost
                      \/ \E o \in Samplers : Event(c, "resolved") \in Range(taken'[o].batch)
    BY <1>3, <1>4 DEF IncidentsOnDiskAreOpen
  <2>1. c \in Codes
    BY DEF OpenOn
  <2>2. CASE c \in alarms
    <3>1. c \in now \/ c \in Speaks(t, "resolved")'
      BY <1>2, <1>7, <2>2
    <3> QED  BY <3>1 DEF Speaks
  <2>3. CASE c \in lost
    BY <2>3
  <2>4. CASE \E o \in Samplers : Event(c, "resolved") \in Range(taken[o].batch)
    <3>1. taken[t] = Nothing /\ Range(Nothing.batch) = {}
      BY <1>4 DEF Turns, Busy, Nothing, Range
    <3> QED  BY <1>6, <2>4, <3>1
  <2> QED  BY <2>2, <2>3, <2>4 DEF IncidentsOnDiskAreOpen
<1> QED  BY <1>5, <1>9, <1>11, <1>12, <1>13

\* What the two outcomes of append() have in common: the rows are written or not
\* (whether the caller is told so or not), and what is open on disk is still explained.
LEMMA AppendKeepsIncidents ==
    ASSUME MonitorInv, Up, Up', NEW t \in Samplers, sampler[t] = "append",
           disk' = disk \/ disk' = Newest(disk \o taken[t].batch, AlarmLimit),
           UNCHANGED <<alarms, taken, late>>, lost \subseteq lost'
    PROVE  disk' \in Seq(Rows) /\ IncidentsOnDiskAreOpen'
<1> USE DEF MonitorInv
<1>1. disk' \in Seq(Rows)
  BY WritingABatch DEF MonitorType
<1>2. ASSUME NEW c \in OpenOn(disk)', ~late
      PROVE  \/ c \in alarms \cup lost'
             \/ \E o \in Samplers : Event(c, "resolved") \in Range(taken[o].batch)
  <2>1. \/ c \in Speaks(t, "active")
        \/ c \in OpenOn(disk)
    BY <1>2, WritingABatch DEF OpenOn
  <2>2. CASE c \in Speaks(t, "active")
    BY <1>2, <2>2 DEF BatchesAreTrue, Busy
  <2>3. CASE c \in OpenOn(disk)
    BY <1>2, <2>3 DEF IncidentsOnDiskAreOpen
  <2> QED  BY <2>1, <2>2, <2>3
<1> QED  BY <1>1, <1>2 DEF IncidentsOnDiskAreOpen

LEMMA StoredStep ==
    ASSUME MonitorInv, Up, NEW t \in Samplers, Stored(t)
    PROVE  MonitorInv'
<1> USE DEF MonitorInv
<1>1. /\ sampler[t] = "append" /\ sampler' = [sampler EXCEPT ![t] = "stored"]
      /\ disk' = Newest(disk \o taken[t].batch, AlarmLimit)
      /\ lastSaved' = IF taken[t].save THEN taken[t].signature ELSE lastSaved
      /\ unsure' = (unsure /\ ~taken[t].save)
      /\ UNCHANGED <<closerAt, alarms, known, historySignature, historyFailed, taken, lost, unfinished, late>>
  BY DEF Stored, Inserts, Writes, Moves
<1>2. disk' \in Seq(Rows) /\ IncidentsOnDiskAreOpen'
  BY <1>1, AppendKeepsIncidents DEF Up
<1>3. MonitorType'
  BY <1>1, <1>2 DEF MonitorType, Places, SampleType
<1>4. /\ \A o \in Samplers : o # t => sampler'[o] = sampler[o]
      /\ sampler'[t] = "stored" /\ Busy' = Busy /\ t \in Busy
  BY <1>1 DEF MonitorType, Busy
<1>5. Turns'
  BY <1>1, <1>4 DEF Turns, Up, Busy, Samplers
<1>6. ~late => Busy = {t}
  BY <1>1, OneAtATime DEF Busy
<1>7. BatchesAreTrue'
  <2> SUFFICES ASSUME ~late
               PROVE  /\ Speaks(t, "active") \subseteq alarms
                      /\ Speaks(t, "resolved") \cap OpenOn(disk)' \subseteq Speaks(t, "active")
    BY <1>1, <1>4, <1>6 DEF BatchesAreTrue, Speaks
  <2>1. Speaks(t, "active") \subseteq alarms
    BY <1>4 DEF BatchesAreTrue
  <2> QED  BY <1>1, <2>1, WritingABatch
<1>8. SamplesAreTrue'
  <2> SUFFICES ASSUME ~late
               PROVE  /\ known = taken[t].signature /\ known # "none"
                      /\ ~taken[t].save => known = historySignature
                      /\ ~unsure' => lastSaved' = known
    BY <1>1, <1>4, <1>6 DEF SamplesAreTrue, Up
  <2>1. /\ known = taken[t].signature /\ known # "none"
        /\ ~taken[t].save => known = historySignature
    BY <1>4 DEF SamplesAreTrue
  <2>2. \A o \in Samplers : sampler[o] # "stored"
    BY <1>1, OneAtATime
  <2>3. taken[t].save \in BOOLEAN
    BY DEF MonitorType, SampleType
  <2> QED  BY <1>1, <2>1, <2>2, <2>3 DEF SamplesAreTrue
<1> QED  BY <1>2, <1>3, <1>5, <1>7, <1>8

LEMMA NotStoredStep ==
    ASSUME MonitorInv, Up, NEW t \in Samplers, NotStored(t)
    PROVE  MonitorInv'
<1> USE DEF MonitorInv
<1>1. /\ sampler[t] = "append" /\ sampler' = [sampler EXCEPT ![t] = "refused"]
      /\ \/ /\ disk' = Newest(disk \o taken[t].batch, AlarmLimit)
            /\ lastSaved' = IF taken[t].save THEN taken[t].signature ELSE lastSaved
            /\ unsure' = (unsure \/ taken[t].save)
         \/ UNCHANGED <<disk, lastSaved, unsure>>
      /\ lost' = lost \cup Speaks(t, "resolved")
      /\ UNCHANGED <<closerAt, alarms, known, historySignature, historyFailed, taken, unfinished, late>>
  BY DEF NotStored, Refuses, Writes, Moves, Speaks, Closing
<1>2. disk' \in Seq(Rows) /\ IncidentsOnDiskAreOpen'
  BY <1>1, AppendKeepsIncidents DEF Up
<1>3. MonitorType'
  BY <1>1, <1>2 DEF MonitorType, Places, SampleType
<1>4. /\ \A o \in Samplers : o # t => sampler'[o] = sampler[o]
      /\ sampler'[t] = "refused" /\ Busy' = Busy /\ t \in Busy
  BY <1>1 DEF MonitorType, Busy
<1>5. Turns'
  BY <1>1, <1>4 DEF Turns, Up, Busy, Samplers
<1>6. ~late => Busy = {t}
  BY <1>1, OneAtATime DEF Busy
<1>7. BatchesAreTrue'
  BY <1>1, <1>4, <1>6 DEF BatchesAreTrue, Speaks
<1>8. SamplesAreTrue'
  <2> SUFFICES ASSUME ~late
               PROVE  /\ known = taken[t].signature /\ known # "none"
                      /\ ~taken[t].save => known = historySignature
                      /\ ~unsure' /\ historySignature # "none" => lastSaved' = historySignature
    BY <1>1, <1>4, <1>6 DEF SamplesAreTrue, Up
  <2>1. /\ known = taken[t].signature /\ known # "none"
        /\ ~taken[t].save => known = historySignature
    BY <1>4 DEF SamplesAreTrue
  <2>2. \A o \in Samplers : sampler[o] # "stored"
    BY <1>1, OneAtATime
  <2>3. taken[t].save \in BOOLEAN
    BY DEF MonitorType, SampleType
  <2> QED  BY <1>1, <2>1, <2>2, <2>3 DEF SamplesAreTrue
<1> QED  BY <1>2, <1>3, <1>5, <1>7, <1>8

LEMMA NotesStep ==
    ASSUME MonitorInv, Up, NEW t \in Samplers, Notes(t)
    PROVE  MonitorInv'
<1> USE DEF MonitorInv
<1>1. /\ sampler[t] \in {"stored", "refused"}
      /\ \E place \in {"idle", "ended"} :
            /\ sampler' = [sampler EXCEPT ![t] = place]
            /\ place = "idle" => t = "monitor" /\ closerAt = "no"
      /\ taken' = [taken EXCEPT ![t] = Nothing]
      /\ historySignature' = IF sampler[t] = "stored" THEN taken[t].signature ELSE historySignature
      /\ historyFailed' = (sampler[t] = "refused")
      /\ UNCHANGED <<closerAt, disk, lastSaved, alarms, known, lost, unsure, unfinished, late>>
  BY DEF Notes, GoesOn, Moves, diskVars
<1>2. Nothing \in SampleType /\ Range(Nothing.batch) = {}
  BY EmptySeq DEF Nothing, SampleType, Range
<1>3. MonitorType'
  BY <1>1, <1>2 DEF MonitorType, Places, SampleType
<1>4. /\ \A o \in Samplers : o # t => sampler'[o] = sampler[o] /\ taken'[o] = taken[o]
      /\ sampler'[t] \in {"idle", "ended"} /\ taken'[t] = Nothing
      /\ Busy' = Busy \ {t} /\ t \in Busy
  BY <1>1 DEF MonitorType, Busy
<1>5. Turns'
  BY <1>1, <1>4 DEF Turns, Up, Busy, Samplers
<1>6. ~late => Busy' = {}
  BY <1>1, <1>4, OneAtATime DEF Busy
<1>7. BatchesAreTrue'
  BY <1>1, <1>6 DEF BatchesAreTrue
<1>8. SamplesAreTrue'
  <2> SUFFICES ASSUME ~late
               PROVE  /\ ~historyFailed' /\ ~unfinished => known \in {"none", historySignature'}
                      /\ ~unsure /\ historySignature' # "none" => lastSaved = historySignature'
    BY <1>1, <1>6 DEF SamplesAreTrue, Up
  <2>1. \A o \in Samplers : o # t => sampler[o] # "stored"
    BY <1>1, OneAtATime
  <2>2. known = taken[t].signature /\ (sampler[t] = "stored" /\ ~unsure => lastSaved = known)
    BY <1>4 DEF SamplesAreTrue
  <2> QED  BY <1>1, <2>1, <2>2 DEF SamplesAreTrue
<1>9. IncidentsOnDiskAreOpen'
  <2> SUFFICES ASSUME NEW c \in OpenOn(disk), ~late
               PROVE  \/ c \in alarms \cup lost
                      \/ \E o \in Samplers : Event(c, "resolved") \in Range(taken'[o].batch)
    BY <1>1 DEF IncidentsOnDiskAreOpen
  <2>1. c \in Codes
    BY DEF OpenOn
  <2>2. Event(c, "resolved") \in Range(taken[t].batch) => c \in alarms \cup lost
    BY <1>1, <1>4, <2>1 DEF BatchesAreTrue, Speaks
  <2> QED  BY <1>4, <2>2 DEF IncidentsOnDiskAreOpen
<1> QED  BY <1>3, <1>5, <1>7, <1>8, <1>9

\* An exception drops the batch: nothing of it is on disk, and what it closed is lost.
LEMMA SampleFailsStep ==
    ASSUME MonitorInv, Up, NEW t \in Samplers, SampleFails(t)
    PROVE  MonitorInv'
<1> USE DEF MonitorInv
<1>1. /\ sampler[t] = "append"
      /\ \E place \in {"idle", "ended"} :
            /\ sampler' = [sampler EXCEPT ![t] = place]
            /\ place = "idle" => t = "monitor" /\ closerAt = "no"
      /\ taken' = [taken EXCEPT ![t] = Nothing]
      /\ lost' = lost \cup Speaks(t, "resolved") /\ unfinished' = TRUE
      /\ UNCHANGED <<closerAt, disk, lastSaved, alarms, known, historySignature, historyFailed,
                     unsure, late>>
  BY DEF SampleFails, GoesOn, Moves, Closing, Speaks
<1>2. Nothing \in SampleType /\ Range(Nothing.batch) = {}
  BY EmptySeq DEF Nothing, SampleType, Range
<1>3. MonitorType'
  BY <1>1, <1>2 DEF MonitorType, Places, SampleType
<1>4. /\ \A o \in Samplers : o # t => sampler'[o] = sampler[o] /\ taken'[o] = taken[o]
      /\ sampler'[t] \in {"idle", "ended"} /\ taken'[t] = Nothing
      /\ Busy' = Busy \ {t} /\ t \in Busy
  BY <1>1 DEF MonitorType, Busy
<1>5. Turns'
  BY <1>1, <1>4 DEF Turns, Up, Busy, Samplers
<1>6. ~late => Busy' = {}
  BY <1>1, <1>4, OneAtATime DEF Busy
<1>7. BatchesAreTrue'
  BY <1>1, <1>6 DEF BatchesAreTrue
<1>8. SamplesAreTrue'
  <2> SUFFICES ASSUME ~late
               PROVE  ~unsure /\ historySignature # "none" => lastSaved = historySignature
    BY <1>1, <1>6 DEF SamplesAreTrue, Up
  <2>1. \A o \in Samplers : sampler[o] # "stored"
    BY <1>1, OneAtATime
  <2> QED  BY <2>1 DEF SamplesAreTrue
<1>9. IncidentsOnDiskAreOpen'
  <2> SUFFICES ASSUME NEW c \in OpenOn(disk), ~late
               PROVE  \/ c \in alarms \cup lost'
                      \/ \E o \in Samplers : Event(c, "resolved") \in Range(taken'[o].batch)
    BY <1>1 DEF IncidentsOnDiskAreOpen
  <2>1. c \in Codes
    BY DEF OpenOn
  <2>2. Event(c, "resolved") \in Range(taken[t].batch) => c \in lost'
    BY <1>1, <2>1 DEF Speaks
  <2> QED  BY <1>1, <1>4, <2>2 DEF IncidentsOnDiskAreOpen
<1> QED  BY <1>3, <1>5, <1>7, <1>8, <1>9

\* What changes neither the samplers nor the disk
LEMMA OtherSteps ==
    ASSUME MonitorInv, Up,
           MonitorEnds \/ CloseBegins \/ HistoryCloses \/ RetryTimePasses \/ ReadFails
    PROVE  MonitorInv'
<1> USE DEF MonitorInv, diskVars, sampleVars
<1>1. /\ UNCHANGED <<disk, lastSaved, alarms, known, historySignature, historyFailed, taken, lost,
                     unsure, unfinished, late>>
      /\ \/ /\ sampler["monitor"] = "idle" /\ sampler' = [sampler EXCEPT !["monitor"] = "ended"]
            /\ closerAt \in {"joining", "sampling", "closed"} /\ closerAt' = closerAt
         \/ /\ sampler' = sampler
            /\ \/ closerAt' = closerAt
               \/ closerAt = "no" /\ closerAt' = "joining"
               \/ closerAt = "sampling" /\ closerAt' = "closed"
  BY DEF MonitorEnds, CloseBegins, HistoryCloses, RetryTimePasses, ReadFails
<1>2. MonitorType'
  BY <1>1 DEF MonitorType, Places
<1>3. /\ Busy' = Busy /\ Up'
      /\ \A o \in Samplers : sampler'[o] = "stored" <=> sampler[o] = "stored"
      /\ \A o \in Busy : sampler'[o] = sampler[o]
  BY <1>1 DEF MonitorType, Busy, Up
<1>4. Turns'
  BY <1>1, <1>3 DEF Turns, Up, Busy, Samplers, MonitorType
<1>5. BatchesAreTrue'
  BY <1>1, <1>3 DEF BatchesAreTrue, Speaks
<1>6. SamplesAreTrue'
  BY <1>1, <1>3 DEF SamplesAreTrue
<1>7. IncidentsOnDiskAreOpen'
  BY <1>1 DEF IncidentsOnDiskAreOpen, Up
<1> QED  BY <1>2, <1>4, <1>5, <1>6, <1>7

LEMMA JoinedStep ==
    ASSUME MonitorInv, Up, Joined
    PROVE  MonitorInv'
<1> USE DEF MonitorInv, diskVars
<1>1. /\ closerAt = "joining" /\ closerAt' = "sampling"
      /\ late' = (sampler["monitor"] # "ended")
      /\ sampler' = [sampler EXCEPT !["closer"] = "idle"]
      /\ UNCHANGED <<disk, lastSaved, alarms, known, historySignature, historyFailed, taken, lost, unsure, unfinished>>
  BY DEF Joined
<1>2. MonitorType'
  BY <1>1 DEF MonitorType, Places
<1>3. sampler["closer"] = "out" /\ ~late /\ Up'
  BY <1>1 DEF Turns, Up
<1>4. /\ Busy' = Busy
      /\ \A o \in Samplers : sampler'[o] = "stored" <=> sampler[o] = "stored"
      /\ \A o \in Busy : sampler'[o] = sampler[o]
  BY <1>1, <1>3 DEF MonitorType, Busy
<1>5. Turns'
  BY <1>1, <1>3, <1>4 DEF Turns, Up, Busy, Samplers, MonitorType
<1>6. BatchesAreTrue'
  BY <1>1, <1>3, <1>4 DEF BatchesAreTrue, Speaks
<1>7. SamplesAreTrue'
  BY <1>1, <1>3, <1>4 DEF SamplesAreTrue
<1>8. IncidentsOnDiskAreOpen'
  BY <1>1, <1>3 DEF IncidentsOnDiskAreOpen
<1> QED  BY <1>2, <1>5, <1>6, <1>7, <1>8

LEMMA KilledStep ==
    ASSUME MonitorInv, Killed
    PROVE  MonitorInv'
<1> USE DEF MonitorInv
<1>1. Nothing \in SampleType
  BY EmptySeq DEF Nothing, SampleType
<1>2. sampler' \in [Samplers -> Places] /\ taken' \in [Samplers -> SampleType]
  BY <1>1 DEF Killed, Samplers, Places
<1>3. MonitorType'
  BY <1>2 DEF Killed, MonitorType
<1>4. ~Up' /\ Busy' = {}
  BY DEF Killed, Up, Busy, Samplers
<1> QED
  BY <1>3, <1>4 DEF Killed, Turns, BatchesAreTrue, SamplesAreTrue, IncidentsOnDiskAreOpen

\* A panel that starts closes what was left open, or remembers that it could not.
LEMMA StartsStep ==
    ASSUME MonitorInv, Starts
    PROVE  MonitorInv'
<1> USE DEF MonitorInv, sampleVars
<1> DEFINE batch == EventsOf(OpenOn(disk), "resolved")
<1>1. batch \in Seq(Rows) /\ Range(batch) = {Event(c, "resolved") : c \in OpenOn(disk)}
  <2>1. OpenOn(disk) \in SUBSET Codes
    BY DEF OpenOn
  <2> QED  BY <2>1, RangeOfEvents
<1> HIDE DEF batch
<1>2. /\ ~Up /\ closerAt' = "no" /\ UNCHANGED <<sampleVars, lastSaved, unsure, unfinished, late>>
      /\ \/ disk' = Newest(disk \o batch, AlarmLimit) /\ lost' = {}
         \/ disk' = disk /\ lost' = OpenOn(disk)
  BY DEF Starts, batch
<1>3. disk' \in Seq(Rows) /\ OpenOn(disk)' \subseteq lost'
  <2>1. CASE disk' = disk /\ lost' = OpenOn(disk)
    BY <2>1 DEF MonitorType
  <2>2. CASE disk' = Newest(disk \o batch, AlarmLimit) /\ lost' = {}
    <3>1. disk \in Seq(Rows) /\ disk \o batch \in Seq(Rows)
      BY <1>1, RangeOfConcat DEF MonitorType
    <3>2. disk' \in Seq(Rows)
      BY <2>2, <3>1, NewestOpensNothing
    <3>3. ASSUME NEW c \in OpenOn(disk)' PROVE FALSE
      <4>1. c \in OpenOn(Newest(disk \o batch, AlarmLimit))
        BY <2>2, <3>3 DEF OpenOn
      <4>2. \/ Event(c, "active") \in Range(batch)
            \/ c \in OpenOn(disk) /\ \A e \in Range(batch) : e.code # c
        BY <1>1, <3>1, <4>1, OpenAfterWriting
      <4>3. \A d : Event(c, "active") # Event(d, "resolved") /\ Event(c, "resolved").code = c
        BY DEF Event
      <4> QED  BY <1>1, <4>2, <4>3
    <3> QED  BY <3>2, <3>3
  <2> QED  BY <1>2, <2>1, <2>2
<1>4. MonitorType'
  BY <1>2, <1>3 DEF MonitorType
<1>5. /\ sampler' = [monitor |-> "idle", closer |-> "out"] /\ Busy' = {}
      /\ \A t \in Samplers : taken'[t] = Nothing
  BY <1>2 DEF Turns, Busy, Samplers
<1> QED
  BY <1>2, <1>3, <1>4, <1>5 DEF Turns, Up, BatchesAreTrue, SamplesAreTrue, IncidentsOnDiskAreOpen

LEMMA NextMonitor == MonitorInv /\ [Next]_vars => MonitorInv'
<1> SUFFICES ASSUME MonitorInv, [Next]_vars PROVE MonitorInv'
  OBVIOUS
<1>1. CASE UNCHANGED vars
  BY <1>1 DEF vars, diskVars, sampleVars, MonitorInv, MonitorType, Turns, BatchesAreTrue,
     SamplesAreTrue, IncidentsOnDiskAreOpen, Busy, Speaks, Up
<1>2. CASE Next
  BY <1>2, SamplesStep, StoredStep, NotStoredStep, SampleFailsStep, NotesStep, OtherSteps,
     JoinedStep, KilledStep, StartsStep DEF Next, Close
<1> QED  BY <1>1, <1>2

LEMMA MonitorInvariant == Spec => []MonitorInv
BY InitMonitor, NextMonitor, PTL DEF Spec

-----------------------------------------------------------------------------
\* An incident that the disk shows as open is open, or its closing is on its way, was
\* refused by the disk, lost to an exception or overtaken by close(): whatever crashed and restarted in
\* between (History.append, Panel._sample_monitoring, start_monitoring).
THEOREM ShownIncidentsAreOpen == Spec => []IncidentsOnDiskAreOpen
BY MonitorInvariant, PTL DEF MonitorInv

\* Once nobody is writing and the last sample was written and went well, the last
\* sample on disk says what the panel was last seen to be (Panel._sample_monitoring notes a signature only
\* once it is stored).
THEOREM ChangesOfStateAreKept == Spec => []StateChangesReachDisk
<1>1. MonitorInv => StateChangesReachDisk
  <2> SUFFICES ASSUME MonitorInv, Up, ~late, ~unsure, ~unfinished, ~historyFailed,
                      \A t \in Samplers : sampler[t] \in {"idle", "ended", "out"}
               PROVE  known \in {"none", lastSaved}
    BY DEF StateChangesReachDisk
  <2>1. Busy = {} /\ \A t \in Samplers : sampler[t] # "stored"
    BY DEF Busy
  <2> QED  BY <2>1 DEF MonitorInv, SamplesAreTrue
<1> QED  BY <1>1, MonitorInvariant, PTL

=============================================================================
