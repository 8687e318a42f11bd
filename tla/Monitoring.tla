----------------------------- MODULE Monitoring -----------------------------
(***************************************************************************)
(* The monitor of a panel (server.py: start_monitoring,                    *)
(* _sample_monitoring, _monitor, close) and its history on disk            *)
(* (monitoring.py: History), over crashes and restarts of the panel.       *)
(*                                                                         *)
(* Of the alarms only what is open matters here: an evaluation may raise   *)
(* and close any.  A sample is its signature (run, phase, revision).       *)
(* Whatever else the panel does shows here by keeping Panel.lock for a      *)
(* while: the threads of this module then come later.                       *)
(***************************************************************************)
EXTENDS Naturals, SequencesExt

CONSTANTS
    Codes,          \* the alarms
    AlarmLimit,     \* ALARM_LIMIT
    Signatures      \* what a sample may say of the panel

ASSUME MonitoringConstants ==
    IsFiniteSet(Codes) /\ AlarmLimit \in Nat \ {0} /\ "none" \notin Signatures

Samplers == {"monitor", "closer"}   \* threads that call _sample_monitoring

VARIABLES
    closerAt,               \* how far Panel.close is; "killed": the process has ended
    alarms,                 \* codes of Alarms.active
    known,                  \* what the last sample said
    db,                     \* History.db: "open"; else None, and retry_at is past ("due") or not ("wait")
    disk, lastSaved,        \* the table of alarms, and the last row of the table of samples
    historySignature, historyFailed,
    sampler, taken,         \* of each sampler: where it is, and its sample
    lost,       \* for the properties: codes whose closing the disk refused or never got
    unsure,     \* for the properties: the last sample on disk is one the disk refused
    unfinished, \* for the properties: an exception ended the last sample before it was written
    late        \* for the properties: close() went on without the monitor thread

diskVars == <<db, disk, lastSaved>>
sampleVars == <<alarms, known, historySignature, historyFailed, sampler, taken>>
vars == <<closerAt, diskVars, sampleVars, lost, unsure, unfinished, late>>

Up == closerAt # "killed"
Nothing == [signature |-> "none", save |-> FALSE, batch |-> <<>>]
Event(c, s) == [code |-> c, state |-> s]

\* The last `limit` rows
Newest(rows, limit) ==
    IF Len(rows) <= limit THEN rows ELSE SubSeq(rows, Len(rows) - limit + 1, Len(rows))
\* Codes whose last row is not a closing
OpenOn(rows) ==
    {c \in Codes : \E i \in 1..Len(rows) :
        rows[i] = Event(c, "active") /\ \A j \in i+1..Len(rows) : rows[j].code # c}
\* One event of state s for each code of a set, in some order
EventsOf(codes, s) == LET order == SetToSeq(codes) IN [i \in DOMAIN order |-> Event(order[i], s)]

Init ==
    /\ closerAt = "no"
    /\ db \in {"open", "wait"} /\ disk = <<>> /\ lastSaved = "none"
    /\ alarms = {} /\ known = "none" /\ historySignature = "none" /\ historyFailed = FALSE
    /\ sampler = [monitor |-> "idle", closer |-> "out"]
    /\ taken = [t \in Samplers |-> Nothing]
    /\ lost = {} /\ unsure = FALSE /\ unfinished = FALSE /\ late = FALSE

-----------------------------------------------------------------------------
(* History.append, _open and _failed.  The disk may refuse anything at any  *)
(* time, even once the rows are committed (the count that follows).         *)

Writes(sample) ==
    /\ disk' = Newest(disk \o sample.batch, AlarmLimit)
    /\ lastSaved' = IF sample.save THEN sample.signature ELSE lastSaved
\* the database is opened again only for a sample that has to be saved
Inserts_WhenNeeded(sample) ==
    db # "wait" /\ (db = "open" \/ sample.save) /\ db' = "open" /\ Writes(sample)
Inserts(sample) == db # "wait" /\ db' = "open" /\ Writes(sample)
Refuses(sample) ==
    /\ db' = "wait"
    /\ \/ db # "wait" /\ Writes(sample) /\ unsure' = (unsure \/ sample.save)
       \/ UNCHANGED <<disk, lastSaved, unsure>>

RetryTimePasses ==
    /\ db = "wait" /\ db' = "due"
    /\ UNCHANGED <<closerAt, disk, lastSaved, sampleVars, lost, unsure, unfinished, late>>
\* read() for an HTTP request fails, and closes the database
ReadFails ==
    /\ db = "open" /\ db' = "wait"
    /\ UNCHANGED <<closerAt, disk, lastSaved, sampleVars, lost, unsure, unfinished, late>>

-----------------------------------------------------------------------------
(* _sample_monitoring: evaluated under Panel.lock, appended without it,     *)
(* noted under it again                                                     *)

\* A sample of another run, or of no run, first closes all that is open, and may
\* raise it again at once; any other sample closes or raises a code, never both.
Samples(t) ==
    /\ sampler[t] = "idle"
    /\ \E now \in SUBSET Codes, s \in Signatures :
       \E closed \in {alarms \ now, alarms} :
        LET raised == now \ (alarms \ closed)
            batch == EventsOf(closed, "resolved") \o EventsOf(raised, "active")
            changed == s # historySignature \/ batch # <<>>
        IN /\ alarms' = now /\ known' = s
           \* with an encoder alive every sample is saved
           /\ \E save \in {changed, TRUE} :
                taken' = [taken EXCEPT ![t] = [signature |-> s, save |-> save, batch |-> batch]]
    /\ sampler' = [sampler EXCEPT ![t] = "append"] /\ unfinished' = FALSE
    /\ UNCHANGED <<closerAt, diskVars, historySignature, historyFailed, lost, unsure, late>>

Moves(t, place) == sampler' = [sampler EXCEPT ![t] = place]
\* _monitor samples again until it is cancelled; close() samples once
GoesOn(t) == Moves(t, IF t = "monitor" /\ closerAt = "no" THEN "idle" ELSE "ended")
Closing(t) == {c \in Codes : Event(c, "resolved") \in Range(taken[t].batch)}
Stored(t) ==
    /\ sampler[t] = "append" /\ Inserts(taken[t]) /\ Moves(t, "stored")
    /\ unsure' = (unsure /\ ~taken[t].save)
    /\ UNCHANGED <<closerAt, alarms, known, historySignature, historyFailed, taken, lost,
                   unfinished, late>>
NotStored(t) ==
    /\ sampler[t] = "append" /\ Refuses(taken[t]) /\ Moves(t, "refused")
    /\ lost' = lost \cup Closing(t)
    /\ UNCHANGED <<closerAt, alarms, known, historySignature, historyFailed, taken, unfinished,
                   late>>
Notes_Always(t) ==
    /\ sampler[t] \in {"stored", "refused"}
    /\ historySignature' = taken[t].signature
    /\ historyFailed' = (sampler[t] = "refused")
    /\ GoesOn(t)
    /\ taken' = [taken EXCEPT ![t] = Nothing]
    /\ UNCHANGED <<closerAt, diskVars, alarms, known, lost, unsure, unfinished, late>>
Notes(t) ==
    /\ sampler[t] \in {"stored", "refused"}
    /\ historySignature' = IF sampler[t] = "stored" THEN taken[t].signature ELSE historySignature
    /\ historyFailed' = (sampler[t] = "refused")
    /\ GoesOn(t)
    /\ taken' = [taken EXCEPT ![t] = Nothing]
    /\ UNCHANGED <<closerAt, diskVars, alarms, known, lost, unsure, unfinished, late>>

\* An exception that History does not catch, in the evaluation or in append before a
\* row is kept.  _monitor notes it (monitor_failed, which only decides what is logged)
\* and samples again; close() closes the history and passes it on.  An exception
\* before the evaluation changes nothing.
SampleFails(t) ==
    /\ sampler[t] = "append" /\ GoesOn(t)
    /\ (db' = db \/ (db = "due" /\ db' \in {"open", "wait"}))
    /\ lost' = lost \cup Closing(t) /\ unfinished' = TRUE
    /\ taken' = [taken EXCEPT ![t] = Nothing]
    /\ UNCHANGED <<closerAt, disk, lastSaved, alarms, known, historySignature, historyFailed,
                   unsure, late>>

MonitorEnds ==
    /\ sampler["monitor"] = "idle" /\ closerAt \in {"joining", "sampling", "closed"}
    /\ sampler' = [sampler EXCEPT !["monitor"] = "ended"]
    /\ UNCHANGED <<closerAt, diskVars, alarms, known, historySignature, historyFailed,
                   taken, lost, unsure, unfinished, late>>

-----------------------------------------------------------------------------
(* Panel.close: stop(), which Panel and Preview describe; cancel the        *)
(* monitor and give it three seconds; a last sample; close the history.     *)

CloseBegins ==
    /\ closerAt = "no" /\ closerAt' = "joining"
    /\ UNCHANGED <<diskVars, sampleVars, lost, unsure, unfinished, late>>
Joined ==
    /\ closerAt = "joining" /\ closerAt' = "sampling"
    /\ late' = (sampler["monitor"] # "ended")
    /\ sampler' = [sampler EXCEPT !["closer"] = "idle"]
    /\ UNCHANGED <<diskVars, alarms, known, historySignature, historyFailed, taken, lost, unsure,
                   unfinished>>
HistoryCloses ==
    /\ closerAt = "sampling" /\ sampler["closer"] = "ended" /\ closerAt' = "closed"
    /\ db' = IF db = "open" THEN "due" ELSE db
    /\ UNCHANGED <<disk, lastSaved, sampleVars, lost, unsure, unfinished, late>>

\* The container is stopped, at any moment, and the panel is started again.
\* start_monitoring closes on disk what is open there.
Killed ==
    /\ Up /\ closerAt' = "killed"
    /\ db' = "wait"
    /\ alarms' = {} /\ known' = "none" /\ historySignature' = "none" /\ historyFailed' = FALSE
    /\ sampler' = [monitor |-> "idle", closer |-> "out"]
    /\ taken' = [t \in Samplers |-> Nothing]
    /\ late' = FALSE /\ unfinished' = FALSE
    /\ UNCHANGED <<disk, lastSaved, lost, unsure>>
Starts_Forgets ==
    /\ ~Up /\ closerAt' = "no"
    /\ db' \in {"open", "wait"} /\ lost' = IF db' = "open" THEN {} ELSE OpenOn(disk)
    /\ UNCHANGED <<sampleVars, disk, lastSaved, unsure, unfinished, late>>
Starts ==
    /\ ~Up /\ closerAt' = "no"
    /\ \/ /\ db' \in {"open", "wait"}
          /\ disk' = Newest(disk \o EventsOf(OpenOn(disk), "resolved"), AlarmLimit) /\ lost' = {}
       \/ db' = "wait" /\ disk' = disk /\ lost' = OpenOn(disk)
    /\ UNCHANGED <<sampleVars, lastSaved, unsure, unfinished, late>>

-----------------------------------------------------------------------------
Close == CloseBegins \/ Joined \/ HistoryCloses
Next ==
    \/ Up /\ \/ \E t \in Samplers : Samples(t) \/ Stored(t) \/ NotStored(t) \/ SampleFails(t)
                               \/ Notes(t)
             \/ MonitorEnds \/ Close
             \/ RetryTimePasses \/ ReadFails
    \/ Killed \/ Starts

\* The monitor thread goes on while the process lives, time passes, nobody keeps
\* Panel.lock for ever, who waits for it gets it in the end, and the disk does not
\* refuse everything for ever, nor does every sample raise an exception.
Spec ==
    /\ Init /\ [][Next]_vars
    /\ WF_vars(Up /\ (\/ Samples("monitor") \/ Stored("monitor") \/ NotStored("monitor")
                     \/ SampleFails("monitor") \/ Notes("monitor")))
    /\ SF_vars(Up /\ Stored("monitor"))
    /\ WF_vars(Up /\ RetryTimePasses)

\* An incident that the disk shows as open is open, or its closing is on its way,
\* or the disk refused it or an exception kept it from the disk, or close() overtook
\* the monitor thread: whatever crashed and was restarted in between, and also for
\* those of a previous process.
IncidentsOnDiskAreOpen ==
    Up => \A c \in OpenOn(disk) :
            \/ c \in alarms \cup lost \/ late
            \/ \E t \in Samplers : Event(c, "resolved") \in Range(taken[t].batch)

\* Once nobody is writing and the last sample was written and went well, the last
\* sample on disk says what the panel was last seen to be: a stop or a change of
\* profile that came while the disk was full is not skipped when it is back.
StateChangesReachDisk ==
    (/\ Up /\ ~late /\ ~unsure /\ ~unfinished /\ ~historyFailed
     /\ \A t \in Samplers : sampler[t] \in {"idle", "ended", "out"})
        => known \in {"none", lastSaved}

\* A history that failed comes back by itself if the disk does, also on a panel where
\* nothing happens that would have to be written (append(None, []) re-opens it).
HistoryComesBack == (Up /\ closerAt = "no" /\ historyFailed) ~> (~historyFailed \/ closerAt # "no")
=============================================================================
