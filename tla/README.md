# TLA+ models of the OBE web panel and the NDI gateway

A verification development for `obe-rt-build`: specifications of the web panel
that drives the OBE encoder (`src/webpanel`) and of the gateway that brings an NDI
source to it (`src/gateway`), their model checking with TLC, and
theorems about them checked with TLAPS. `PROJECT.json` lists the runs, maps every
definition to source lines, and names the hazards the properties are for.

## 1. The system

The repository builds OBE (a broadcast encoder) and its libraries with patches,
and adds around it a local web panel, a gateway for NDI sources and tests.

| component | state it keeps | operations | talks to |
|---|---|---|---|
| `Panel`, `Session`, `Run` (`webpanel/server.py`) | phase, signal, profile and revision, session with retry budget and key, the encoder process, exit history | probe, start, stop, save, preview, close; configure, collect, restart threads | encoder by stdin/stdout, `Preview`, `Alarms`, `History` |
| `Channels` (`server.py`) | up to four Panels, a lock, `closing` | create, action, close, state | Panels, `Handler` threads, config files |
| `Handler` (`server.py`) | none | one thread per request: guard, parse, dispatch | `Channels`, Panels |
| `Alarms` (`webpanel/monitoring.py`) | open alarms, delays, counter baselines | `evaluate` once a second | fed by `Panel._sample_monitoring` |
| `SRTStats`, encoder telemetry (`monitoring.py`, `server.py`) | last sample, its age, rates | `accept`, `view`, `_telemetry_line` | collector thread, monitor thread |
| `History` (`monitoring.py`) | SQLite tables, `retry_at` | append, read, close | monitor thread, HTTP |
| `Preview` (`webpanel/preview.py`) | FFmpeg process, last frame | start, stop, reader thread | `Panel`, HTTP |
| console (`static/app.js`) | shown state, epochs, pending operation | poll, mutate, history | HTTP API |
| pilot (`webpanel/pilot.py`) | none | a sequential trial | HTTP API |
| NDI sender (`gateway/ndi_sender.py`) | bounded queue, timeline | read, write, watchdog, shutdown | NDI, FFmpeg, control pipe |
| SSH relay (`gateway/ssh_relay.py`, `ts_ssh.py`) | session, retry interval, TS buffer | run, heartbeat, write_all, feed | ssh, docker, UDP |
| URL input (`patches/0011, 0012, 0015, 0018`) | decoders, deadlines, reconnection | open, read, reconnect | the encoder |

What is hard in it:

* **Threads around one run.** Each launch has a configure thread and a collector;
  each pending retry a timer thread; each Stop and the shutdown a thread inside
  `_terminate`. All decide from `phase`, `cancel`, `expected_exit` and `exited`,
  and wait outside the lock.
* **A process seen through pipes.** Death is noticed by a failed write, by EOF or
  by `poll()`, in any order; lines printed before a decision are read after it.
* **Automatic restart.** A budget, a key kept in memory for it, and Stop or
  shutdown arriving in the middle.
* **Several panels, one machine.** Ports and destinations must stay distinct, with
  a lock per panel and one above them, while profiles are saved to disk.
* **Measures that come and go.** Counters restart, samples go missing, and an alarm
  must not mistake either for a fact.
* **A disk that may refuse.** The history is written outside the panel's lock, fails,
  comes back, and outlives the process that wrote it.
* **Programs at both ends of a network.** A relay and a sender that share only two
  pipes and a heartbeat, each of which may stall, with an FFmpeg that may read nothing.

What makes each part correct, in one line: a *Panel* has at most one encoder, says
what it is doing, ends it when asked, and retries only as its contract says; the
*Channels* never share a port or a destination, lose nothing confirmed, and close;
an *alarm* speaks of this run, of a condition held long enough, and of measures; the
*history* shows as open what is open and comes back by itself; the *preview* shows
the FFmpeg it has, and has one; the *sender* bounds what it queues, lets go of its
devices before it tries again, and ends when told to or left alone; the *relay* ends
when told to and does not wait for a sender that is gone.

## 2. Modules

| module | models | |
|---|---|---|
| `Panel` | `Panel`, `Session`, `Run` and their threads | core |
| `Recovery` | what the recovery section of `CONTRACT.md` promises, as `_schedule_restart` and `_restart` do it | abstract |
| `PanelRecovery` | the refinement mapping from `Panel` to `Recovery` | |
| `Channels` | `Channels`, the `Handler` threads, config files, crash and restart of the server | |
| `Alarms` | `Alarms.evaluate` over all sequences of snapshots | |
| `Monitoring` | the monitor thread, `History` and its disk, `Panel.close`, crash and restart of the panel | |
| `Preview` | `Preview`, its callers, reader threads and FFmpegs | |
| `NdiSender` | `run` and `main` of the NDI sender, with its queue, writer, watchdog and FFmpeg | abstract for `SshRelay` |
| `SshRelay` | `run` of the SSH relay, composed with the sender of one session | |
| `MCPanel`, `MCChannels` | values of the constants, and a VIEW, for TLC | |
| `PanelProofs`, `PanelSessionProofs`, `ChannelsProofs`, `AlarmsProofs`, `MonitoringProofs`, `PreviewProofs`, `NdiSenderProofs`, `SshRelayProofs` | theorems | |

A definition called `X_Something` beside a definition `X` is `X` with a plausible
bug; no specification uses it. They serve to show that each property can fail.

### Panel

One action is one stretch of code between two points where another thread can get
in: a block under `Panel.lock`, or a step of a wait outside it. Since every HTTP
request except Stop is one such block, it is one action (`Start`, `Probe`,
`SaveConfig`, `StartPreview`, `StopPreview`); a save writes its file under the lock.

| thread | code | actions |
|---|---|---|
| configure thread of run r, `pc[r]` | `_configure`, `_send`, `_await`, `_monitor_telemetry` | `SendProbe`, `AwaitOver`, `AwaitFails`, `Decide`, `SendStart`, `TelemetryEnds` |
| ... inside `_finish` | `_finish` | `FinishBegin`, `FinishEnd` |
| anyone inside `_terminate` | `_terminate` under `stop_lock` | `TerminateBegin`, `Escalate`, `ProcessGone` |
| caller of `stop()` or `close()` | `stop`, `close` | `Close`, `StopBegin`, `StopEnd` |
| collector of run r, until `exited[r]` | `_collect`, `_line` | `LineReady`, `LineStarted`, `LineSignal`, `LineChanged`, `CollectExit` |
| restart thread of session s, `timer[s]` | `_restart` | `TimerFires`, `TimerCancelled`, `Restart` |
| the encoder (external) | what it prints and when it dies | `Emit`, `ProcessExit` |

A failure to create the process (`LaunchFails`) is a choice of `Start`, `Probe` and
`Restart`. `_schedule_restart`, `_cancel_session` and `_record_exit` are part of the
actions that call them. `pipe[r]` is what the encoder has printed and the collector
has not yet read, so a line may be read long after it was true. A dead process that
is not yet collected is `crashed` or `ended`, and the two clocks (the timeouts of
`_await` and `_terminate`) are free: a deadline may pass whenever its wait has not
been satisfied.

The `except Exception` branch of `_configure` is reached only by the `TimeoutExpired` of
`_terminate`, when the run is cancelled and `_finish` returns at once: it is the last
disjunct of `Escalate`. Left out: validation, texts, events, telemetry and monitoring. A passphrase is the fact that there is one; a profile is
its revision.

### Channels

`owner` is `Channels.lock` and `holder[c]` the lock of panel c. `action()` is
`ActionBegin` (takes `Channels.lock`), `ActionLocks` (the panel's lock), one
`ActionChecks` per neighbour, each with that neighbour's lock, and `ActionEnd`
(`Panel.action`). A save is `SaveBegin`, then `SaveReplace` (`os.replace`) or
`SaveFails`, then `SaveEnd` (memory). `create()` has the same two halves. `close()`
marks one panel at a time under both locks. `Killed` is the end of the container at
any moment, with the machine still up, and `Starts` is `Channels.__init__` reading the disk.

Of a panel only `op[c]`, its profile and `closing` are kept. Two facts about it are
assumed here, and checked of `Panel`: a panel becomes busy only by a request
(`QuietUntilAsked`), and a closing panel comes to rest (`CloseEndsEncoder`).

### Alarms

A step is one call of `evaluate`, with any snapshot that `_sample_monitoring` could
take next and any delay since the last one. What may follow what (a run does not
come back to life; counters never decrease within a run or an SRT connection; a
measure exists only while its status is live, and a live telemetry may lack the readings of
the video, all at once) is in `Snapshots`. `Known` is the `known` of the code, which asks
for the video readings only for `video_stalled`; `Measured`, of the properties, asks for
them for `video_queue` too. Times are kept as
ages, cut off where the code stops telling them apart. The variables `seen`,
`events`, `measured`, `held` and `counted` remember, for the properties, what was
shown to the alarms; `evaluate` does not read them. `beat` only makes every
evaluation a step, so that fairness means that samples go on.

### Monitoring

`_sample_monitoring` is three steps: `Samples` (under the panel's lock), `Stored` or
`NotStored` (`History.append`, outside it) and `Notes` (under it again); `SampleFails` is an
exception on the way, which `_monitor` outlives and `close()` passes on. `Samples` may close
and raise the same code at once, as a change of run does. Two threads
run it, the monitor and whoever is in `close()`, which gives the monitor three seconds
(`Joined`) and goes on without it. Whatever else holds the panel's lock is only a
delay here. `db` is `History.db` together with whether `retry_at` has passed; a
refusal may come before the rows are written or after they are committed (the
`SELECT COUNT` that follows), and a failed `read()` closes the database too. `Killed`
may happen at any moment and keeps the disk; `Starts` is `start_monitoring`, which
closes what the disk shows as open. `lost`, `unsure`, `unfinished` and `late` are for the
properties: what the disk refused to close or an exception kept from it, whether its last
sample is one that was reported as refused, whether the last sample ended by an exception,
and whether `close()` overtook the monitor thread. `unsure` and `late` are the exact limits of
`StateChangesReachDisk`: a sample committed and then reported as failed is
not written again when the panel goes back to the signature noted before it; and a
monitor thread that is late writes its older sample after the last one, and may
re-open the database after `close()`.

### Preview

One step is one block under `Preview.lock` or one wait. `start` is under the panel's
lock, `stop` with it (`Panel.stop`, the collector) or without. `_stop` is `Forgets`,
`Kills`, `JoinsReader`; `start` goes on with `LaunchesPreview` (`Popen`), `InstallsPreview`
(the assignment under the lock) and `StartsReader`. `held` is the FFmpeg that the thread
inside has forgotten and not yet ended, or launched and not yet noted. A process may outlive `kill()`, which leaves `_stop` by an
exception (`raise`); a reader may outlive `join`. `inFlight[p]` is a picture that
process p has written and its reader has not yet stored.

### NdiSender and SshRelay

`at` is where the main thread of the sender is; the writer and FFmpeg are per run,
because those of an earlier run may still be there. `WriterGets` and `WriterAccounts`
are the two halves of `BoundedPackets.get`, which hold different locks. Whatever
raises leads to `Leave` and the steps of `finally`: `PutsMarker` (which may find no
room), `JoinsWriter`, `WaitsFfmpeg` (wait, terminate, kill), `JoinsWriter`, `Releases`.
With `srt` the sender is a listener that `main` runs again and again until the stop
file says stop; without it, it runs once over SSH and `watch_control` and `watchdog`
end it when `control` closes or no heartbeat comes. A stop file that cannot be read (it may
be removed between the two calls of `stop_requested`) raises: in the watchdog, whose thread
it ends (`WatchdogDies`), and in `main`, which ends with it (`MainEnds`). The header that the writer writes
first stays in a buffer and succeeds whatever FFmpeg does, so it is part of `Probes`. `Outside`
is any other end of that control pipe.

`SshRelay` is that other end: `Begins` (sink and ssh), `Uploads`, `Turns` and
`Forwards` (the inner loop and `write_all`), then the `finally` of a session, `Finishes`
(the heartbeats and the control pipe), `Waits` (`finish_process`, which may raise), `Joins`
and `Closes` (the two pipes), and `EndsRelay`. To close stderr takes the lock of its reader: while the
diagnostics thread is inside `readline` the close waits for it, and that thread for the
last process that holds the other end; a killed `sshpass` may leave its ssh behind. So
`Closes(FALSE)` is sure to come, once the thread has ended (`DiagnosticsEnd`), and
`Closes(TRUE)`, between two lines, is not; `Hangs` names the wait. The sender of one session, `watched`, is followed in full, so that
every session is followed in some behaviour; the senders of the others share nothing
with it. ssh, the sink and the connection may die or go silent at any time, and the
heartbeat thread returns for good at its first write that fails, be it that the pipe
is full at the moment.

## 3. Runs

| run | bounds | shows |
|---|---|---|
| `panel_requests` | 3 launches (the first may be a probe), 1 session, 1 retry, 2 revisions, one Stop at a time, `wait` after `kill()` may expire | eight properties of what the panel shows |
| `panel_recovery` | 3 launches, 1 session, 2 retries, Stop and shutdown | the recovery contract and the refinement of `Recovery` |
| `panel_live` | 2 launches, 1 retry, shutdown, fair threads | liveness |
| `panel_crash`, `panel_timeout` | 2 launches, 1 retry, one Stop | two disagreements with `CONTRACT.md` |
| `alarms` | rules `srt_rtt` and `srt_drops`, 2 runs, 2 connections, samples 2 s apart | safety of the alarms |
| `alarms_live` | rules `video_stalled` and `udp_errors`, 1 run | alarms follow what they are about |
| `alarms_crash` | rule `srt_rtt`, 1 run | a disagreement with `docs/webpanel.md` |
| `channels` | 2 channels, one of which may be created on the way, 2 clients, 2 saved profiles that overlap in a port, fair threads | safety, no deadlock, and the server ends |
| `gateway` | 2 calls of `run()`, 2 SSH sessions, 2 packets and 2 bytes in the queue, video of 2 bytes and audio of 1 | the sender alone and with the relay: safety and liveness |
| `preview` | 3 callers, 3 FFmpegs | safety of the preview |
| `monitoring` | 1 code, 2 rows of alarms, 2 signatures, any number of kills | what the history says is so, and it comes back |

**Panel.** `TypeOK`; `OneEncoder`; `KeysDropped` (no key outlives its session and its
run); `ProfileShownIsRun` (the profile shown is the one encoding); `ExitIsExplained`
(what the exit history says of a death is true: an unexpected one nobody asked for, and an
expected one has the reason of who did; not that every death of its own accord is
called unexpected, see disagreement 1); `PreviewHasEncoder`;
`ActivePhaseHasRun` (a phase that claims a run has one); `IdleIsStable` (once idle,
nothing but a request, or a line still in the pipe, changes the phase);
`ActiveSessionIsDriven` (an active session has a run or a restart thread, so the
panel is not busy for ever); `RestartWaitHasTimer`; `BudgetRespected`;
`NoLaunchWhenClosing`; `CancelledStaysDown`; `QuietUntilAsked`; `ImplementsRecovery`
(which lets a session be over at any time: one that is given up too early is the matter of
`ArmedSessionEndsAsDocumented`); `PhaseMovesOn`, `CloseEndsEncoder`, `DeathIsCollected`
(of an encoder that is dead: nothing is said of one that a full pipe keeps alive).

**Channels.** `TypeOK` with lock ownership; `InputsDisjoint`; `OutputsDistinct`;
`ShownIsOnDisk`; `ConfirmedChannelsStay`; `NoStartOnceClosing`; `ServerStops`.

**Alarms.** `AlarmsAreOfThisRun`; `RaisedAfterHolding`;
`CountersSpeakOfChanges`; `RecoveryIsMeasuredWhileEncoding` (of every alarm but `video_queue`,
see disagreement 4); `AlarmsFollow`.

**Monitoring.** `IncidentsOnDiskAreOpen` (what the disk shows as open is open, about to
be closed there, or was refused or lost to an exception; of the rows the limit has kept); `StateChangesReachDisk` (a state is not left out of
the history because it came while the disk refused); `HistoryComesBack`.

**Preview.** `ShownFrameIsCurrent`; `NoPreviewLeftBehind` (an FFmpeg that is not the preview
is dead, was killed, or is in the hands of the thread inside).

**Gateway.** `BytesAccounted` (the account is what is queued and what the writer has in
its hands, and within its limits); `RunsDoNotOverlap`; `SenderStops` (but for a listener
whose watchdog died of the stop file); `RelayEnds`; `SilentSessionEnds` (a session whose
heartbeats stopped comes to its end and through its clean-up); the last two but for `Hangs`.

Why the bounds are enough. A run interacts only with what is left of the one before
it (`Panel.run` is the last) and with its session, so two or three launches give every
overlap: an old configure thread in `_finish`, an old collector, and a new run. Two
retries are the smallest budget in which "one more", "one less" and "spent" differ.
One unread line is enough to be late. Two channels are a channel and its neighbour; the
order in which several neighbours are visited is left to the theorems of section 4,
which hold for any number. The second run and the
second connection are where alarms could leak; 2 s between samples makes no delay a
multiple of the interval but the 10 s window. The two passing alarm runs take four
of the rules, one of each kind of condition but the plain ones, whose delay is the
same code as `srt_rtt`'s. Two calls of `run()` and two sessions give every overlap of
what is left with what is new, and two packets of unlike size make the queue full by
count, by bytes, or not yet. Three callers are one inside `_stop`, one waiting for the
lifecycle and one waiting for the panel; three FFmpegs one being ended, one current and
one to come. Codes do not meet in `Monitoring` but in the limit of rows; two rows are an
incident and its closing, and the next incident drops the first.

`VIEW` in `MCPanel` merges states that differ only in superseded runs and sessions
that no action and no property looks at any more. It is not used in `panel_live`.
`CHECK_DEADLOCK FALSE`: a bounded panel does stop, when its launches are used up and
everything has ended, and the alarms stop when the run bound leaves no later snapshot.
The others are checked for deadlock; `Quiet` in `SshRelay` says when relay and sender have
both come to their end.

Fairness. In `FairSpec` of `Panel` each thread goes on when it can (they are ordinary
Python threads, and no action waits for a lock that is held for ever); a deadline
that can pass does; the encoder dies after SIGKILL. Nothing forces the encoder to
answer, to crash or to obey `quit`, nor an operator to ask. `panel_live` sets
`KillMayTimeOut` to FALSE: a process that outlives SIGKILL by two seconds is in the
kernel's hands. `FairSpec` of `Channels` asks that threads go on and that a panel told
to close comes to rest, which is `CloseEndsEncoder`. In `Alarms` the monitor thread
samples for ever. In the gateway the main thread of each program goes on (all its waits
have a limit), the watchdog and the control reader do, and a relay's wait for data ends
one way or the other; nothing is asked of FFmpeg, the writer, ssh, the sink, the far end
or the network, nor of whoever holds the relay's stderr open. At the bound on runs or sessions a program waits for a stop, which those
properties do not need. In `Monitoring` the monitor thread goes on as long as the process
lives, ten seconds pass, and a disk that is tried again and again does not refuse for
ever, nor does every sample end by an exception (SF on `Stored`).

### Disagreements found

1. `panel_crash`. If the encoder of a retry is dead when `_configure` writes its commands,
   and `_collect` has not yet set `cancel`, the write fails and the crash is treated as
   `probe_timeout` or `start_timeout`, the session is cancelled and the remaining
   attempts are lost. `CONTRACT.md:105` says that a crash during the probe of a retry
   consumes the remaining budget and that only an explicit timeout is terminal.
2. `panel_timeout`. `_finish` does not set `run.cancel`; until `_terminate` does, an
   `Encoding started` still in the pipe takes the phase from `stopping` to `running` and
   sets `encoding_started`. It lasts until the encoder has ended. The session is not armed
   by it: `server.py:720` asks for `active`, which `_finish` has cleared.
3. `alarms_crash`. When the process is dead the guard for unknown measures does not
   apply, and a threshold alarm is resolved as `recovered` without a measure
   (`monitoring.py:186`, against `docs/webpanel.md:247`).
4. The same, of one alarm and with the encoder up; no run of its own, and the reason why
   `RecoveryIsMeasuredWhileEncoding` is not about `video_queue`. A sample whose `video_*`
   values are null is accepted (`server.py:497-500`, as `CONTRACT.md:162` allows) and makes
   the telemetry live; `monitoring.py:185` then holds the queue as known while line 179 has
   no value for it, and after the clearing delay the alarm is `recovered`, against the
   comment at line 183 and `docs/webpanel.md:247`.

## 4. Theorems

For every value of the constants that satisfies the assumptions:

| theorem | states | by |
|---|---|---|
| `TypeCorrect` | `[]TypeOK` of `Panel` | `TypeInv`: types, and that a waiting restart thread has an attempt left |
| `AtMostOneEncoder` | `[]OneEncoder` | `EncoderInv` |
| `NeverLaunchesWhenClosing` | `NoLaunchWhenClosing` | the guards of the three launches |
| `CancelledSessionsStayDown` | `CancelledStaysDown` | `EncoderInv` |
| `PanelImplementsRecovery` | `ImplementsRecovery`: `Panel` implements `Recovery` | `SessionInv` |
| `SomebodyDrivesTheSession`, `RestartWaitIsTrue`, `BudgetIsNeverExceeded`, `ShownProfileRuns`, `PreviewNeedsEncoder` | `[]` of `ActiveSessionIsDriven`, `RestartWaitHasTimer`, `BudgetRespected`, `ProfileShownIsRun`, `PreviewHasEncoder` | `SessionInv` |
| `ExitsAreExplained` | `[]ExitIsExplained` | `EndInv` and `WhyInv` |
| `NoKeyIsLeft`, `RestsUntilAsked` | `[]KeysDropped`, `QuietUntilAsked` | `EncoderInv`, `EndInv`, `SessionInv` |
| `ActivePhasesAreTrue`, `IdleIsLeftWhenAsked` | `[]ActivePhaseHasRun`, `IdleIsStable` | `PanelInv`: the invariants above but `WhyInv`, with `LinesInOrder`, `MarkInv` and `PhaseInv` |
| `LocksExclude` | `[]TypeOK` of `Channels`, with who holds which lock | `ChannelsInv` |
| `BusyInputsAreDisjoint`, `StartedOutputsAreDistinct` | `[]InputsDisjoint`, `[]OutputsDistinct` | `ChannelsInv` |
| `NothingStartsOnceClosing` | `NoStartOnceClosing` | `ChannelsInv` |
| `ConfirmedChannelsSurvive` | `[]ConfirmedChannelsStay` | an invariant of its own, on the disk |
| `WhatIsShownIsOnDisk` | `[]ShownIsOnDisk` | `ChannelsInv` and `Saved` |
| `AlarmsBelongToTheRun`, `NoAlarmBeforeItsDelay`, `NoRecoveryUnmeasured` | `[]AlarmsAreOfThisRun`, `RaisedAfterHolding`, `RecoveryIsMeasuredWhileEncoding` | `AlarmInv` |
| `CountersAreNoTotals` | `CountersSpeakOfChanges` | `CountInv` |
| `AlarmTypes`, `PreviewTypes`, `SenderTypes`, `RelayIsTyped` | `[]` of the type invariants of `Alarms`, `Preview`, `NdiSender` and `SshRelay` | the invariants of the rows about them, of which they are parts; of `Alarms`, that every snapshot that may follow is a snapshot |
| `ShownIncidentsAreOpen`, `ChangesOfStateAreKept` | `[]IncidentsOnDiskAreOpen`, `[]StateChangesReachDisk` of `Monitoring` | `MonitorInv` |
| `FrameIsCurrent`, `NothingLeftBehind` | `[]ShownFrameIsCurrent`, `[]NoPreviewLeftBehind` | `PreviewInv` |
| `AccountIsExact`, `RunsAreSeparate` | `[]BytesAccounted`, `[]RunsDoNotOverlap` of the sender | `SenderInv` |
| `RelayKeepsSender` | `Spec` of `SshRelay` implements `SenderSpec` | every step of the relay is a step of `Outside` or leaves the sender alone |
| `GatewayAccountIsExact`, `GatewayRunsAreSeparate` | the two of the sender, in the composition | `RelayKeepsSender` |

`TypeOK` of `Panel` is not inductive: `Restart` adds one to `attempts`, and only the
comparison made in `_schedule_restart` some steps before keeps it in range; so
`TimerHasAttempt` carries that comparison to the step.
`OneEncoder` needs that a launch finds every earlier encoder dead. `Start` knows it
from `_busy`, whose test is `exited`; `Restart` does not test it: it relies on the
restart thread having been created after the exit was recorded. `EncoderInv` says so:
runs before the last have exited, an exited run is not alive, the last run has exited
as long as the current session is active and has a restart thread, and a session yet
to be created has none.

Two more invariants follow a run and a session to their end. `EndInv`: whoever is
inside `_terminate` has marked its run as expected, an expected run has its reason, a
signal goes to no other, and a collected run is cancelled and has no key. `SessionInv`
is about the moment in between: an active session is the panel's, the last run is its
own and is not expected to end, and once that run is collected the session is armed and
has a restart thread (or the panel is closing). From the two, an exit that
`_collect` does not expect finds either no session or one that `_schedule_restart` may
only hand over or end; so every step is a `Begin`, `Confirm`, `Crash`, `Again` or
`Over` of `Recovery`, or none. `WhyInv` follows the reason of an end to who gave it: the
step a configure thread is in tells whether `start` was sent, its outcome is one of that
step, so a timeout that is recorded is of the step the run was in, and an end nobody asked
for has no reason but its own or the end of the input. `BudgetRespected` counts a set of runs, which a launch
extends by one (`LaunchCount`).

What the panel *shows* needs two more facts. `_line` and `_finish` write the phase from
lines that may be old, so `LinesInOrder` says what may still be in the pipe: nothing but
"started" follows "changed", and "changed" is there only once the input is over; after it no
line moves the signal. `MarkInv` says whose an end is: a run that is expected to end and
not cancelled has its `_finish` in front of `stop_lock`, because a caller of `stop()` does
both in one block, and a caller's reason stays. `PhaseInv` puts the two together. While
`_finish` ends a run, either its own outcome is the reason, and then the phase is
"stopping" unless a late line has overwritten it (disagreement 2 above), or another reason
has taken its place, and then no active phase is shown and none can come. Once the panel
is idle, its last run is cancelled and no session is active, so what is left in the pipe is
not heeded.

`InputsDisjoint` is decided under one set of locks and used under another, so
`ChannelsInv` says what a thread in the middle of `action()` knows: the neighbours it
has visited are not in conflict (`ChecksHold`), and they stay so, because to become
busy takes `Channels.lock`, which it holds, and to save takes a lock the panel's own
busyness refuses. `ShownIsOnDisk` needs that the file a thread has written is the one it
is about to show (`Saved`), for which the same locks keep every other thread away.

The properties of the alarms compare two clocks: the delay that the code keeps, and
how long the condition has been seen to hold, or its measure to be live. `AlarmInv`
says that the first is never ahead of the second (`HeldLongEnough`,
`MeasuredLongEnough`), for codes and times at which the comparison is true at all: an
open alarm changes what its condition is (hysteresis), and once the process is dead
nothing is measured, which is disagreement 3 above.
`CountInv` ties what the code remembers of a counter to what it was shown: while the
encoder goes on, the stored count is the last one seen of that generation (or none was ever
stored, and it is zero), the age it keeps of the last increment is the true one as far as
ten seconds, and an alarm that is recovering has been quiet for those ten seconds and the
time it has been recovering.

`MonitorInv` follows a sample through the three steps of `_sample_monitoring`: what a batch
opens is an alarm, what it closes was one (and is one again only if the batch says so), and the rows that are open on disk after a batch
are those before it, opened and closed by it (`OpenOn`, over any order in which the rows of
a set are written and any limit that drops the oldest ones). Only one thread samples
unless `close()` has given up waiting (`Turns`), so the signature noted after a write is of
the sample that was written. The orders of the rows come from `SetToSeq`, for which the set
of alarms has to be finite (`IsFiniteSet(Codes)`, in the `ASSUME`): the alarms are the rules
of a table in the code.

`BytesAccounted` is true only with what the writer has taken and not yet taken off, so
`SenderInv` ties the account to both, and the guard of `put_nowait` then bounds the
queue. `RunsDoNotOverlap` needs where the main thread is: while it is inside a run the
runs before have ended, and each way out of `finally` leaves FFmpeg dead or killed.
In `PreviewInv` whoever is inside `start` or `_stop` holds `lifecycle`, so one FFmpeg is `held`.

Assumptions are those of the `ASSUME`s: bounds that are naturals, disjoint sets of
threads, profiles of the right type. TLC evaluates them in every run. `Init`, `Next`
and the guards are used as they are checked.

Only model-checked: the liveness properties (`PhaseMovesOn`, `CloseEndsEncoder`,
`DeathIsCollected`, `AlarmsFollow`, `ServerStops`, `SenderStops`, `RelayEnds`,
`SilentSessionEnds`, `HistoryComesBack`), since fairness is beyond the prover, and the first three
disagreements of section 3, which a run shows to be violated. Every other invariant and
action property of a passing run has its theorem.

## 5. Not modelled

* Build scripts, Docker files, VA-API and VapourSynth helpers: they run once and keep
  no state. The patches to third-party programs other than the URL input: the code
  around them is not in the repository.
* Validation of profiles and HTTP headers, and the layout of the console: functions of
  one input. The pilot: a sequential client. `ts_ssh.py`: the older relay of one SSH
  command, one loop in one thread, whose shape `SshRelay` covers.
* `SRTStats` and `_telemetry_line`: the freshness, generation and rates of a measure. In
  `Alarms` each measure is live, idle or missing as the environment likes.
* Of the gateway: the optional limit of seconds, Ctrl-C, the relay without a container
  (it sends UDP instead of feeding a sink), the exit codes of sshpass, the bytes of the
  transport stream, and the arithmetic of `Timeline` (a timecode it refuses is one of
  the exceptions of `ReadsFrame`). A killed FFmpeg writes nothing more.
* Of the preview: threads that cannot be created, and the age of a picture.
* A loss of power: `os.replace` (`server.py:556`) is followed by no `fsync` of the directory,
  so a profile or a channel that was confirmed may be missing after one. What is checked
  is a kill of the server or of its container.
* `monitor_failed`, which only decides what is logged.

Seen while reading, and outside the models: `Preview.stop` may raise `TimeoutExpired`
inside `Panel._collect` (`server.py:771`), before `run.exited` is set; an incident whose
row has been dropped by the limit of 200 rows is not closed after a restart. Seen too, and
let be by the properties that meet it: a listener whose watchdog died of the stop file goes
on (`ndi_sender.py:347`); the relay may wait in `process.stderr.close()`
(`ssh_relay.py:244`) for an ssh that a killed `sshpass` left behind; every
retry of an SRT listener whose writer waits in `get()` leaves a daemon thread behind.

## 6. Plan

Done: the modules and theorems above. Next, in order:

1. `Preview` composed with `Panel`, whose collector waits for `Preview.stop()` under its
   lock, and `Monitoring` with `Alarms`.
2. `Telemetry`: `SRTStats.accept` and `_telemetry_line`: freshness, generations, rates.
3. `Console`: polls, epochs and operations under way.
4. `UrlInput`: deadlines and reconnection of the encoder's input.

Proofs to add: once `Preview` is composed with `Panel`, that the composition implements
both; that one panel of `Channels` is `Panel` seen through its `_busy` and `closing`.
