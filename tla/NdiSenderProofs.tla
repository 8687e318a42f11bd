--------------------------- MODULE NdiSenderProofs ---------------------------
(***************************************************************************)
(* Proofs about the NDI sender, for any number of runs, any limits of its  *)
(* queue and packets of any size, whoever is at the other end of the       *)
(* control pipe.                                                           *)
(***************************************************************************)
EXTENDS NdiSender, TLAPS

USE DEF pipeVars, mainVars, queueVars, runVars, senderVars, Within

\* Where run() is on, there is a run.
BetweenRuns == {"absent", "head", "returned", "sleep", "exited"}
RunExists == at \notin {"absent", "head", "exited"} => run \in Runs

\* A run that has not begun has nothing yet, and one that has only begun no FFmpeg.
Fresh ==
    /\ \A r \in Runs : r > run => ffmpeg[r] = "none" /\ writer[r] = "none" /\ ~ndi[r]
    /\ at \in {"connect", "probe"} => ffmpeg[run] = "none" /\ writer[run] = "none"

SenderType == TypeOK /\ RunExists

LEMMA InitType == SenderInit => SenderType
<1> SUFFICES ASSUME SenderInit PROVE SenderType
  OBVIOUS
<1>1. queued \in [Runs -> [Tracks -> Nat]] /\ bytes \in [Runs -> Nat] /\ marker \in [Runs -> BOOLEAN]
  BY DEF SenderInit
<1>2. at \in {"absent", "head"} /\ run \in 0..MaxRuns
  BY SenderConstants DEF SenderInit
<1> QED  BY <1>1, <1>2 DEF SenderInit, SenderType, TypeOK, RunExists, Places

LEMMA ConstantTypes ==
    /\ MaxRuns \in Nat /\ MaxPackets \in Nat /\ MaxBytes \in Nat
    /\ Runs \subseteq Nat \ {0}
    /\ \A k \in Tracks : Size(k) \in Nat
BY SenderConstants DEF Runs, Tracks, Size

-----------------------------------------------------------------------------
(* The account of the queue                                                 *)

\* What one run's account must be
Accounted(r) ==
    /\ bytes[r] = VideoSize * queued[r]["video"] + AudioSize * queued[r]["audio"] + Held(r)
    /\ bytes[r] <= MaxBytes /\ Count(r) <= MaxPackets

Accounts == \A r \in Runs : Accounted(r)

LEMMA AccountsAreBytes == Accounts => BytesAccounted
BY DEF BytesAccounted, Accounts, Accounted

LEMMA Distributes ==
    ASSUME NEW a \in Nat, NEW b \in Nat
    PROVE  a * (b + 1) = a * b + a /\ a * b \in Nat /\ (b > 0 => a * (b - 1) = a * b - a)
BY Z3

LEMMA InitAccounted == SenderInit => Accounts
<1> SUFFICES ASSUME SenderInit, NEW r \in Runs PROVE Accounted(r)
  BY DEF Accounts
<1>1. bytes[r] = 0 /\ queued[r]["video"] = 0 /\ queued[r]["audio"] = 0 /\ Held(r) = 0 /\ Count(r) = 0
  BY DEF SenderInit, Tracks, Held, Count
<1> QED  BY <1>1, SenderConstants DEF Accounted

\* Putting a packet that fits
LEMMA PutAccounts ==
    ASSUME TypeOK, NEW r \in Runs, NEW k \in Tracks, Accounted(r), Fits(r, k), Put(r, k),
           UNCHANGED <<writer, marker>>
    PROVE  /\ Accounted(r)' /\ queued' \in [Runs -> [Tracks -> Nat]] /\ bytes' \in [Runs -> Nat]
           /\ \A s \in Runs : s # r => queued'[s] = queued[s] /\ bytes'[s] = bytes[s]
<1>0. /\ queued \in [Runs -> [Tracks -> Nat]] /\ bytes \in [Runs -> Nat] /\ Size(k) \in Nat
      /\ queued[r]["video"] \in Nat /\ queued[r]["audio"] \in Nat /\ k \in {"video", "audio"}
  BY ConstantTypes DEF TypeOK, Tracks
<1>1. queued'[r][k] = queued[r][k] + 1 /\ bytes'[r] = bytes[r] + Size(k)
  BY <1>0 DEF Put
<1>2. \A j \in Tracks : j # k => queued'[r][j] = queued[r][j]
  BY <1>0 DEF Put
<1>3. queued' \in [Runs -> [Tracks -> Nat]] /\ bytes' \in [Runs -> Nat]
  BY <1>0 DEF Put
<1>4. \A s \in Runs : s # r => queued'[s] = queued[s] /\ bytes'[s] = bytes[s]
  BY <1>0 DEF Put
<1>5. Held(r)' = Held(r) /\ Held(r) \in Nat
  BY ConstantTypes DEF Held, TypeOK
<1>6. CASE k = "video"
  <2>1. VideoSize * queued'[r]["video"] = VideoSize * queued[r]["video"] + VideoSize
    BY <1>0, <1>1, <1>6, Distributes, SenderConstants
  <2>2. VideoSize * queued[r]["video"] \in Nat /\ AudioSize * queued[r]["audio"] \in Nat
    BY <1>0, Distributes, SenderConstants
  <2>3. queued'[r]["audio"] = queued[r]["audio"]
    BY <1>2, <1>6 DEF Tracks
  <2>4. bytes'[r] = VideoSize * queued'[r]["video"] + AudioSize * queued'[r]["audio"] + Held(r)'
    BY <1>1, <1>5, <1>6, <2>1, <2>2, <2>3, SenderConstants DEF Accounted, Size
  <2> QED  BY <1>0, <1>1, <1>3, <1>4, <1>6, <2>3, <2>4, SenderConstants DEF Accounted, Fits, Count
<1>7. CASE k = "audio"
  <2>1. AudioSize * queued'[r]["audio"] = AudioSize * queued[r]["audio"] + AudioSize
    BY <1>0, <1>1, <1>7, Distributes, SenderConstants
  <2>2. VideoSize * queued[r]["video"] \in Nat /\ AudioSize * queued[r]["audio"] \in Nat
    BY <1>0, Distributes, SenderConstants
  <2>3. queued'[r]["video"] = queued[r]["video"]
    BY <1>2, <1>7 DEF Tracks
  <2>4. bytes'[r] = VideoSize * queued'[r]["video"] + AudioSize * queued'[r]["audio"] + Held(r)'
    BY <1>1, <1>5, <1>7, <2>1, <2>2, <2>3, SenderConstants DEF Accounted, Size
  <2> QED  BY <1>0, <1>1, <1>3, <1>4, <1>7, <2>3, <2>4, SenderConstants DEF Accounted, Fits, Count
<1> QED  BY <1>0, <1>6, <1>7

\* Taking a packet out moves its bytes from the queue to the writer's hands
LEMMA GetAccounts ==
    ASSUME TypeOK, NEW r \in Runs, Accounted(r), WriterGets(r)
    PROVE  Accounted(r)'
<1>0. /\ queued \in [Runs -> [Tracks -> Nat]] /\ bytes' = bytes /\ bytes[r] \in Nat
      /\ queued[r]["video"] \in Nat /\ queued[r]["audio"] \in Nat
      /\ writer \in [Runs -> {"none", "get", "write", "ended"} \cup Tracks]
      /\ marker \in [Runs -> BOOLEAN]
  BY DEF TypeOK, Tracks, WriterGets
<1>1. writer[r] = "get" /\ Held(r) = 0
  BY DEF WriterGets, Held, Tracks
<1>2. VideoSize * queued[r]["video"] \in Nat /\ AudioSize * queued[r]["audio"] \in Nat
  BY <1>0, Distributes, SenderConstants
<1>3. CASE queued[r]["video"] > 0 /\ queued' = [queued EXCEPT ![r]["video"] = @ - 1]
           /\ writer' = [writer EXCEPT ![r] = "video"] /\ marker' = marker
  <2>1. queued'[r]["video"] = queued[r]["video"] - 1 /\ queued'[r]["audio"] = queued[r]["audio"]
    BY <1>0, <1>3 DEF Tracks
  <2>2. VideoSize * queued'[r]["video"] = VideoSize * queued[r]["video"] - VideoSize
    BY <1>0, <1>3, <2>1, Distributes, SenderConstants
  <2>3. Held(r)' = VideoSize
    BY <1>0, <1>3 DEF Held, Tracks, Size
  <2> QED  BY <1>0, <1>1, <1>2, <1>3, <2>1, <2>2, <2>3, SenderConstants DEF Accounted, Count
<1>4. CASE queued[r]["audio"] > 0 /\ queued' = [queued EXCEPT ![r]["audio"] = @ - 1]
           /\ writer' = [writer EXCEPT ![r] = "audio"] /\ marker' = marker
  <2>1. queued'[r]["audio"] = queued[r]["audio"] - 1 /\ queued'[r]["video"] = queued[r]["video"]
    BY <1>0, <1>4 DEF Tracks
  <2>2. AudioSize * queued'[r]["audio"] = AudioSize * queued[r]["audio"] - AudioSize
    BY <1>0, <1>4, <2>1, Distributes, SenderConstants
  <2>3. Held(r)' = AudioSize
    BY <1>0, <1>4 DEF Held, Tracks, Size
  <2> QED  BY <1>0, <1>1, <1>2, <1>4, <2>1, <2>2, <2>3, SenderConstants DEF Accounted, Count
<1>5. CASE marker[r] /\ marker' = [marker EXCEPT ![r] = FALSE] /\ queued' = queued
           /\ writer' = [writer EXCEPT ![r] = "ended"]
  <2>1. Held(r)' = 0
    BY <1>0, <1>5 DEF Held, Tracks
  <2>2. Count(r)' <= Count(r)
    BY <1>0, <1>5 DEF Count
  <2>3. Count(r)' \in Nat /\ Count(r) \in Nat
    BY <1>0, <1>5 DEF Count
  <2> QED  BY <1>0, <1>1, <1>5, <2>1, <2>2, <2>3, ConstantTypes DEF Accounted
<1> QED  BY <1>3, <1>4, <1>5 DEF WriterGets, Tracks

LEMMA GetKeepsTypes ==
    ASSUME TypeOK, NEW r \in Runs, WriterGets(r)
    PROVE  queued' \in [Runs -> [Tracks -> Nat]]
BY DEF TypeOK, WriterGets, Tracks

LEMMA WriterAccounted ==
    ASSUME SenderType, Accounts, NEW r \in Runs, Writer(r)
    PROVE  SenderType' /\ Accounts'
<1> USE DEF SenderType, RunExists
<1>1. CASE WriterGets(r)
  <2>1. TypeOK'
    BY <1>1, GetKeepsTypes DEF TypeOK, WriterGets, Tracks
  <2>2. \A s \in Runs : s # r => (Accounted(s) => Accounted(s)')
    BY <1>1 DEF TypeOK, WriterGets, Accounted, Held, Count
  <2>3. Accounts'
    BY <1>1, <2>2, GetAccounts DEF Accounts
  <2> QED  BY <1>1, <2>1, <2>3 DEF WriterGets
<1>2. CASE WriterAccounts(r)
  <2>0. /\ queued[r]["video"] \in Nat /\ queued[r]["audio"] \in Nat /\ writer[r] \in Tracks
        /\ bytes \in [Runs -> Nat] /\ Held(r) = Size(writer[r]) /\ Size(writer[r]) \in Nat
    BY <1>2, ConstantTypes DEF TypeOK, Tracks, WriterAccounts, Held
  <2>1. VideoSize * queued[r]["video"] \in Nat /\ AudioSize * queued[r]["audio"] \in Nat
    BY <2>0, Distributes, SenderConstants
  <2>2. bytes[r] - Size(writer[r]) = VideoSize * queued[r]["video"] + AudioSize * queued[r]["audio"]
    BY <2>0, <2>1 DEF Accounts, Accounted
  <2>3. Held(r)' = 0 /\ bytes'[r] = bytes[r] - Size(writer[r]) /\ bytes'[r] \in Nat
    BY <1>2, <2>0, <2>1, <2>2 DEF TypeOK, WriterAccounts, Held, Tracks
  <2>4. TypeOK'
    BY <1>2, <2>3 DEF TypeOK, WriterAccounts
  <2>5. Accounted(r)'
    BY <1>2, <2>0, <2>1, <2>2, <2>3, ConstantTypes DEF Accounts, Accounted, WriterAccounts, Count
  <2>6. \A s \in Runs : s # r => (Accounted(s) => Accounted(s)')
    BY <1>2 DEF TypeOK, WriterAccounts, Accounted, Held, Count
  <2>7. Accounts'
    BY <2>5, <2>6 DEF Accounts
  <2> QED  BY <1>2, <2>4, <2>7 DEF WriterAccounts
<1>3. CASE WriterWrites(r)
  <2>1. TypeOK'
    BY <1>3 DEF TypeOK, WriterWrites
  <2>2. \A s \in Runs : Held(s)' = Held(s)
    BY <1>3 DEF TypeOK, WriterWrites, Held, Tracks
  <2> QED  BY <1>3, <2>1, <2>2 DEF WriterWrites, Accounts, Accounted, Count
<1> QED  BY <1>1, <1>2, <1>3 DEF Writer

\* Steps of main() that leave the queue as it is
LEMMA QuietQueue ==
    ASSUME Accounts, UNCHANGED queueVars,
           \A r \in Runs : Held(r)' = Held(r)
    PROVE  Accounts'
BY DEF Accounts, Accounted, Count

LEMMA MainType ==
    ASSUME SenderType, Main
    PROVE  SenderType'
<1> USE DEF SenderType, RunExists, TypeOK, Places
<1>1. CASE RunBegins
  <2>1. run' \in 0..MaxRuns /\ run' \in Runs
    BY <1>1, ConstantTypes DEF RunBegins, Runs
  <2> QED  BY <1>1, <2>1 DEF RunBegins
<1>2. CASE Connects \/ LoopTurns \/ JoinsWriter \/ Releases
  BY <1>2 DEF Connects, LoopTurns, JoinsWriter, Releases, GoTo, Leave
<1>3. CASE Probes
  BY <1>3 DEF Probes, GoTo, Leave
<1>4. CASE ReadsFrame
  <2>1. run \in Runs
    BY <1>4 DEF ReadsFrame
  <2>2. queued' \in [Runs -> [Tracks -> Nat]] /\ bytes' \in [Runs -> Nat]
    <3>1. ASSUME NEW k \in Tracks, Put(run, k) PROVE queued' \in [Runs -> [Tracks -> Nat]] /\ bytes' \in [Runs -> Nat]
      BY <2>1, <3>1, ConstantTypes DEF Put
    <3> QED  BY <1>4, <3>1 DEF ReadsFrame
  <2> QED  BY <1>4, <2>1, <2>2 DEF ReadsFrame, GoTo, Leave
<1>5. CASE PutsMarker
  <2>1. marker' \in [Runs -> BOOLEAN]
    BY <1>5 DEF PutsMarker
  <2> QED  BY <1>5, <2>1 DEF PutsMarker, GoTo
<1>7. CASE WaitsFfmpeg
  BY <1>7 DEF WaitsFfmpeg, GoTo
<1>6. CASE MainEnds \/ MainRetries
  BY <1>6 DEF MainEnds, MainRetries, Ends, GoTo
<1> QED  BY <1>1, <1>2, <1>3, <1>4, <1>5, <1>6, <1>7 DEF Main

LEMMA MainAccounted ==
    ASSUME SenderType, Fresh, Accounts, Main
    PROVE  Accounts'
<1> USE DEF SenderType
<1>1. CASE RunBegins \/ Connects \/ LoopTurns \/ JoinsWriter \/ WaitsFfmpeg \/ Releases \/ MainEnds \/ MainRetries
  BY <1>1, QuietQueue DEF RunBegins, Connects, LoopTurns, JoinsWriter, WaitsFfmpeg, Releases,
     MainEnds, MainRetries, Held
<1>2. CASE Probes
  <2>1. \A r \in Runs : Held(r)' = Held(r)
    BY <1>2 DEF Probes, Fresh, Held, Tracks, TypeOK, RunExists
  <2> QED  BY <1>2, <2>1, QuietQueue DEF Probes
<1>3. CASE ReadsFrame
  <2>0. PICK r \in Runs : r = run
    BY <1>3 DEF ReadsFrame, RunExists
  <2>1. ASSUME NEW k \in Tracks, Fits(run, k), Put(run, k) PROVE Accounts'
    <3>0. Fits(r, k) /\ Put(r, k) /\ Accounted(r)
      BY <2>0, <2>1 DEF Accounts
    <3>1. Accounted(r)' /\ \A s \in Runs : s # r => queued'[s] = queued[s] /\ bytes'[s] = bytes[s]
      BY <1>3, <3>0, PutAccounts DEF ReadsFrame
    <3>2. \A s \in Runs : s # r => (Accounted(s) => Accounted(s)')
      BY <1>3, <3>1 DEF ReadsFrame, Accounted, Held, Count
    <3> QED  BY <3>1, <3>2 DEF Accounts
  <2>2. ASSUME UNCHANGED queueVars PROVE Accounts'
    BY <1>3, <2>2, QuietQueue DEF ReadsFrame, Held
  <2> QED  BY <1>3, <2>1, <2>2 DEF ReadsFrame
<1>4. CASE PutsMarker
  <2>0. run \in Runs
    BY <1>4 DEF PutsMarker, RunExists
  <2>1. \A r \in Runs : Count(r)' <= MaxPackets
    BY <1>4, <2>0, ConstantTypes DEF PutsMarker, Accounts, Accounted, Count, TypeOK, Tracks
  <2>2. \A r \in Runs : Held(r)' = Held(r)
    BY <1>4 DEF PutsMarker, Held
  <2> QED  BY <1>4, <2>1, <2>2 DEF PutsMarker, Accounts, Accounted
<1> QED  BY <1>1, <1>2, <1>3, <1>4 DEF Main

-----------------------------------------------------------------------------
(* Runs, one after the other                                                *)

\* A run that main() has left holds nothing, or an FFmpeg that kill() did not end.
Settled(r) == ffmpeg[r] \notin {"alive", "told"} /\ (ndi[r] => ffmpeg[r] = "killed")
OneByOne ==
    /\ \A r \in Runs : r < run => Settled(r)
    /\ at \in BetweenRuns /\ run > 0 => Settled(run)
    /\ at \in {"rejoin", "release"} => ffmpeg[run] \notin {"alive", "told"}

SenderInv == SenderType /\ Fresh /\ Accounts /\ OneByOne

LEMMA InitRuns == SenderInit => Fresh /\ OneByOne
BY DEF SenderInit, Fresh, OneByOne, Runs

LEMMA MainRuns ==
    ASSUME SenderInv, Main
    PROVE  Fresh' /\ OneByOne'
<1> USE DEF SenderInv, SenderType, TypeOK, RunExists, Fresh, OneByOne, Settled, BetweenRuns, Places
<1>0. run \in Nat /\ \A r \in Runs : r \in Nat
  BY ConstantTypes
<1>1. CASE RunBegins
  <2>1. run' = run + 1 /\ run' \in Runs /\ UNCHANGED <<ffmpeg, writer, ndi>> /\ at = "head" /\ at' = "connect"
    BY <1>1, ConstantTypes DEF RunBegins, Runs
  <2>2. \A r \in Runs : r < run' => r < run \/ (r = run /\ run > 0)
    BY <1>0, <2>1, ConstantTypes
  <2>3. \A r \in Runs : r >= run' => r > run
    BY <1>0, <2>1
  <2> QED  BY <1>0, <2>1, <2>2, <2>3
<1>2. CASE Connects
  <2>1. /\ UNCHANGED <<run, ffmpeg, writer>> /\ at = "connect" /\ at' \in {"probe", "release"}
        /\ ndi' = [ndi EXCEPT ![run] = ndi'[run]]
    BY <1>2 DEF Connects, GoTo, Leave
  <2>2. \A r \in Runs : r # run => ndi'[r] = ndi[r]
    BY <2>1
  <2>3. ffmpeg[run] = "none" /\ writer[run] = "none"
    BY <2>1
  <2>4. Fresh'
    <3>1. \A r \in Runs : r > run => r # run
      BY <1>0
    <3> QED  BY <2>1, <2>2, <2>3, <3>1
  <2>5. OneByOne'
    <3>1. \A r \in Runs : r < run => r # run
      BY <1>0
    <3> QED  BY <2>1, <2>2, <2>3, <3>1
  <2> QED  BY <2>4, <2>5
<1>3. CASE Probes
  BY <1>0, <1>3 DEF Probes, GoTo, Leave
<1>4. CASE LoopTurns
  BY <1>0, <1>4 DEF LoopTurns, GoTo, Leave
<1>5. CASE ReadsFrame
  BY <1>0, <1>5 DEF ReadsFrame, GoTo, Leave
<1>6. CASE PutsMarker \/ JoinsWriter
  BY <1>0, <1>6 DEF PutsMarker, JoinsWriter, GoTo
<1>7. CASE WaitsFfmpeg
  BY <1>0, <1>7 DEF WaitsFfmpeg, GoTo
<1>8. CASE Releases
  BY <1>0, <1>8 DEF Releases, GoTo
<1>9. CASE MainEnds \/ MainRetries
  BY <1>0, <1>9 DEF MainEnds, MainRetries, Ends, GoTo
<1> QED  BY <1>1, <1>2, <1>3, <1>4, <1>5, <1>6, <1>7, <1>8, <1>9 DEF Main

LEMMA WriterRuns ==
    ASSUME SenderInv, NEW r \in Runs, Writer(r)
    PROVE  Fresh' /\ OneByOne'
<1> USE DEF SenderInv, SenderType, TypeOK, RunExists, Fresh, OneByOne, Settled
<1>1. /\ UNCHANGED <<at, run, ffmpeg, ndi>> /\ writer[r] # "none"
      /\ \A s \in Runs : s # r => writer'[s] = writer[s]
  BY DEF Writer, WriterGets, WriterAccounts, WriterWrites, Tracks
<1> QED  BY <1>1

\* Whatever happens around main(): FFmpeg dies, watchers, the operator, the far end
LEMMA AroundMain ==
    ASSUME SenderInv, (\E r \in Runs : FfmpegDies(r)) \/ Watchers \/ Operator \/ Outside
    PROVE  SenderInv'
<1> USE DEF SenderInv, SenderType
<1>1. CASE \E r \in Runs : FfmpegDies(r)
  <2> PICK r \in Runs : FfmpegDies(r)
    BY <1>1
  <2>1. TypeOK' /\ RunExists'
    BY DEF TypeOK, RunExists, FfmpegDies
  <2>2. Fresh' /\ OneByOne'
    BY DEF TypeOK, Fresh, OneByOne, Settled, FfmpegDies
  <2>3. Accounts'
    BY QuietQueue DEF FfmpegDies, Held
  <2> QED  BY <2>1, <2>2, <2>3
<1>2. CASE ControlEnds \/ HeartbeatLate \/ StopFileSeen
  <2>1. SetsStop
    BY <1>2 DEF ControlEnds, HeartbeatLate, StopFileSeen
  <2>2. TypeOK' /\ RunExists'
    BY <2>1 DEF TypeOK, RunExists, SetsStop
  <2>3. Fresh' /\ OneByOne'
    BY <2>1 DEF Fresh, OneByOne, Settled, SetsStop
  <2>4. Accounts'
    BY <2>1, QuietQueue DEF SetsStop, Held
  <2> QED  BY <2>2, <2>3, <2>4
<1>3. CASE WatchdogDies
  <2>1. TypeOK' /\ RunExists'
    BY <1>3 DEF TypeOK, RunExists, WatchdogDies
  <2>2. Fresh' /\ OneByOne'
    BY <1>3 DEF Fresh, OneByOne, Settled, WatchdogDies
  <2>3. Accounts'
    BY <1>3, QuietQueue DEF WatchdogDies, Held
  <2> QED  BY <2>1, <2>2, <2>3
<1>4. CASE Operator \/ Outside
  <2>1. TypeOK' /\ RunExists'
    <3>1. beats' \in BOOLEAN /\ at' \in {at, "head"} /\ (at' # at => at = "absent")
      BY <1>4 DEF TypeOK, Operator, Outside
    <3> QED  BY <1>4, <3>1 DEF TypeOK, RunExists, Places, Operator, Outside
  <2>2. Fresh' /\ OneByOne'
    BY <1>4 DEF Fresh, OneByOne, Settled, BetweenRuns, Operator, Outside
  <2>3. Accounts'
    BY <1>4, QuietQueue DEF Operator, Outside, Held
  <2> QED  BY <2>1, <2>2, <2>3
<1> QED  BY <1>1, <1>2, <1>3, <1>4 DEF Watchers

LEMMA NextSender == SenderInv /\ [Sender \/ Outside]_senderVars => SenderInv'
<1> SUFFICES ASSUME SenderInv, [Sender \/ Outside]_senderVars PROVE SenderInv'
  OBVIOUS
<1>1. CASE Main
  BY <1>1, MainType, MainAccounted, MainRuns DEF SenderInv
<1>2. CASE \E r \in Runs : Writer(r)
  BY <1>2, WriterAccounted, WriterRuns DEF SenderInv
<1>3. CASE (\E r \in Runs : FfmpegDies(r)) \/ Watchers \/ Operator \/ Outside
  BY <1>3, AroundMain
<1>4. CASE UNCHANGED senderVars
  <2>1. SenderType' /\ Fresh' /\ OneByOne'
    BY <1>4 DEF SenderInv, SenderType, TypeOK, RunExists, Fresh, OneByOne, Settled
  <2>2. Accounts'
    BY <1>4, QuietQueue DEF SenderInv, Held
  <2> QED  BY <2>1, <2>2 DEF SenderInv
<1> QED  BY <1>1, <1>2, <1>3, <1>4 DEF Sender

LEMMA SenderInvariant == SenderSpec => []SenderInv
<1>1. SenderInit => SenderInv
  BY InitType, InitAccounted, InitRuns DEF SenderInv
<1> QED  BY <1>1, NextSender, PTL DEF SenderSpec

LEMMA SettledRuns == SenderInv => RunsDoNotOverlap
BY DEF SenderInv, OneByOne, Settled, RunsDoNotOverlap

\* The types of the sender's state; the account of its queue never goes below zero.
THEOREM SenderTypes == SenderSpec => []TypeOK
BY SenderInvariant, PTL DEF SenderInv, SenderType

\* The account of the queue is exact between the two locks, and bounds the queue.
THEOREM AccountIsExact == SenderSpec => []BytesAccounted
BY SenderInvariant, AccountsAreBytes, PTL DEF SenderInv

\* main() begins no run before the one before has let go of the receiver and the port.
THEOREM RunsAreSeparate == SenderSpec => []RunsDoNotOverlap
BY SenderInvariant, SettledRuns, PTL
=============================================================================
