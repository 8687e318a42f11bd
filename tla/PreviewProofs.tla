---------------------------- MODULE PreviewProofs ----------------------------
(***************************************************************************)
(* Proofs about the preview, for any number of callers and processes.      *)
(***************************************************************************)
EXTENDS Preview, TLAPS

USE DEF lockVars, callerVars, processVars, previewVars, None

\* Only the holder of Preview.lifecycle is past it.
Inside == {"forget", "kill", "join", "launch", "install", "read", "leave", "raise"}
LifecycleExcludes ==
    \A c \in Callers :
        /\ step[c] \in Inside => lifecycle = c
        /\ step[c] # "out" => job[c] # "none"
        /\ step[c] \in {"install", "read"} => held \in Processes

\* Once _stop has forgotten the process there is none until the new one is noted.
Forgotten ==
    \A c \in Callers : step[c] \in {"kill", "join", "launch", "install", "raise"} => process = None

PreviewInv ==
    PreviewTypeOK /\ LifecycleExcludes /\ Forgotten /\ ShownFrameIsCurrent /\ NoPreviewLeftBehind

LEMMA InitPreview == PreviewInit => PreviewInv
BY PreviewConstants DEF PreviewInit, PreviewInv, PreviewTypeOK, LifecycleExcludes, Inside, Forgotten,
   ShownFrameIsCurrent, NoPreviewLeftBehind, Processes

LEMMA ProcessesAreNat == Processes \subseteq Nat \ {0}
BY PreviewConstants DEF Processes

\* The threads inside Preview
LEMMA CallerType ==
    ASSUME PreviewTypeOK, NEW c \in Callers, Request(c) \/ Caller(c)
    PROVE  PreviewTypeOK'
<1> USE DEF PreviewTypeOK
<1>1. CASE Request(c)
  BY <1>1 DEF Request, Calls
<1>2. CASE Enters(c) \/ Forgets(c) \/ Kills(c) \/ JoinsReader(c)
  BY <1>2 DEF Enters, Forgets, Kills, JoinsReader, GoesTo
<1>3. CASE LaunchesPreview(c) \/ InstallsPreview(c) \/ StartsReader(c)
  BY <1>3 DEF LaunchesPreview, InstallsPreview, StartsReader, GoesTo
<1>4. CASE Leaves(c)
  BY <1>4 DEF Leaves
<1> QED  BY <1>1, <1>2, <1>3, <1>4 DEF Caller

LEMMA CallerLocks ==
    ASSUME PreviewTypeOK, LifecycleExcludes, Forgotten, NEW c \in Callers, Request(c) \/ Caller(c)
    PROVE  LifecycleExcludes' /\ Forgotten'
<1> USE DEF LifecycleExcludes, Forgotten, Inside, PreviewTypeOK
<1>0. "nobody" \notin Callers
  BY PreviewConstants
<1>1. CASE Request(c)
  BY <1>1 DEF Request, Calls
<1>2. CASE Enters(c)
  BY <1>0, <1>2 DEF Enters, GoesTo
<1>3. CASE Forgets(c)
  BY <1>3 DEF Forgets, GoesTo
<1>4. CASE Kills(c) \/ JoinsReader(c)
  BY <1>4 DEF Kills, JoinsReader, GoesTo
<1>5. CASE LaunchesPreview(c) \/ InstallsPreview(c) \/ StartsReader(c)
  <2>1. \A d \in Callers : d # c => step'[d] = step[d] /\ step'[d] \notin Inside
    BY <1>5 DEF LaunchesPreview, InstallsPreview, StartsReader, GoesTo
  <2>2. lifecycle' = c /\ job' = job /\ job[c] # "none"
    BY <1>5 DEF LaunchesPreview, InstallsPreview, StartsReader, GoesTo
  <2>3. step'[c] = "install" => process' = None /\ held' \in Processes
    BY <1>5 DEF LaunchesPreview, InstallsPreview, StartsReader, GoesTo
  <2>4. step'[c] = "raise" => process' = None
    BY <1>5 DEF LaunchesPreview, InstallsPreview, StartsReader, GoesTo
  <2>5. step'[c] = "read" => held' \in Processes
    BY <1>5 DEF LaunchesPreview, InstallsPreview, StartsReader, GoesTo
  <2>6. step'[c] \in {"install", "read", "leave", "raise"}
    BY <1>5 DEF LaunchesPreview, InstallsPreview, StartsReader, GoesTo
  <2> QED  BY <2>1, <2>2, <2>3, <2>4, <2>5, <2>6
<1>6. CASE Leaves(c)
  BY <1>6 DEF Leaves
<1> QED  BY <1>1, <1>2, <1>3, <1>4, <1>5, <1>6 DEF Caller

LEMMA CallerPictures ==
    ASSUME PreviewInv, NEW c \in Callers, Request(c) \/ Caller(c)
    PROVE  ShownFrameIsCurrent' /\ NoPreviewLeftBehind'
<1> USE DEF PreviewInv, ShownFrameIsCurrent, NoPreviewLeftBehind, PreviewTypeOK
<1>1. CASE Request(c)
  BY <1>1 DEF Request, Calls, LifecycleExcludes
<1>2. CASE Enters(c)
  BY <1>2 DEF Enters, GoesTo
<1>3. CASE Forgets(c)
  <2>1. \A d \in Callers : step[d] \notin {"kill", "install"}
    BY <1>3 DEF Forgets, LifecycleExcludes, Inside
  <2>2. ASSUME NEW p \in Processes, ffmpeg'[p] = "alive" PROVE p = held' /\ step'[c] = "kill"
    BY <1>3, <2>1, <2>2, ProcessesAreNat DEF Forgets, GoesTo, AliveNow
  <2> QED  BY <1>3, <2>2 DEF Forgets
<1>4. CASE Kills(c)
  BY <1>4 DEF Kills, GoesTo
<1>5. CASE JoinsReader(c)
  BY <1>5 DEF JoinsReader, GoesTo
<1>6. CASE LaunchesPreview(c)
  <2>1. process = None /\ \A d \in Callers : step[d] \notin {"kill", "install"}
    BY <1>6 DEF LaunchesPreview, LifecycleExcludes, Inside, Forgotten
  <2>2. \A p \in Processes : ffmpeg[p] # "alive"
    BY <2>1, ProcessesAreNat
  <2>3. \A p \in Processes : ffmpeg'[p] = "alive" => p = held' /\ step'[c] = "install"
    BY <1>6, <2>2 DEF LaunchesPreview, GoesTo
  <2> QED  BY <1>6, <2>1, <2>3 DEF LaunchesPreview
<1>7. CASE InstallsPreview(c)
  <2>1. process = None /\ \A d \in Callers : step[d] # "kill"
    BY <1>7 DEF InstallsPreview, LifecycleExcludes, Inside, Forgotten
  <2> QED  BY <1>7, <2>1, ProcessesAreNat DEF InstallsPreview
<1>8. CASE StartsReader(c)
  <2>1. \A d \in Callers : step[d] \notin {"kill", "install"}
    BY <1>8 DEF StartsReader, LifecycleExcludes, Inside
  <2> QED  BY <1>8, <2>1 DEF StartsReader
<1>9. CASE Leaves(c)
  <2>1. lifecycle = c /\ \A d \in Callers : step[d] \notin {"kill", "install"}
    BY <1>9 DEF Leaves, LifecycleExcludes, Inside
  <2> QED  BY <1>9, <2>1 DEF Leaves
<1> QED  BY <1>1, <1>2, <1>3, <1>4, <1>5, <1>6, <1>7, <1>8, <1>9 DEF Caller

\* FFmpeg and its readers
LEMMA RunsPreview ==
    ASSUME PreviewInv, PreviewRuns
    PROVE  PreviewInv'
<1>1. PICK p \in Processes : ReaderShows(p) \/ ReaderEnds(p) \/ FfmpegRuns(p)
  BY DEF PreviewRuns
<1>2. PreviewTypeOK'
  BY <1>1 DEF PreviewInv, PreviewTypeOK, ReaderShows, ReaderEnds, FfmpegRuns
<1>3. LifecycleExcludes' /\ Forgotten'
  BY <1>1 DEF PreviewInv, LifecycleExcludes, Forgotten, ReaderShows, ReaderEnds, FfmpegRuns
<1>4. ShownFrameIsCurrent'
  BY <1>1 DEF PreviewInv, ShownFrameIsCurrent, ReaderShows, ReaderEnds, FfmpegRuns
<1>5. NoPreviewLeftBehind'
  BY <1>1 DEF PreviewInv, PreviewTypeOK, NoPreviewLeftBehind, ReaderShows, ReaderEnds, FfmpegRuns
<1> QED  BY <1>2, <1>3, <1>4, <1>5 DEF PreviewInv

LEMMA NextPreview == PreviewInv /\ [PreviewNext]_previewVars => PreviewInv'
<1> SUFFICES ASSUME PreviewInv, [PreviewNext]_previewVars PROVE PreviewInv'
  OBVIOUS
<1>1. CASE \E c \in Callers : Request(c) \/ Caller(c)
  BY <1>1, CallerType, CallerLocks, CallerPictures DEF PreviewInv
<1>2. CASE PreviewRuns
  BY <1>2, RunsPreview
<1>3. CASE UNCHANGED previewVars
  BY <1>3 DEF PreviewInv, PreviewTypeOK, LifecycleExcludes, Forgotten, ShownFrameIsCurrent,
     NoPreviewLeftBehind
<1> QED  BY <1>1, <1>2, <1>3 DEF PreviewNext

LEMMA PreviewInvariant == PreviewSpec => []PreviewInv
BY InitPreview, NextPreview, PTL DEF PreviewSpec

\* The types of the preview's state.
THEOREM PreviewTypes == PreviewSpec => []PreviewTypeOK
BY PreviewInvariant, PTL DEF PreviewInv

\* However starts, stops and late readers interleave, the picture shown is one of
\* the present FFmpeg.
THEOREM FrameIsCurrent == PreviewSpec => []ShownFrameIsCurrent
BY PreviewInvariant, PTL DEF PreviewInv

\* No start or stop leaves an FFmpeg running that nobody holds.
THEOREM NothingLeftBehind == PreviewSpec => []NoPreviewLeftBehind
BY PreviewInvariant, PTL DEF PreviewInv
=============================================================================
