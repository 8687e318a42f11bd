SPECIFICATION Spec
CONSTANTS
  MaxRuns = 3
  MaxProbed = 1
  MaxSessions = 1
  MaxAttempts = 1
  MaxRevision = 2
  PipeBound = 1
  Stoppers = {s1}
  Closers = {}
  Keys = {TRUE}
  Previewing = TRUE
  KillMayTimeOut = TRUE
  Says = {"video", "novideo", "started", "receiving", "changed"}
VIEW View
INVARIANTS
  TypeOK
  OneEncoder
  KeysDropped
  ProfileShownIsRun
  ExitIsExplained
  PreviewHasEncoder
  ActivePhaseHasRun
PROPERTIES
  IdleIsStable
CHECK_DEADLOCK FALSE
