SPECIFICATION FairSpec
CONSTANTS
  MaxRuns = 2
  MaxProbed = 1
  MaxSessions = 1
  MaxAttempts = 1
  MaxRevision = 1
  PipeBound = 1
  Stoppers = {}
  Closers = {c}
  Keys = {FALSE}
  Previewing = FALSE
  KillMayTimeOut = FALSE
  Says = {"video", "started"}
PROPERTIES
  PhaseMovesOn
  CloseEndsEncoder
  DeathIsCollected
CHECK_DEADLOCK FALSE
