SPECIFICATION Spec
CONSTANTS
  MaxRuns = 2
  MaxProbed = 1
  MaxSessions = 1
  MaxAttempts = 1
  MaxRevision = 1
  PipeBound = 1
  Stoppers = {s1}
  Closers = {}
  Keys = {TRUE}
  Previewing = FALSE
  KillMayTimeOut = FALSE
  Says = {"video", "started"}
VIEW View
PROPERTIES
  TimeoutIsTerminal
CHECK_DEADLOCK FALSE
