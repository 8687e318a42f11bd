SPECIFICATION Spec
CONSTANTS
  MaxRuns = 3
  MaxProbed = 1
  MaxSessions = 1
  MaxAttempts = 2
  MaxRevision = 1
  PipeBound = 1
  Stoppers = {s1}
  Closers = {c}
  Keys = {TRUE}
  Previewing = TRUE
  KillMayTimeOut = FALSE
  Says = {"video", "started", "retrying"}
VIEW View
INVARIANTS
  ActiveSessionIsDriven
  RestartWaitHasTimer
  BudgetRespected
PROPERTIES
  NoLaunchWhenClosing
  CancelledStaysDown
  QuietUntilAsked
  ImplementsRecovery
CHECK_DEADLOCK FALSE
