SPECIFICATION Spec
CONSTANTS
  Codes = {"srt_rtt"}
  MaxRun = 1
  MaxLink = 1
  MaxCount = 0
  Delays = {2}
PROPERTIES
  RecoveryIsMeasured
CHECK_DEADLOCK FALSE
