SPECIFICATION Spec
CONSTANTS
  Codes = {"srt_rtt", "srt_drops"}
  MaxRun = 2
  MaxLink = 2
  MaxCount = 1
  Delays = {2}
INVARIANTS
  AlarmsAreOfThisRun
PROPERTIES
  RaisedAfterHolding
  CountersSpeakOfChanges
  RecoveryIsMeasuredWhileEncoding
CHECK_DEADLOCK FALSE
