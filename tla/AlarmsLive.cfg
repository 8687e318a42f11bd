SPECIFICATION Spec
CONSTANTS
  Codes = {"video_stalled", "udp_errors"}
  MaxRun = 1
  MaxLink = 1
  MaxCount = 1
  Delays = {2}
PROPERTIES
  AlarmsFollow
CHECK_DEADLOCK FALSE
