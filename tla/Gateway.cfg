SPECIFICATION Spec
CONSTANTS
    MaxRuns = 2
    MaxPackets = 2
    MaxBytes = 2
    VideoSize = 2
    AudioSize = 1
    MaxSessions = 2
INVARIANTS
    BytesAccounted
    RunsDoNotOverlap
PROPERTIES
    SenderStops
    RelayEnds
    SilentSessionEnds
