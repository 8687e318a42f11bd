SPECIFICATION Spec
CONSTANTS
    Codes = {x}
    AlarmLimit = 2
    Signatures = {"s1", "s2"}
    x = x
INVARIANTS
    IncidentsOnDiskAreOpen
    StateChangesReachDisk
PROPERTIES
    HistoryComesBack
