SPECIFICATION Spec
CONSTANTS
    Nodes = {n1, n2}
    n1 = n1
    n2 = n2
    Definitions <- OnePlain
    Schedules <- NoConfig
    MaxTime = 1
    MaxId = 3
    MaxRejected = 1
    MaxSchedules = 1
    MaxRecords = 1
    MaxOutstanding = 1
    MaxRunning = 1
    Grace = 0
    MaxTerm = 1
    MaxFaults = 0
    FaultKinds = {}
    Commands = {"create", "cancel", "acknowledge", "disable", "delete"}
    GrantExpires = TRUE
    EndStatuses = {"completed", "failed", "timed_out"}
SYMMETRY Symmetric
CHECK_DEADLOCK FALSE
INVARIANTS
    ExecutionHeld
    OutcomeTrue
PROPERTIES
    ImplementsLedger
