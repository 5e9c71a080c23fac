SPECIFICATION Spec
CONSTANTS
    Nodes = {n1, n2}
    n1 = n1
    n2 = n2
    Definitions <- OneRetrying
    Schedules <- ConfigRetrying
    MaxTime = 1
    MaxId = 3
    MaxRejected = 1
    MaxSchedules = 1
    MaxRecords = 1
    MaxOutstanding = 1
    MaxRunning = 1
    Grace = 0
    MaxTerm = 2
    MaxFaults = 1
    FaultKinds = {"timeout", "runner", "worker", "shutdown", "flush", "loss"}
    Commands = {"cancel"}
    GrantExpires = FALSE
    EndStatuses = {"completed", "failed", "timed_out"}
SYMMETRY Symmetric
CHECK_DEADLOCK FALSE
INVARIANTS
    TypeOK
    ExecutionHeld
    NoOverlap
    OutcomeTrue
PROPERTIES
    ImplementsLedger
