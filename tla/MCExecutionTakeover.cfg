SPECIFICATION Spec
CONSTANTS
    Nodes = {n1, n2}
    n1 = n1
    n2 = n2
    Definitions <- OnePlain
    Schedules <- ConfigPlain
    MaxTime = 1
    MaxId = 3
    MaxRejected = 1
    MaxSchedules = 1
    MaxRecords = 1
    MaxOutstanding = 1
    MaxRunning = 1
    Grace = 0
    MaxTerm = 3
    MaxFaults = 2
    FaultKinds = {"election", "timeout"}
    Commands = {}
    GrantExpires = FALSE
    EndStatuses = {"completed", "failed", "timed_out"}
SYMMETRY Symmetric
CHECK_DEADLOCK FALSE
INVARIANTS
    ExecutionHeld
    OwnerViewCurrent
