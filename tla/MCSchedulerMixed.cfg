SPECIFICATION Spec
CONSTANTS
    Definitions <- SkipAndConcurrent
    MaxTime = 2
    MaxId = 5
    MaxRejected = 1
    MaxSchedules = 2
    MaxRecords = 2
    MaxOutstanding = 2
    MaxRunning = 1
    Grace = 0
    MaxFaults = 1
CHECK_DEADLOCK FALSE
INVARIANTS
    TypeOK
    Capacity
    ExecutionsBounded
PROPERTIES
    StoppedStaysStopped
