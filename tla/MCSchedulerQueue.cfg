SPECIFICATION Spec
CONSTANTS
    Definitions <- OneQueue
    MaxTime = 3
    MaxId = 5
    MaxRejected = 1
    MaxSchedules = 1
    MaxRecords = 2
    MaxOutstanding = 2
    MaxRunning = 2
    Grace = 0
    MaxFaults = 2
CHECK_DEADLOCK FALSE
INVARIANTS
    Capacity
    NoOverlap
    NeverHandedTwice
    QueueOrder
    SlotOnce
PROPERTIES
    UncertainNeverRetried
    ReceiptsKept
