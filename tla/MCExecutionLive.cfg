SPECIFICATION FairSpec
CONSTANTS
    Nodes = {n1}
    n1 = n1
    Definitions <- OnePlain
    Schedules <- ConfigPlain
    MaxTime = 1
    MaxId = 3
    MaxRejected = 1
    MaxSchedules = 1
    MaxRecords = 1
    MaxOutstanding = 1
    MaxRunning = 1
    Grace = 0
    MaxTerm = 1
    MaxFaults = 1
    FaultKinds = {"timeout"}
    Commands = {"cancel"}
    GrantExpires = FALSE
    EndStatuses = {"completed", "failed", "timed_out"}
CHECK_DEADLOCK FALSE
PROPERTIES
    ReceiptsSettle
