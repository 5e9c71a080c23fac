SPECIFICATION FairSpec
CONSTANTS
    Definitions <- PromptQueue
    MaxTime = 2
    MaxId = 5
    MaxRejected = 1
    MaxSchedules = 1
    MaxRecords = 2
    MaxOutstanding = 2
    MaxRunning = 1
    Grace = 0
    MaxFaults = 1
CHECK_DEADLOCK FALSE
PROPERTIES
    EveryReceiptSettles
    DueSlotsDecided
    ImplementsLedger
