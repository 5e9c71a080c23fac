SPECIFICATION FairSpec
CONSTANTS
    r1 = r1
    r2 = r2
    w1 = w1
    None = None
    Runs <- MCRuns
    Writers <- MCWriters
    Effects <- MCEffects
    Scenarios <- MCScenarios
CHECK_DEADLOCK FALSE
INVARIANTS
    LogResolves
    CompletedIsRecorded
    StoppedIsFinal
    ShutdownReachesRuns
PROPERTIES
    RunsSettle
