SPECIFICATION FairSpec
CONSTANTS
    r1 = r1
    r2 = r2
    w1 = w1
    None = None
    Runs <- MCRuns
    Writers <- MCWriters
    Effects <- MCEffects
    Scenarios <- MCQueued
CHECK_DEADLOCK FALSE
PROPERTIES
    RunsBounded
