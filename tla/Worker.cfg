CONSTANTS
    Tasks = {j1, j2, j3}
    Concurrency = 2
    Batch = 2
    MaxSteps = 2
    MaxDemands = 3
SPECIFICATION FairSpec
INVARIANTS
    SlotsConserved
    AwaitsEveryTask
    OrderlyShutdownKeepsCheckpoints
PROPERTIES
    KeepsClaiming
    RequestsSuffice
CHECK_DEADLOCK FALSE
