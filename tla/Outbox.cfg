CONSTANTS
    NumEvents = 3
    Drainers = {d1, d2}
    Embedded = {d1}
    BatchSize = 2
    MaxFaults = 2
SPECIFICATION FairSpec
INVARIANTS
    IInv
    PublishedWasSent
    DuplicatesNeedFaults
    AttemptsAreCounted
PROPERTIES
    EveryEventPublished
    StopTakesEffect
