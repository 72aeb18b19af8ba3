CONSTANTS
    Runners = {r1, r2}
    NoRunner = NoRunner
    Versions = {1, 2}
    Editions = {a, b}
    NoTransaction = {2}
    MaxRuns = 3
SPECIFICATION Spec
INVARIANTS
    RecordIsTrue
    SuccessMeansInSync
PROPERTIES
    ForwardOnly
CHECK_DEADLOCK FALSE
SYMMETRY Symmetry
