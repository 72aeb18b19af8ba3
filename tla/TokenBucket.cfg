CONSTANTS
    Callers = {c1, c2}
    Capacity = 3
    Cost = 3
    Second = 2
    MaxSkew = 1
    MaxLatency = 1
    MaxTime = 8
    MaxRuns = 4
    MaxIssued = 6
SPECIFICATION Spec
INVARIANTS
    AdmissionBounded
    ExpiryUnobservable
    RetryAfterSuffices
CHECK_DEADLOCK FALSE
