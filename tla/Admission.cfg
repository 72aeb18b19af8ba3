CONSTANTS
    High = {h1, h2, h3}
    Low = {l1, l2, l3, l4, l5, l6}
    InitialLimit = 5
    MinLimit = 1
    MaxLimit = 12
SPECIFICATION Spec
INVARIANTS
    PermitsConserved
    CapacityBounded
    NoLostWakeup
    LimitFloor
