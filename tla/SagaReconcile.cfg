CONSTANTS
    N = 2
    Compensable = {1, 2}
    Workers = {w1, w2}
    Importers = {w1}
    MaxAttempts = 2
    CompMaxAttempts = 2
    MaxClaims = 5
    MaxDisruptions = 1
    None = None
SPECIFICATION Spec
INVARIANTS
    Reconciled
