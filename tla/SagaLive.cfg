CONSTANTS
    N = 3
    Compensable = {1, 3}
    Workers = {w1, w2}
    Importers = {w1}
    MaxAttempts = 2
    CompMaxAttempts = 2
    MaxClaims = 5
    MaxDisruptions = 1
    None = None
SPECIFICATION FairSpec
PROPERTIES
    ImplementsLifecycle
    EventuallyTerminal
