CONSTANTS
    N = 3
    Compensable = {1, 3}
    Workers = {w1, w2}
    Importers = {w1}
    MaxAttempts = 2
    CompMaxAttempts = 2
    MaxClaims = 6
    MaxDisruptions = 2
    None = None
SPECIFICATION Spec
INVARIANTS
    IInv
    OwnerSeesCheckpoints
    ForwardPrefix
    UnwindOrder
    NoUndoWhileForward
    OutcomeIsTrue
    LedgerOneStepAhead
    EventsMatchCheckpoints
PROPERTIES
    TerminalIsFinal
