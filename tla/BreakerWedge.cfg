CONSTANTS
    Requests = {r1, r2, r3}
    FailureThreshold = 2
    Conditions = {"up", "down", "erroring"}
    MaxOpens = 3
    MaxChanges = 4
SPECIFICATION FairSpec
PROPERTIES
    ProbeDecides
