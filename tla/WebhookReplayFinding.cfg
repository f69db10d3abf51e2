SPECIFICATION Spec
CONSTANTS
    d1 = d1
    d2 = d2
    d3 = d3
    j1 = j1
    j2 = j2
    Delivery = {d1, d2, d3}
    Job = {j1, j2}
    JobOf <- MCJobOf
    Request = {r1, r2}
    None = None
    MaxAttempts = 2
    InitialDelay = 1
    MaxDelay = 2
    Batch = 2
    MaxCrashes = 1
    MaxReplays = 2
CHECK_DEADLOCK FALSE
PROPERTIES
    LegalTransitions
