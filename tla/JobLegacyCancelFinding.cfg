SPECIFICATION Spec
CONSTANTS
    Attempt = {a1}
    Shared = Shared
    None = None
    NumParts = 2
    TTL = 2
    Grace = 1
    JournalEnabled = FALSE
CHECK_DEADLOCK FALSE
PROPERTIES
    CancelStopsPublication
