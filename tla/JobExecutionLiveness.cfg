SPECIFICATION FairSpec
CONSTANTS
    Attempt = {a1, a2}
    Shared = Shared
    None = None
    NumParts = 1
    TTL = 1
    Grace = 1
    JournalEnabled = TRUE
CHECK_DEADLOCK FALSE
PROPERTIES
    StuckBecomesRecoverable
