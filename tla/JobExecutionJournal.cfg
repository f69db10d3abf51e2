SPECIFICATION Spec
CONSTANTS
    Attempt = {a1, a2}
    Shared = Shared
    None = None
    NumParts = 2
    TTL = 2
    Grace = 1
    JournalEnabled = TRUE
SYMMETRY AttemptSymmetry
CHECK_DEADLOCK FALSE
INVARIANTS
    TypeOK
    OrphansJournalled
    PublishedBacked
    AllOrNothing
    SingleExecutor
PROPERTIES
    LeaseNeverRevives
    RecoveryIsFinal
    CancelStopsPublication
    NoFailureAfterPublish
    ImplementsLifecycle
