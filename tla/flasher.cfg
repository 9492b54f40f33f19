CONSTANTS
    PageSize = 2
    ApromSize = 8
    LdromSize = 2
    AppStart = 2
    Sizes <- HalfPages
    kMaxRebootDiscoverAttempts = 2
    MaxRuns = 3
    MaxFaults = 2
SPECIFICATION Spec
INVARIANTS
    NeverBricked
    
PROPERTIES
    FlashingEnds
    RetrySucceeds
CHECK_DEADLOCK FALSE
