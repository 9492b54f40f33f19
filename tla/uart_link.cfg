CONSTANTS
    MAX_TIMEOUTS = 1
    HostMayStop = TRUE
    MaxCommands = 2
    MaxMessages = 2
    MaxFaults = 2
SPECIFICATION FairSpec
INVARIANTS
    
    KeptInOrder
PROPERTIES
    NackRepairs
    BothRecover
CHECK_DEADLOCK FALSE
