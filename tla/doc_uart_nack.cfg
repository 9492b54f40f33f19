CONSTANTS
    MAX_TIMEOUTS = 5
    HostMayStop = FALSE
    MaxCommands = 2
    MaxMessages = 1
    MaxFaults = 1
SPECIFICATION Spec
PROPERTIES
    RetransmitsInFull
CHECK_DEADLOCK FALSE
