CONSTANTS
    Req <- Requests
    CacheSize = 2
    Timeout = 1
    WaitFor = {"confirm"}
    MaxRounds = 1
    MaxFaults = 1
    MaxOps = 1
SPECIFICATION Spec
INVARIANTS
    NoRequestForgotten
    ConfirmedOnce
    ReceiverRestored
    CallbacksRestored
PROPERTIES
    EveryRequestAnswered
