CONSTANTS
    d1 = d1  d2 = d2  t1 = t1  t2 = t2  w1 = w1  w2 = w2
    None = None
    Dev <- TwoDevs
    Thread <- OneThread
    Worker <- OneWorker
    Caller <- OneWorker
    Controller <- OneThread
    ControlOps = {"open", "close", "start", "stop", "poll"}
    Acked <- OneDev
    Unreliable = {}
    CreateMayFail = FALSE
    MaxCalls = 2
    MaxInd = 1
    MaxOpens = 1
    MaxControls = 6
    MaxErrors = 0
SPECIFICATION FairSpec
INVARIANTS
    SyncIsBarrier
    CommandsInOrder
    AtMostOneDispatcher
    StoppedMeansSilent
    NoIndicationLost
PROPERTIES
    ControlReturns
