CONSTANTS
    d1 = d1  d2 = d2  t1 = t1  t2 = t2  w1 = w1  w2 = w2
    None = None
    Dev <- OneDev
    Thread <- TwoThreads
    Worker = {}
    Caller <- TwoThreads
    Controller <- OneThread
    ControlOps = {"open", "close", "poll", "start"}
    Acked = {}
    Unreliable <- OneDev
    CreateMayFail = TRUE
    MaxCalls = 1
    MaxInd = 2
    MaxOpens = 2
    MaxControls = 4
    MaxErrors = 1
SPECIFICATION FairSpec
INVARIANTS
    AnswerMatchesCommand
    IndicationsInOrder
PROPERTIES
    SyncCallReturns
