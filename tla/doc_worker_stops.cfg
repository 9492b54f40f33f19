CONSTANTS
    d1 = d1  d2 = d2  t1 = t1  t2 = t2  w1 = w1  w2 = w2
    None = None
    Dev <- TwoDevs
    Thread <- OneThread
    Worker <- OneWorker
    Caller = {}
    Controller <- OneThread
    ControlOps = {"open", "close", "start", "stop", "poll"}
    Acked <- OneDev
    Unreliable = {}
    CreateMayFail = FALSE
    MaxCalls = 1
    MaxInd = 0
    MaxOpens = 1
    MaxControls = 4
    MaxErrors = 0
SPECIFICATION Spec
PROPERTIES
    WorkerStopsOnlyOnRequest
