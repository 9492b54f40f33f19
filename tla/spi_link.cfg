CONSTANTS
    SPI_RX_FIFO_SIZE = 2
    SPI_RX_FIFO_RESV = 1
    Kinds = {"get", "set"}
    MayFail = TRUE
    MaxInd = 3
    MaxSends = 2
    MaxFlash = 1
SPECIFICATION FairSpec
INVARIANTS
    CallbackBufferStable
    IndicationsInOrder
    AnswerIsOurs
PROPERTIES
    ReserveSuffices
    EveryIndicationHandled
