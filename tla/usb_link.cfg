CONSTANTS
    Commands <- LongShortLong
    Messages <- LongAndLonger
    TBUFFS = 2
    RBUFFS = 2
    HidBuffers = 3
    MaxPauses = 2
    MaxFails = 1
    MaxUnplugs = 1
SPECIFICATION Spec
INVARIANTS
    CommandsWhole
    MessagesWhole

    
