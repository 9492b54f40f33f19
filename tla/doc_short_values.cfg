CONSTANTS
    k1 = k1  k2 = k2  v1 = v1  v2 = v2  Lost = Lost
    Key <- Keys
    Val <- TwoVals
    Length <- Four
    SetKeys <- OneKey
    AddKeys <- Second
    SettingsSize = 52
    CopyBufferSize = 256
    WipeBoth = FALSE
    MaxOps = 5
    MaxCrashes = 0
    Vectors <- Words
    End = 48
SPECIFICATION Spec
PROPERTIES
    OtherKeysKept
CHECK_DEADLOCK FALSE
