CONSTANTS
    k1 = k1  k2 = k2  v1 = v1  v2 = v2  Lost = Lost
    Key <- Keys
    Val <- TwoVals
    Length <- Twelve
    SetKeys <- OneKey
    AddKeys <- Second
    SettingsSize = 84
    CopyBufferSize = 256
    WipeBoth = FALSE
    MaxOps = 5
    MaxCrashes = 2
    Vectors <- Words
    End = 48
SPECIFICATION Spec
INVARIANTS
    
    NeverOverflows
    AlwaysRecoverable
PROPERTIES
    SwapKeepsValues
    
    
CHECK_DEADLOCK FALSE
