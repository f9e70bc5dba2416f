SPECIFICATION Spec
CONSTANTS
    MaxLines = 3
    Unknown = {2}
    Data = {1, 3, 4}
    DataLen = 3
    Starts <- AnA
    Enters <- AnEnter
    Setups <- Misled
PROPERTY LockProtectsLogBuf
