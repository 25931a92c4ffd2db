CONSTANTS
    MAX_DATA_SIZE <- MC_MAX_DATA_SIZE
    MaxIncoming <- MC_MaxIncoming
    Lengths <- MC_Lengths
    SndBuf <- MC_SndBuf
    MaxReads <- MC_MaxReads
SPECIFICATION Spec
INVARIANT ReadAppendsReceived
