CONSTANTS
    SizeMod = 64
    SeqnoMod = 16
    AbsMod = 64
    MAX_PAYLOAD_SIZE = 1
    MAX_RETX_ATTEMPTS = 3
    MaxWin = 7
    LingerTimeouts = 10
    BytesA = 3
    BytesB = 0
    RecvCapacity = 2
    SendCapacity = 2
    RtTimeout = 1
    IsnA = 3
    IsnB = 14
    MaxFaults = 2
    NetCap = 2
    FinWaits = TRUE
    Patient = TRUE
    Abortable = {}
SPECIFICATION FairSpec
INVARIANTS Integrity AckAgreement
PROPERTY Closes
CHECK_DEADLOCK FALSE
