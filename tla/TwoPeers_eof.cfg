CONSTANTS
    SizeMod = 64
    SeqnoMod = 16
    AbsMod = 64
    MAX_PAYLOAD_SIZE = 1
    MAX_RETX_ATTEMPTS = 1
    MaxWin = 7
    LingerTimeouts = 2
    BytesA = 1
    BytesB = 0
    RecvCapacity = 2
    SendCapacity = 1
    RtTimeout = 1
    IsnA = 3
    IsnB = 14
    MaxFaults = 1
    NetCap = 2
    FinWaits = FALSE
    Patient = TRUE
    Abortable = {}
SPECIFICATION Spec
INVARIANT Integrity
CHECK_DEADLOCK FALSE
