CONSTANTS
    SizeMod = 64
    SeqnoMod = 16
    AbsMod = 64
    MAX_PAYLOAD_SIZE = 2
    MAX_RETX_ATTEMPTS = 1
    MaxWin = 7
    LingerTimeouts = 2
    BytesA = 0
    BytesB = 2
    RecvCapacity = 2
    SendCapacity = 2
    RtTimeout = 1
    IsnA = 3
    IsnB = 14
    MaxFaults = 1
    NetCap = 2
    FinWaits = TRUE
    Patient = TRUE
    Abortable = {"a"}
    PipeSize = 1
SPECIFICATION SocketFairSpec
INVARIANTS
    EofMeansAll
    Survives
PROPERTIES
    Implements
    Joins
CHECK_DEADLOCK FALSE
