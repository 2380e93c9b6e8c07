CONSTANTS
    SizeMod = 64
    SeqnoMod = 8
    AbsMod = 64
    MAX_PAYLOAD_SIZE = 2
    Isn = 6
    MaxBytes = 8
    SendCapacity = 3
    MaxWindow = 3
    RtTimeout = 1
    MaxTick = 2
    MAX_RETX_ATTEMPTS = 2
SPECIFICATION Spec
INVARIANTS InFlightAccounting TimerRuns Backoff StreamInSegments NothingStuck
PROPERTY WindowRespected
