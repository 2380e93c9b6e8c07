CONSTANTS
    SizeMod = 16
    StdinLen = 5
    PeerLen = 2
    BufferSize = 3
    MaxCopyLength = 2
    PipeSize = 1
    MaxFaults = 1
SPECIFICATION FairSpec
INVARIANTS
    NoneLostOrReordered
    ExitMeansDone
PROPERTIES
    HalfCloses
    Completes
\* the program ends when it has copied everything
CHECK_DEADLOCK FALSE
