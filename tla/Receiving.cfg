CONSTANTS
    SizeMod = 128
    SeqnoMod = 16
    AbsMod = 64
    StreamLen = 19
    MaxSegLen = 2
    Capacity = 4
    PeerIsn = 5
    MaxAge = 6
SPECIFICATION FairSpec
INVARIANTS OutputInOrder AckIsFirstMissing UnwrapIsClosest
PROPERTIES RightEdgeNeverShrinks Delivered
