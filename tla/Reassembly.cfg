CONSTANTS
    SizeMod = 64
    StreamLen = 6
    Capacity = 4
    InWindow = TRUE
    BareFinAhead = FALSE
SPECIFICATION Spec
INVARIANTS OutputInOrder ListWellFormed WithinCapacity NeverThrows
PROPERTY KeepsPromise
