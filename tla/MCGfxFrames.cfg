SPECIFICATION Spec
CONSTANTS
    Capacity = 40
    WifiBound = 80
    Bitmaps <- MCBitmaps
    MaxSession = 3
INVARIANTS
    TypeOK
    BufferFits
    SessionFramed
