SPECIFICATION FairSpec
CONSTANTS
    StreamCap = 2
    BatchMax = 2
    ChunkMax = 2
    MaxUnits = 2
    MaxSession = 2
    MaxFaults = 2
INVARIANTS
    TypeOK
    NothingSkipped
    DrainCanTake
PROPERTIES
    Delivered
    SendBytesReturns
    ImplementsPipe
