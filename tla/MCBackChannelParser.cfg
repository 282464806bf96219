SPECIFICATION Spec
CONSTANTS
    BUF_SIZE = 16
    Frames <- MCFrames
    MaxLost = 9
    MaxFaults = 2
INVARIANTS
    TypeOK
    InStep
PROPERTY
    Resync
