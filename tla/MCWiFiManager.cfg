SPECIFICATION Spec
CONSTANTS
    Session = {s1, s2}
    None = None
    FrameLen = 2
    PingLen = 2
    SendBuf = 2
    PingInterval = 2
    PingEarly = 1
    PongTimeout = 3
    SendTimeout = 0
    MaxLag = 0
SYMMETRY SessionSymmetry
INVARIANTS
    TypeOK
    FramesIntact
    StreamInv
    MutexHolder
    NoOrphanSession
PROPERTIES
    ImplementsLink
