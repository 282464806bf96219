SPECIFICATION Spec
CONSTANTS
    Session = {s1}
    None = None
    FrameLen = 2
    PingLen = 1
    SendBuf = 1
    PingInterval = 2
    PingEarly = 1
    PongTimeout = 3
    SendTimeout = 1
    MaxLag = 1
INVARIANT
    NeverPanics
