SPECIFICATION SilenceSpec
CONSTANTS
    Session = {s1}
    None = None
    FrameLen = 1
    PingLen = 1
    SendBuf = 2
    PingInterval = 1
    PingEarly = 0
    PongTimeout = 3
    SendTimeout = 1
    MaxLag = 0
INVARIANT
    PongTimeoutEnforced
