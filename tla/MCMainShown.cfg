SPECIFICATION FairSpec
CONSTANTS
    Blink = {}
    Overlap = TRUE
    Early = {}
    Keys = {k1}
    NoKey = NoKey
    MaxSession = 2
PROPERTIES
    PhoneShown
