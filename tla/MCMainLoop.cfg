SPECIFICATION FairSpec
CONSTANTS
    Blink = {"wifi", "ble"}
    Overlap = FALSE
    Early = {"wifi"}
    Keys = {k1}
    NoKey = NoKey
    MaxSession = 3
INVARIANTS
    TypeOK
    ValuesOnLabels
    FramesFlushed
PROPERTIES
    PhoneShown
    StaleOnlyOnTakeover
