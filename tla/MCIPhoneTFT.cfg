SPECIFICATION Spec
CONSTANTS
    Attrs <- MCAttrs
    Cursor = "cursor"
    Values <- MCValues
    Sent <- MCSent
INVARIANTS
    CacheCoherent
    TextRight
