SPECIFICATION Spec
CONSTANTS
    Root = "root"
    Schema <- MCSchema
    MayFill = TRUE
    MaxLevels = 3
    MaxDepth = 4
    Tokens = {}
INVARIANTS
    ErrorsSurface
    FramesClosed
    DefaultIsEmpty
    RoundTrip
    Reencodes
CHECK_DEADLOCK FALSE
