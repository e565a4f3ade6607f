SPECIFICATION Spec
CONSTANTS
    Ids = {1, 20}
    BadId = 99
    IdLen <- MCIdLen
    LAZY_SEQ_DEPTH = 2
    StrictUtf8 = TRUE
    HasSink = TRUE
    Installs <- StreamInstalls
    BodyLens <- MCBodyLens
    MaxCalls = 3
    MaxNest = 3
INVARIANTS
    Inductive
    ReservationIntact
    BytesContiguous
PROPERTIES
    ImplementsWriter
    FullAsInstalled
    CallsReturn
CHECK_DEADLOCK FALSE
