SPECIFICATION CppSpec
CONSTANTS
    Ids = {20}
    BadId = 99
    IdLen <- MCIdLen
    LAZY_SEQ_DEPTH = 2
    StrictUtf8 = TRUE
    HasSink = FALSE
    Installs <- MCInstalls
    BodyLens = {0}
    Values <- MCValues
    MaxCalls = 5
    MaxNest = 3
PROPERTIES
    ClosesItsOwn
CHECK_DEADLOCK FALSE
