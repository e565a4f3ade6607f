SPECIFICATION MCSpec
CONSTANTS
    GroupBits = 3
    ValueBits = 7
    Widths <- MCWidths
    Bytes <- MCBytes
    MaxLen = 4
INVARIANTS
    DecodesTheNumber
    OverflowIsExact
    RoundTrip
    ZigzagIsInverse
    FitsIsExact
    VerdictIsExact
    CutsBetweenCharacters
CHECK_DEADLOCK FALSE
