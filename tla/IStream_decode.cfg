SPECIFICATION Spec
CONSTANTS
    MaxDepth = 3
    MaxGroups = 2
    Fp32Len = 1
    Fp64Len = 2
    FixlenMax = 3
    ArrayMax = 3
    SizeMax = 3
    StrictUtf8 = TRUE
    SkipMax = 1
    StoreWidths = {1, 2}
    Reads <- MCReads
    Lengths = {0, 1, 2, 3, 4}
    Counts = {0, 1, 2, 3, 4}
    Needs = {1, 2}
INVARIANTS
    Inductive
    DepthAgrees
    NoOverrun
    NotifiedOnce
    PayloadFits
PROPERTIES
    ImplementsWireParser
    CondemnedIsFinal
    RefusalNeedsReader
