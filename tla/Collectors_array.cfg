SPECIFICATION Spec
CONSTANTS
    Setups <- MCSetups
    Ids = {0, 1, 2}
    Sizes = {0, 1, 2}
    Widths = {2}
    Values = {1, 2}
    MaxOpen = 3
    MaxLen = 2
INVARIANTS
    SizedWithinBounds
PROPERTIES
    
    TargetsStayPut
