SPECIFICATION Spec
CONSTANTS
    Shared = {"b1", "b2"}
    Cap = 2
    MaxBytes = 5
INVARIANTS
    LastUnitExists
CHECK_DEADLOCK FALSE
