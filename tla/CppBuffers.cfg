SPECIFICATION Spec
CONSTANTS
    Shared = {"b1", "b2"}
    Cap = 2
    MaxBytes = 5
INVARIANTS
    UnitsExist
    DataIsWhatWasWritten
PROPERTIES
    EveryByteOnce
CHECK_DEADLOCK FALSE
