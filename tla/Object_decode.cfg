SPECIFICATION DecodeSpec
CONSTANTS
    Root = "root"
    Schema <- MCSchema
    MaxLevels = 3
    MaxDepth = 3
    Tokens <- MCTokens
INVARIANTS
    DecodeInductive
PROPERTIES
    ImplementsValue
CHECK_DEADLOCK FALSE
