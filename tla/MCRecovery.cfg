SPECIFICATION Spec
CONSTANTS
    ReadText <- Parse
    WriteText <- Serialize
    WritePretty <- Pretty
    KeyOrder <- Keys
    Strtod <- NumberOf
    FormatG <- TokenOf
    Infinite <- Inf
    Hex <- HexOf
    Utf8 <- Decoded
    AsFloat <- FloatNear
    kInvalidFieldId = 4
    IndexBodies <- IndexBodySet
    Schemas <- SchemaSet
    DocBodies <- DocBodySet
    LibraryDocs <- LibraryDocSet
    Code <- Bytes
    FormatF <- Fixed
    Cuts = {0, 1, 4}
    MaxAppends = 2
INVARIANTS TypeOK SchemaReadBack RecoveredAsPosted
CHECK_DEADLOCK FALSE
