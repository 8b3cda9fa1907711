SPECIFICATION Spec
CONSTANTS
    Bytes <- MCBytes
    Texts <- MCTexts
    Indexes <- MCIndexes
    MaxLen = 3
    MaxPrealloc = 3
    PrintBuffer = 2
    AllocFails = TRUE
INVARIANTS
    HeaderOK
    SplitJoins
    ReprReads
PROPERTIES
    BytesSpec
CHECK_DEADLOCK FALSE
