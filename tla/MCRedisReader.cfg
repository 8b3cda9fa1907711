SPECIFICATION Spec
CONSTANTS
    Handles = {"stream", "sub_stream"}
    Replies <- MCReplies
    Encode <- MCEncode
    Depth = 2
    Discard = 7
    IntHalf = 8
    LongHalf = 32
    MaxReplies = 2
    Mixes = FALSE
    AllocFails = TRUE
INVARIANTS
    TypeOK
    StackOK
    RepliesWhole
    Faithful
    ReadsAll
    FormatExact
CHECK_DEADLOCK FALSE
