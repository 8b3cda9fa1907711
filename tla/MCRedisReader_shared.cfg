SPECIFICATION Spec
CONSTANTS
    Handles = {"stream", "sub_stream"}
    Replies <- MCFewReplies
    Encode <- MCEncode
    Depth = 2
    Discard = 7
    IntHalf = 8
    LongHalf = 32
    MaxReplies = 2
    Mixes = TRUE
    AllocFails = FALSE
INVARIANT
    Faithful
CHECK_DEADLOCK FALSE
