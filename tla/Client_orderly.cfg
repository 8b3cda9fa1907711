\* An application that waits for the "connect" and "disconnect" events and a
\* server that stays up.  The session may end at any time: no deadlock check.
SPECIFICATION FairSpec
CONSTANTS
    MaxConnects = 2
    MaxCalls = 3
    MaxMessages = 1
    Kinds = {"plain", "subscribe", "unsubscribe"}
    Listeners = {"connect", "error", "disconnect"}
    Failures = {}
    AppMoves = {}
INVARIANTS
    TypeOK
    NoFault
    OwnReply
    Aligned
    ConnectedMeansOpen
    NoLeak
    EventOnce
PROPERTIES
    CleanSlate
    DisconnectCompletes
    Answered
CHECK_DEADLOCK FALSE
