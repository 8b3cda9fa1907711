\* A connection may be refused or closed by the server; the application sends
\* plain commands and keeps quiet once it was told of an error.
SPECIFICATION FairSpec
CONSTANTS
    MaxConnects = 2
    MaxCalls = 3
    MaxMessages = 0
    Kinds = {"plain"}
    Listeners = {"connect", "error", "disconnect"}
    Failures = {"refuse", "eof"}
    AppMoves = {}
INVARIANTS
    NoFault
    ReadArmed
PROPERTIES
    ConnectReports
CHECK_DEADLOCK FALSE
