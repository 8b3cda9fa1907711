\* connect() right after disconnect().
SPECIFICATION Spec
CONSTANTS
    MaxConnects = 2
    MaxCalls = 2
    MaxMessages = 1
    Kinds = {"plain", "subscribe"}
    Listeners = {"connect", "error", "disconnect"}
    Failures = {}
    AppMoves = {"early_connect"}
INVARIANTS
    ConnectedMeansOpen
CHECK_DEADLOCK FALSE
