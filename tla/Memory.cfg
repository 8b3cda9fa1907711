\* Every failure and every application move but early_connect, with MONITOR;
\* a read may come back empty.  The session may end at any time.
SPECIFICATION MemorySpec
CONSTANTS
    MaxConnects = 2
    MaxCalls = 2
    MaxMessages = 0
    Kinds = {"plain", "monitor"}
    Listeners = {"error"}
    Failures = {"refuse", "eof"}
    AppMoves = {"retry_connect", "early_disconnect",
                "offline_command", "act_on_error", "exit"}
    MaxEmptyReads = 1
INVARIANTS
    AtMostOnce
    InOrder
    RequestsLent
    BuffersBounded
CHECK_DEADLOCK FALSE
