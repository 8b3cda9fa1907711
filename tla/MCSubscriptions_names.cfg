SPECIFICATION Spec
CONSTANTS
    Requests <- MCNamed
    EventNames <- MCEventNames
    Variants = {"channels", "patterns"}
    MaxSubs = 2
    MaxUnsubs = 1
    MaxEvents = 1
    MaxSessions = 1
    FreshFlags = {FALSE, TRUE}
    SharesTimers = FALSE
    Report = TRUE
INVARIANTS
    TypeOK
    NoAbort
    Delivered
    ReadyWhenConfirmed
    SearchFinds
CHECK_DEADLOCK FALSE
