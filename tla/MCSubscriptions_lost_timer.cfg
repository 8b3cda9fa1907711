SPECIFICATION Spec
CONSTANTS
    Requests <- MCSameTimer
    EventNames <- MCEventNames
    Variants = {"channels"}
    MaxSubs = 2
    MaxUnsubs = 0
    MaxEvents = 1
    MaxSessions = 2
    FreshFlags = {FALSE}
    SharesTimers = TRUE
    Report = FALSE
INVARIANTS
    NoAbort
CHECK_DEADLOCK FALSE
