SPECIFICATION Spec
CONSTANTS
    Requests <- MCPrefixes
    EventNames <- MCEventNames
    Variants = {"channels"}
    MaxSubs = 2
    MaxUnsubs = 0
    MaxEvents = 1
    MaxSessions = 1
    FreshFlags = {FALSE}
    SharesTimers = FALSE
    Report = FALSE
INVARIANTS
    Delivered
CHECK_DEADLOCK FALSE
