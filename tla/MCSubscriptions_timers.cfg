SPECIFICATION FairSpec
CONSTANTS
    Requests <- MCTimed
    EventNames <- MCEventNames
    Variants = {"channels"}
    MaxSubs = 3
    MaxUnsubs = 0
    MaxEvents = 2
    MaxSessions = 2
    FreshFlags = {FALSE, TRUE}
    SharesTimers = FALSE
    Report = FALSE
INVARIANTS
    Delivered
    TimersOwned
PROPERTIES
    TakesEffect
CHECK_DEADLOCK FALSE
