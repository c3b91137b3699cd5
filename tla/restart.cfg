SPECIFICATION Spec
CONSTANTS
    c1 = c1
    Cohorts = {c1}
    Strategy = "suspend"
    Faults = {"host", "stop", "arena"}
    MaxLeases = 2
    MaxActors = 2
    MaxOwners = 2
    MaxCrashes = 1
    MaxRuns = 2
INVARIANTS JournalOnce
PROPERTIES EventBeforeAck ReleaseAckHeld
\* a coordinator that is down, or out of budget, stops the system
CHECK_DEADLOCK FALSE
