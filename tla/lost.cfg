SPECIFICATION Spec
CONSTANTS
    c1 = c1
    Cohorts = {c1}
    Strategy = "suspend"
    Faults = {"arena", "vanish", "stale"}
    MaxLeases = 1
    MaxActors = 1
    MaxOwners = 2
    MaxCrashes = 0
    MaxRuns = 1
INVARIANTS LeaseHeld LedgerSound
PROPERTIES ResumeAfterOwner
\* a coordinator that is down, or out of budget, stops the system
CHECK_DEADLOCK FALSE
