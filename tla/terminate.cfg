SPECIFICATION Spec
CONSTANTS
    c1 = c1
    Cohorts = {c1}
    Strategy = "terminate"
    Faults = {"health", "timeout", "spawn", "host"}
    MaxLeases = 1
    MaxActors = 2
    MaxOwners = 1
    MaxCrashes = 1
    MaxRuns = 1
INVARIANTS TypeOK
PROPERTIES LedgerView
\* a coordinator that is down, or out of budget, stops the system
CHECK_DEADLOCK FALSE
