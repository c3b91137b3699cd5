SPECIFICATION Spec
CONSTANTS
    c1 = c1
    Cohorts = {c1}
    Strategy = "suspend"
    Faults = {"stale"}
    MaxLeases = 1
    MaxActors = 1
    MaxOwners = 1
    MaxCrashes = 0
    MaxRuns = 1
PROPERTIES RejectionIsFinal
\* a coordinator that is down, or out of budget, stops the system
CHECK_DEADLOCK FALSE
