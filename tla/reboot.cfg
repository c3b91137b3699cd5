SPECIFICATION FairSpec
CONSTANTS
    c1 = c1
    Cohorts = {c1}
    Strategy = "suspend"
    Faults = {"host"}
    MaxLeases = 1
    MaxActors = 2
    MaxOwners = 2
    MaxCrashes = 1
    MaxRuns = 2
PROPERTIES ReadySettled
\* a coordinator that is down, or out of budget, stops the system
CHECK_DEADLOCK FALSE
