SPECIFICATION Spec
CONSTANTS
    c1 = c1
    Cohorts = {c1}
    Strategy = "suspend"
    Faults = {"arenaKids"}
    MaxLeases = 1
    MaxActors = 1
    MaxOwners = 1
    MaxCrashes = 1
    MaxRuns = 1
PROPERTIES ReleaseAfterGroup
\* a coordinator that is down, or out of budget, stops the system
CHECK_DEADLOCK FALSE
