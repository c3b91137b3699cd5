SPECIFICATION FairSpec
CONSTANTS
    c1 = c1
    Cohorts = {c1}
    Strategy = "suspend"
    Faults = {"arena"}
    MaxLeases = 2
    MaxActors = 2
    MaxOwners = 2
    MaxCrashes = 1
    MaxRuns = 1
PROPERTIES OwnerAnswered ReadySettled ReleaseConfirmed ParkedResumes
\* a coordinator that is down, or out of budget, stops the system
CHECK_DEADLOCK FALSE
