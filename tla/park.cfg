SPECIFICATION Spec
SYMMETRY CohortSymmetry
CONSTANTS
    c1 = c1
    c2 = c2
    Cohorts = {c1, c2}
    Strategy = "suspend"
    Faults = {"drain", "stop", "cohort", "control", "exhaust", "actorKids", "arenaKids"}
    MaxLeases = 2
    MaxActors = 1
    MaxOwners = 1
    MaxCrashes = 0
    MaxRuns = 1
INVARIANTS GpuExclusive
PROPERTIES ReadyIsProven
\* a coordinator that is down, or out of budget, stops the system
CHECK_DEADLOCK FALSE
