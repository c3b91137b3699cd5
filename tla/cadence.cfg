SPECIFICATION LearnSpec
CONSTANTS
    Batch = 1
    Up = 3
    Down = 2
    CandidateInterval = 2
    SelfplayInterval = 3
    RecoveryInterval = 2
    MaxReplay = 3
    MaxPlateaus = 0
    None = None
INVARIANT RestartAccepted
\* a learner that is refused stops
CHECK_DEADLOCK FALSE
