SPECIFICATION PromotionSpec
CONSTANTS
    MaxModels = 2
    Required = 1
    MaxStages = 1
    FinishInflight = TRUE
    MaxKills = 1
INVARIANT WonIsChampion
