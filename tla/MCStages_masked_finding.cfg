SPECIFICATION FairSpec
CONSTANTS
    MaxAttempts = 1
    MaxWaves = 1
    MaxReviewers = 2
    Reports <- SharedRule
    CriticalRules = {}
    Modes = {"standard"}
    Faults = {}
    MaxKills = 0
PROPERTY NoBlockingFindingAccepted
