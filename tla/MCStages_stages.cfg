SPECIFICATION FairSpec
CONSTANTS
    MaxAttempts = 2
    MaxWaves = 2
    MaxReviewers = 2
    Reports <- OwnRules
    CriticalRules = {}
    Modes = {"standard", "tdd"}
    Faults = {"precheck", "commit", "snapshot", "unexecuted", "purge", "budget"}
    MaxKills = 1
INVARIANTS TypeOK AcceptedIsProven ImplementsAfterRed TornIsNeverJudged
PROPERTIES AcceptedWasReviewed ImplementsAttempts NoBlockingFindingAccepted AttemptsEnd
