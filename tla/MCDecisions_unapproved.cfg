SPECIFICATION DecisionsSpec
CONSTANTS
    Text <- MCText
    Hash <- MCHash
    Programs <- MCPrograms
    NoHash = "none"
    CandidateAfter = 2
    KRules = {"r1", "r2"}
    KTasks = {"t1", "t2"}
    Overlapping = FALSE
    MaxKRuns = 3
    MaxCards = 3
    MaxKFindings = 2
INVARIANT AcceptanceIsObserved
CHECK_DEADLOCK FALSE
