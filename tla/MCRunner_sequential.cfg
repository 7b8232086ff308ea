CONSTANTS
  Tasks = {"a", "b"}
  DependsOn <- Chain
  Rank <- ByName
  Overlap <- NoOverlap
  RequiresHandoff = {"a", "b"}
  MaxAttempts = 2
  MaxParallel = 1
  MaxRepairs = 1
  MaxCalls = 4
  PrecheckResults = {"ok", "blocked", "error", "replan"}
  AgentMay = {"good", "bad", "out", "nothing", "fail", "no_handoff", "touch"}
  Faults = {"kill", "purge", "raise", "commit", "advance"}
  MaxFaults = 2
  MaxResumes = 2
SPECIFICATION FairSpec
INVARIANTS TypeOK OnlyProvenWorkIntegrated BudgetIsHard NothingReadyLeft
