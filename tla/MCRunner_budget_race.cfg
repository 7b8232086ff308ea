CONSTANTS
  Tasks = {"a", "b"}
  DependsOn <- Independent
  Rank <- ByName
  Overlap <- NoOverlap
  RequiresHandoff = {}
  MaxAttempts = 1
  MaxParallel = 2
  MaxRepairs = 0
  MaxCalls = 1
  PrecheckResults = {"ok"}
  AgentMay = {"good"}
  Faults = {}
  MaxFaults = 0
  MaxResumes = 0
SPECIFICATION FairSpec
INVARIANT BudgetIsHard
