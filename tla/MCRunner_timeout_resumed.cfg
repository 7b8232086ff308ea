CONSTANTS
  Tasks = {"a", "b"}
  DependsOn <- Chain
  Rank <- ByName
  Overlap <- NoOverlap
  RequiresHandoff = {}
  MaxAttempts = 2
  MaxParallel = 1
  MaxRepairs = 0
  MaxCalls <- Unlimited
  PrecheckResults = {"ok"}
  AgentMay = {"good", "fail"}
  Faults = {"kill"}
  MaxFaults = 1
  MaxResumes = 1
SPECIFICATION FairSpec
INVARIANT RuntimeFailureIsError
