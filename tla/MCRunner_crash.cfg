CONSTANTS
  Tasks = {"a", "b", "c", "d"}
  DependsOn <- TwoChains
  Rank <- ByName
  Overlap <- OverlapCD
  RequiresHandoff = {"c"}
  MaxAttempts = 2
  MaxParallel = 2
  MaxRepairs = 1
  MaxCalls <- Unlimited
  PrecheckResults = {"ok"}
  AgentMay = {"good", "no_handoff", "touch"}
  Faults = {"kill", "raise", "commit"}
  MaxFaults = 2
  MaxResumes = 2
SPECIFICATION FairSpec
INVARIANTS DoneIsIntegrated BuiltOnDependencies OverlapsAreSerial
PROPERTIES OneVerdictPerAttempt ImplementsDagRun IntegrationKeepsWork RunEnds
