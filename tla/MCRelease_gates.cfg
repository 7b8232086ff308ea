CONSTANTS
  Tasks = {"a", "b"}
  DependsOn <- Independent
  Cmds = {"old", "new"}
  Acceptance <- Both
  Proves <- AProves
  Health = {}
  Required = {"a", "b"}
  Broken = {"old", "new"}
  AgentMay <- Stray
  UserMay = {"clash", "spec"}
  MaxAttempts = 2
  MaxKills = 1
SPECIFICATION FairSpec
INVARIANTS TypeOK LedgerIsComplete NothingBrokenShips WaivedOnce
PROPERTIES MergesTheCheckedTip ShipConditionsHold CanRelease
