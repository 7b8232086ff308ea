CONSTANTS
  Procs = {p}
  Vals = {u, v}
  NoState = NoState
  Environment = {"kill", "power", "write", "save"}
  MaxEvents = 4
  MaxFaults = 4
SYMMETRY Symm
SPECIFICATION Spec
INVARIANTS TypeOK StateIsFold SnapshotSound SnapshotBehindJournal
PROPERTY ImplementsEventLog
CHECK_DEADLOCK FALSE
