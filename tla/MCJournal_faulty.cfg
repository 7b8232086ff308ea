CONSTANTS
  Procs = {p}
  Vals = {u, v}
  NoState = NoState
  Environment = {"kill", "power", "write", "fsync", "save", "doctor"}
  MaxEvents = 4
  MaxFaults = 3
SYMMETRY Symm
SPECIFICATION Spec
PROPERTY CommittedIsForever
CHECK_DEADLOCK FALSE
