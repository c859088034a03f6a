CONSTANTS
  Ops = {"open", "netsync", "online", "offline", "update", "sync", "flag", "close"}
  MaxMsgs = 2
  MaxOps = 5
  MaxOther = 3
  Faults = {"lost", "full", "crash"}
  MaxFaults = 1
SPECIFICATION Spec
CHECK_DEADLOCK FALSE
INVARIANTS
  MapSound
  NoDuplicates
  SyncMirrors
  Accounted
PROPERTIES
  StateAdvances
  DeletionsNoted
  FlagsNoted
