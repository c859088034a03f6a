CONSTANTS
  Ops = {"open", "netsync", "online", "offline", "update", "sync", "flag", "close", "insert"}
  MaxMsgs = 2
  MaxOps = 6
  MaxOther = 1
  Faults = {"lost", "full"}
  MaxFaults = 1
SPECIFICATION FairSpec
CHECK_DEADLOCK FALSE
INVARIANTS
  SyncMirrors
PROPERTIES
  Returns
