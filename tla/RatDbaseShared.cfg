CONSTANTS
  Agents = {a1, a2}
  Msgs = {m1, m2}
  Keywords = {k0, k1}
  NoKeywords = k0
  LostMessage = k0
  None = None
  NoMsg = NoMsg
  Threshold = 2
  Ops = {"insert", "setstatus", "expunge", "expire", "setinfo", "getmessage"}
  MaxOps = 5
  MaxTime = 1
  MaxCrashes = 0
  Faults = TRUE
  EmptyStatus = FALSE
SPECIFICATION Spec
CHECK_DEADLOCK FALSE
SYMMETRY Symmetry
INVARIANTS
  MemoryMatchesDisk
  CountsAgree
  FilesBacked
