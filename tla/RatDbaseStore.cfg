CONSTANTS
  Agents = {a1, a2}
  Msgs = {m1, m2}
  Keywords = {k0}
  NoKeywords = k0
  LostMessage = k0
  None = None
  NoMsg = NoMsg
  Threshold = 2
  Ops = {"insert", "setstatus", "expunge", "expire"}
  MaxOps = 5
  MaxTime = 0
  MaxCrashes = 0
  Faults = TRUE
  EmptyStatus = FALSE
SPECIFICATION RestartingSpec
CHECK_DEADLOCK FALSE
PROPERTIES
  ImplementsStore
  LockReleased
