CONSTANTS
  Agents = {a1, a2}
  Msgs = {m1, m2}
  Keywords = {k0}
  NoKeywords = k0
  LostMessage = k0
  None = None
  NoMsg = NoMsg
  Threshold = 2
  Ops = {"insert", "setstatus", "expire", "search", "check"}
  MaxOps = 4
  MaxTime = 0
  MaxCrashes = 1
  Faults = TRUE
  EmptyStatus = TRUE
SPECIFICATION Spec
CHECK_DEADLOCK FALSE
SYMMETRY Symmetry
INVARIANTS
  LockExclusion
PROPERTIES
  IndexStability
  Repaired
