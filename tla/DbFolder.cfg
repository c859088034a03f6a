CONSTANTS
  f = f
  g = g
  Folders = {f, g}
  Reversed = {f}
  FaultKinds = {"search"}
  MaxEntries = 2
  MaxOther = 1
SPECIFICATION FairSpec
INVARIANTS
  RowsRight
PROPERTIES
  Follows
CHECK_DEADLOCK FALSE
