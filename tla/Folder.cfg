CONSTANTS
  w1 = w1
  w2 = w2
  Windows = {w1, w2}
  ExpungeOnClose = TRUE
  FaultKinds = {"removed", "refused", "overread"}
  MaxMsgs = 3
SPECIFICATION FairSpec
INVARIANTS
  Aligned
  FlagsMeant
  HandlesLive
PROPERTIES
  NewMailShown
CHECK_DEADLOCK FALSE
