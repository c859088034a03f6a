CONSTANTS
  m1 = m1
  m2 = m2
  m3 = m3
  Msgs = {m1, m2, m3}
  SaveTo = {m1, m3}
  NewestFirst = FALSE
  ExpungeOnClose = TRUE
  UserActs = {"flag", "expunge", "line", "netsync", "quit"}
  MaxDeaths = 1
  MaxStarts = 1
  None = None
SPECIFICATION FairSpec
INVARIANTS
  OneAtATime
  CopiesMatch
PROPERTIES
  DeletedNotSent
  Answered
  KeepsPromise
CHECK_DEADLOCK FALSE
