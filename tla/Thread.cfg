CONSTANTS
  N = 4
  Subjects = 2
SPECIFICATION ThreadSpec
CHECK_DEADLOCK FALSE
INVARIANTS
  BothWays
  RepliesLinked
  OnePerSubject
  AllReached
