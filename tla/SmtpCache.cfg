CONSTANTS
  h1 = h1
  h2 = h2
  h3 = h3
  Hosts = {h1, h2, h3}
  CacheTimes = {0, 1, 2}
  Year = 5
  MaxTime = 5
  MaxJobs = 4
  None = None
SPECIFICATION Spec
INVARIANT OnePerHost
INVARIANT NoneLeaks
INVARIANT ExpiredClosed
CHECK_DEADLOCK FALSE
