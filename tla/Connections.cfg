SPECIFICATION Spec
CONSTANTS
  Specs = {imap, pop}
  Imap = {imap}
  PwTimeout = TRUE
  MaxOpens = 3
  MaxDrops = 1
  MaxRestarts = 1
CHECK_DEADLOCK FALSE
INVARIANTS
  StreamsLive
  OneOwner
  NoOrphans
  OwnersOpen
  Passwords
CONSTANTS
  imap = imap
  pop = pop
