CONSTANTS
  Users = {t1, t2}
  Worker = wk
  Pushers = {t1}
  Closers = {t2}
  CloseLocks = {FALSE}
  Lens <- MCShort
  InitCap = 2
  InitCache = 1
  QueueSize = 3
  MaxPushRetry = 2
  MaxCalls = 2
  MaxFaults = 0
SPECIFICATION Spec
INVARIANTS NoMemoryError
CHECK_DEADLOCK FALSE
