CONSTANTS
  Users = {t1, t2}
  Worker = wk
  Pushers = {t1, t2, wk}
  Closers = {t1, t2}
  CloseLocks = {TRUE, FALSE}
  Lens <- MCLens
  InitCap = 1
  InitCache = 1
  QueueSize = 3
  MaxPushRetry = 2
  MaxCalls = 3
  MaxFaults = 1
SPECIFICATION FairSpec
INVARIANTS Unmixed ReportsTrue MemorySafe RefsHeld
PROPERTIES DeliversInOrder CallsReturn AcceptedIsDelivered
CHECK_DEADLOCK FALSE
