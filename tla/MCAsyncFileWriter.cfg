CONSTANTS
  Users = {t1, t2}
  Writers = {t1}
  Worker = wk
  RingSize = 3
  ChunkSize = 2
  Lens = {1, 4}
  MaxCalls = 3
  MaxFaults = 1
SPECIFICATION FairSpec
INVARIANTS TypeOK NothingLost NoLostWakeup CloseDrains
PROPERTIES WritesPrefix CloseStopsWorker WriteReturns
CHECK_DEADLOCK FALSE
