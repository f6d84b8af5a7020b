CONSTANTS
  Users = {t1}
  Writers = {t1}
  Worker = wk
  RingSize = 4
  ChunkSize = 2
  Lens = {1, 3}
  MaxCalls = 3
  MaxFaults = 0
SPECIFICATION Spec
INVARIANT RingNotUsedAfterClose
CHECK_DEADLOCK FALSE
