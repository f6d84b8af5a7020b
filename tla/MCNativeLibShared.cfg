SPECIFICATION Spec
CONSTANTS
  t1 = t1  t2 = t2   p1 = p1  p2 = p2  l1 = l1  l2 = l2  a1 = a1  a2 = a2
  Threads = {t1, t2}
  Procs = {p1}
  Home <- MCOneProcess
  Libs = {l1, l2}
  Abis = {a1}
  Rank <- MCRankOne
  NoAbi = NoAbi
  MaxVersion = 1
  Packed <- MCPackedShared
  AtomicMove = TRUE
  MaxCalls = 3
  MaxFaults = 0
  MaxCrashes = 0
INVARIANT HeldPathsWhole
CHECK_DEADLOCK FALSE
