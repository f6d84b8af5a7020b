SPECIFICATION Spec
CONSTANTS
  t1 = t1  t2 = t2   p1 = p1  p2 = p2  l1 = l1  l2 = l2  a1 = a1  a2 = a2
  Threads = {t1, t2}
  Procs = {p1, p2}
  Home <- MCTwoProcesses
  Libs = {l1, l2}
  Abis = {a1, a2}
  Rank <- MCRank
  NoAbi = NoAbi
  MaxVersion = 2
  Packed <- MCPacked
  AtomicMove = FALSE
  MaxCalls = 4
  MaxFaults = 1
  MaxCrashes = 1
INVARIANTS TypeOK ReturnsCurrent HeldAloneWhole
CHECK_DEADLOCK FALSE
