SPECIFICATION Spec
CONSTANTS
  t1 = t1  t2 = t2  x = x  y = y  c1 = c1  c2 = c2  c3 = c3  user = user
  Contents = {c1, c2, c3, user}
  SizeOf <- MCSizeOf
  UserContent = user
  Nothing = Nothing
  MaxVersion = 2
  Threads = {t1, t2}
  Assets = {x, y}
  Copies <- MCCopiesApart
  Folder = {x}
  FolderThreads = {t1}
  Modes <- MCModes
  Large = {y}
  Packed <- MCPackedGone
  MaxCalls = 3
  MaxFaults = 1
  MaxEnds = 1
INVARIANTS TypeOK DestWhole SuccessIsCurrent CachedCrcsCurrent
CHECK_DEADLOCK FALSE
