SPECIFICATION Spec
CONSTANTS
  t1 = t1  t2 = t2  x = x  y = y  c1 = c1  c2 = c2  c3 = c3  user = user
  Contents = {c1, c2, c3, user}
  SizeOf <- MCSizeOf
  UserContent = user
  Nothing = Nothing
  MaxVersion = 2
  Threads = {t1}
  Assets = {x}
  Copies <- MCCopiesAll
  Folder = {x}
  FolderThreads = {}
  Modes <- MCAllModes
  Large = {}
  Packed <- MCPackedX
  MaxCalls = 2
  MaxFaults = 1
  MaxEnds = 0
PROPERTIES CleansIncompleteOnly
CHECK_DEADLOCK FALSE
