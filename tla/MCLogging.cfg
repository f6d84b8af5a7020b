CONSTANTS
  Threads = {t1, t2}
  Classes <- MCClasses
  Enclosing <- MCEnclosing
  Supers <- MCSupers
  Annotated = {"outer"}
  Fielded = {"base"}
  NoSource = {"sub"}
  Stacks <- MCStacks
  Loggers <- MCLoggers
  Calls <- MCCalls
  Thresholds <- MCThresholds
  LineLen = 2
  RingSize = 1
  MaxCalls = 2
  MaxChanges = 1
  MaxTrims = 1
  MaxFaults = 1
SPECIFICATION Spec
SYMMETRY Symmetry
INVARIANTS CallerTagged LevelRespected LinesWhole
CHECK_DEADLOCK FALSE
