CONSTANTS
  Callers = {t1, t2}
  Worker = wk
  Tags = {g1, g2}
  Listeners = {l1, l2}
  Sub = Sub
  Base = Base
  Classes <- MCClasses
  SuperOf <- MCSuperOf
  EventLists <- MCMixedLists
  NullClass = NullClass
  NoEvent = NoEvent
  MaxCalls = 3
SPECIFICATION FairSpec
INVARIANTS TypeOK LiveEntriesTagged AllOrNothing NoStaleDelivery NoMissedListener NoDoubleDelivery
PROPERTIES QuitStopsWorker QuitForgetsListeners
CHECK_DEADLOCK FALSE
