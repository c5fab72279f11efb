\* An event handler throws inside a selective yield.
CONSTANTS
  h1 = h1
  h2 = h2
  e1 = e1
  e2 = e2
  e3 = e3
  e4 = e4
  id1 = id1
  Main = main
  NoThread = NoThread
  NoEvent = NoEvent
  NoHandler = NoHandler
  NoUID = NoUID
  Handlers = {h1, h2}
  Events = {e1, e4}
  Threads = {main, w1}
  Requeued = {}
  Target <- MCTarget
  UniqueID <- MCUniqueID
  Category <- MCCategory
  Categories <- MCCategories
  MaxNesting = 2
  Calls = {"yield", "throw"}
SPECIFICATION Safety
CHECK_DEADLOCK FALSE
INVARIANT DelayedMovedBack
