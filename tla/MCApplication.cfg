\* Two addresses and a loop inside the main one. Nobody is bound to call anything,
\* so the thread may wait for ever.
CONSTANTS
  Slots = {a1, a2}
  Window = Window
  Gone = Gone
  Loops = {main, nested}
  MainLoop = main
  NoLoop = NoLoop
  MaxCalls = 7
  MaxDepth = 4
SPECIFICATION Spec
CHECK_DEADLOCK FALSE
INVARIANTS
  TypeOK
  ActiveIsInnermost
  OneOwner
PROPERTIES
  NotDestroyedUnderHandler
  TerminatedNeverExecutes
  ScheduledIsDestroyed
  ExitEndsLoop
