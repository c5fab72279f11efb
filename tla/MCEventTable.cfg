\* Two threads dispatch events, nested, while they bind and unbind.
\* The bounds end every behaviour, and nothing follows a dangling iterator.
CONSTANTS
  Threads = {t1, t2}
  EventIDs = {a}
  Executors = {x}
  Nobody = Nobody
  MaxBinds = 3
  MaxSearches = 3
  MaxDepth = 2
SPECIFICATION Spec
CHECK_DEADLOCK FALSE
INVARIANTS
  TypeOK
  SlotsAscend
PROPERTIES
  ImplementsBindings
  OneShotOncePerThread
