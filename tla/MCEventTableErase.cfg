\* One thread: a handler processes an event while the search that called it iterates.
CONSTANTS
  Threads = {t1}
  EventIDs = {a}
  Executors = {x}
  Nobody = Nobody
  MaxBinds = 3
  MaxSearches = 3
  MaxDepth = 2
SPECIFICATION Spec
CHECK_DEADLOCK FALSE
PROPERTIES
  NoEraseWhileIterating
