\* Two stacks, two handlers to push and the application, which nobody unlinks a
\* base from: a torn chain ends the behaviour.
CONSTANTS
  Handlers = {b1, b2, h1, h2, app}
  Stacks = {s1, s2}
  Base <- MCBase
  b1 = b1  b2 = b2  h1 = h1  h2 = h2  s1 = s1  s2 = s2
  Null = Null
  App = app
  MaxChanges = 2
SPECIFICATION Spec
CHECK_DEADLOCK FALSE
INVARIANTS
  StackTypeOK
  ChainsAreItems
  StayingAskedInOrder
  FiltersAskedFirst
  AppAskedOnce
PROPERTIES
  OnlyChainedAsked
  WalkEnds
