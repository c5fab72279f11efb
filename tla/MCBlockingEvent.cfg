\* Two threads post blocking events, again and again, to a handler of the main
\* thread, from a search of its table or from one inside another. Undefined
\* behaviour, and a poster that keeps the table, end the behaviour.
CONSTANTS
  Posters = {p1, p2}
  Nobody = Nobody
  Main = Main
  MaxDepth = 2
  CanThrow = TRUE
SPECIFICATION Spec
CHECK_DEADLOCK FALSE
INVARIANTS
  TypeOK
  OneOwner
PROPERTIES
  ImplementsBlockingCall
  SleeperGetsEventBack
