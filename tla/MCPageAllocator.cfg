\* A region of three pages of five words or of five pages of three, and blocks of
\* one to three pages; a size of 62 words wraps around. Undefined behaviour ends a behaviour.
CONSTANTS
  Threads = {t1, t2}
  Null = Null
  Addresses = {a1, a2}
  RegionInfoSize = 3
  PageInfoSize = 1
  PoolSizes = {3, 15}
  PageSizes = {5}
  Sizes = {4, 62}
  Word = 64
SPECIFICATION Spec
CHECK_DEADLOCK FALSE
INVARIANTS
  TypeOK
  BlocksAreApart
  CountersAgree
PROPERTIES
  ScanEnds
