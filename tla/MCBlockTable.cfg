SPECIFICATION Spec
CONSTANTS
  Blocks = {b1, b2, b3, b4}
  Texts = {t1, t2}
  Empty = Empty
  None = None
  Numbers <- SomeNumbers
  NotScanned = NotScanned
  SIZE_MOD = 16
  OpenMax = 5
SYMMETRY Symmetry
CHECK_DEADLOCK FALSE
INVARIANTS TypeOK BlocksAlive
PROPERTY KeepsResults
