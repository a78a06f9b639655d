SPECIFICATION Spec
CONSTANTS
  c1 = c1
  c2 = c2
  k1 = k1
  Caller = {c1, c2}
  Collector = {k1}
  MaxArenas = 2
INVARIANTS
  TypeOK
  InitOnce
  DoneIsComplete
  InitInv
  NoAutoGC
PROPERTIES
  CallsReturn
  CollectedAfterInit
CHECK_DEADLOCK FALSE
