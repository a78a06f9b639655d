SPECIFICATION Spec
CONSTANTS
  m1 = m1
  m2 = m2
  A = A
  B = B
  C = C
  M = {m1, m2}
  Type = {A, B, C}
  SizeClasses = {1}
  ClassToObjects <- Objects
  FreqTarget = 1
  TypMapSize = 2
  MaxCacheTypes = 4
  TotalCap = 3
  MaxCrashes = 1
  None = None
INVARIANTS
  TypeOK
  TypMapRoom
  TypeMapRow
PROPERTIES
  IndexKept
CHECK_DEADLOCK FALSE
