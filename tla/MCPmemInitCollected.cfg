SPECIFICATION Spec
CONSTANTS
  c1 = c1
  c2 = c2
  k1 = k1
  Caller = {c1, c2}
  Collector = {}
  MaxArenas = 2
INVARIANT ErrorsAreReturned
CHECK_DEADLOCK FALSE
