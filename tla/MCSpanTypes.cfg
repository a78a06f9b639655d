SPECIFICATION Spec
CONSTANTS
  LogLimit = 1073741824
  ClassToAllocNPages <- AllocNPages
  ClassToSize <- Sizes
  SizeClassOf <- WideClasses
  LargePages <- BigPages
  Node = Node
  Edge = Edge
  Header = Header
  Twin = Twin
  Huge = Huge
  None = None
  Raw = Raw
  Garbage = Garbage
  Type = {Node, Twin, Huge, Header}
  NoScan = {}
  Slice = {Header}
  Promotable = {Node, Twin}
  NPages = 5
  G = 1
  p1 = p1
  p2 = p2
  P = {p1}
  MaxCacheTypes = 3
  MaxCrashes = 1
INVARIANTS
  LiveObjectsKept
  SameType
SYMMETRY Twins
CHECK_DEADLOCK FALSE
