SPECIFICATION Spec
CONSTANTS
  LogLimit = 1073741824
  ClassToAllocNPages <- AllocNPages
  ClassToSize <- Sizes
  SizeClassOf <- Classes
  LargePages <- BigPages
  Node = Node
  Edge = Edge
  Header = Header
  Twin = Twin
  Huge = Huge
  None = None
  Raw = Raw
  Garbage = Garbage
  Type = {Node}
  NoScan = {}
  Slice = {}
  Promotable = {}
  NPages = 2
  G = 2
  p1 = p1
  p2 = p2
  P = {p1}
  MaxCacheTypes = 3
  MaxCrashes = 1
INVARIANTS
  ZeroValue
CHECK_DEADLOCK FALSE
