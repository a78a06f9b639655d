SPECIFICATION Spec
CONSTANTS
  LogLimit = 1073741824
  ClassToAllocNPages <- AllocNPages
  ClassToSize <- Sizes
  SizeClassOf <- Classes
  LargePages <- BigPages
  Node = Node
  Edge = Edge
  Header = Header
  Twin = Twin
  Huge = Huge
  None = None
  Raw = Raw
  Garbage = Garbage
  Type = {Node, Edge}
  NoScan = {Edge}
  Slice = {}
  Promotable = {}
  NPages = 2
  G = 2
  p1 = p1
  p2 = p2
  P = {p1, p2}
  MaxCacheTypes = 3
  MaxCrashes = 2
INVARIANTS
  TypeOK
  LiveObjectsKept
  NoOverlap
  ZeroBeforeRestart
SYMMETRY Processors
CHECK_DEADLOCK FALSE
