SPECIFICATION Spec
CONSTANTS
  HeapArenaBytes = 131072
  PallocChunkBytes = 32768
  PmemHeaderSize = 424
  PArenaHeaderSize = 88
  Requests = {1, 4, 5, 15, 16}
  MaxUnits = 5
  MaxCrashes = 3
INVARIANTS
  TypeOK
  NeverRejected
  TruncationDetected
  ArenasKept
  LayoutSound
  GrowthSuffices
