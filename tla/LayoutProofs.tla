----------------------------- MODULE LayoutProofs -----------------------------
(* The arithmetic of the arena layout, for every arena size, every request *)
(* and every size of the headers.                                          *)
EXTENDS Layout, TLAPS

\* alignUp rounds up to a multiple, by less than one unit.
LEMMA AlignUpBounds ==
  ASSUME NEW n \in Nat, NEW a \in Nat \ {0}
  PROVE  /\ AlignUp(n, a) \in Nat
         /\ n <= AlignUp(n, a)
         /\ \E k \in Nat : AlignUp(n, a) = k * a
         /\ \A k \in Nat : n <= k * a => AlignUp(n, a) <= k * a
<1> DEFINE q == (n + a - 1) \div a
<1>1. q \in Nat
  OBVIOUS
<1>2. q * a <= n + a - 1 /\ n + a - 1 < q * a + a
  OBVIOUS
<1>3. AlignUp(n, a) = q * a
  BY DEF AlignUp
<1> HIDE DEF q
<1>4. ASSUME NEW k \in Nat, n <= k * a PROVE q * a <= k * a
  <2>1. CASE k >= q
    BY <1>1, <2>1
  <2>2. CASE k + 1 <= q
    <3>1. (k + 1) * a <= q * a
      BY <1>1, <2>2
    <3>2. k * a + a <= q * a
      BY <1>1, <3>1
    <3> QED
      BY <1>1, <1>2, <1>4, <3>2
  <2> QED
    BY <1>1, <2>1, <2>2
<1> QED
  BY <1>1, <1>2, <1>3, <1>4

\* The space that the file header takes in an arena is a size.
LEMMA HeaderOffsetType ==
  ASSUME NEW fileOffset
  PROVE  HeaderOffset(fileOffset) \in Nat
BY HeaderAssumption DEF HeaderOffset

\* The bounds of layout's results for an arena of whole pages that has room for
\* its headers.
LEMMA LayoutBounds ==
  ASSUME NEW size \in Nat, NEW fileOffset,
         size % PageSize = 0,
         HeaderOffset(fileOffset) + PArenaHeaderSize <= size
  PROVE  /\ MaxData(size, fileOffset) \in Nat
         /\ 2113 * MaxData(size, fileOffset)
              <= 2048 * (size - HeaderOffset(fileOffset) - PArenaHeaderSize)
         /\ MData(size, fileOffset) \in Nat
         /\ Usable(size, fileOffset) \in Nat
         /\ Usable(size, fileOffset) <= MaxData(size, fileOffset)
         /\ \A m \in Nat : (m % PageSize = 0 /\ m <= size /\ m <= MaxData(size, fileOffset))
                           => m <= Usable(size, fileOffset)
<1> DEFINE off == HeaderOffset(fileOffset)
           A == size - off - PArenaHeaderSize
           Y == MaxData(size, fileOffset)
<1>1. off \in Nat /\ PArenaHeaderSize \in Nat
  BY HeaderOffsetType, HeaderAssumption
<1>2. A \in Nat /\ A <= size
  BY <1>1
<1>3. Y = (2048 * A) \div 2113
  BY DEF MaxData
<1> HIDE DEF A, Y, off
<1>4. Y \in Nat /\ 2113 * Y <= 2048 * A
  BY <1>2, <1>3
<1>5. Y <= size
  BY <1>2, <1>4
<1>6. size - Y \in Nat
  BY <1>4, <1>5
<1>7. PICK k \in Nat : size = k * 8192
  BY DEF PageSize
<1>8. MData(size, fileOffset) = AlignUp(size - Y, 8192)
  BY DEF MData, Y, PageSize
<1> DEFINE M == MData(size, fileOffset)
<1>9. M \in Nat /\ size - Y <= M
  BY <1>6, <1>8, AlignUpBounds
<1>10. M <= size
  BY <1>4, <1>6, <1>7, <1>8, AlignUpBounds
<1>11. Usable(size, fileOffset) = size - M
  BY DEF Usable
<1>12. ASSUME NEW m \in Nat, m % PageSize = 0, m <= size, m <= Y
       PROVE  m <= size - M
  <2>1. PICK j \in Nat : m = j * 8192
    BY <1>12 DEF PageSize
  <2>2. PICK d \in Nat : size - m = d * 8192
    <3> DEFINE e == k - j
    <3>1. e \in Nat /\ size - m = e * 8192
      BY <1>7, <1>12, <2>1
    <3> HIDE DEF e
    <3> QED
      BY <3>1
  <2>3. size - Y <= d * 8192
    BY <1>4, <1>12, <2>2
  <2>4. M <= d * 8192
    BY <1>6, <1>8, <2>2, <2>3, AlignUpBounds
  <2> QED
    BY <1>9, <2>2, <2>4
<1> HIDE DEF M
<1> QED
  BY <1>4, <1>9, <1>10, <1>11, <1>12 DEF A, Y, off, M

\* The metadata of every arena of whole pages fits in front of its data.
THEOREM MetadataFitsAlways ==
  ASSUME NEW size \in Nat, NEW fileOffset,
         size % PageSize = 0,
         HeaderOffset(fileOffset) + PArenaHeaderSize <= size
  PROVE  MetadataFits(size, fileOffset)
<1> DEFINE U == Usable(size, fileOffset)
           Y == MaxData(size, fileOffset)
           off == HeaderOffset(fileOffset)
<1>1. /\ Y \in Nat /\ U \in Nat /\ U <= Y
      /\ 2113 * Y <= 2048 * (size - off - PArenaHeaderSize)
  BY LayoutBounds
<1>2. off \in Nat /\ PArenaHeaderSize \in Nat
  BY HeaderOffsetType, HeaderAssumption
<1>3. MData(size, fileOffset) = size - U
  <2>1. MData(size, fileOffset) \in Nat
    BY LayoutBounds
  <2> QED
    BY <2>1 DEF Usable
<1>4. MetadataSize(U) = PArenaHeaderSize + U \div 32 + (U \div 8192) * 4
  BY DEF MetadataSize, BytesPerBitmapByte, PageSize, SpanBytesPerPage
<1> HIDE DEF U, Y, off
<1>5. /\ U \div 32 \in Nat /\ U \div 8192 \in Nat
      /\ 32 * (U \div 32) <= U /\ 8192 * (U \div 8192) <= U
  BY <1>1
<1>6. off + PArenaHeaderSize + U \div 32 + (U \div 8192) * 4 <= size - U
  BY <1>1, <1>2, <1>5
<1> QED
  BY <1>2, <1>3, <1>4, <1>5, <1>6 DEF MetadataFits, U, off

\* An arena is a whole number of pages.
LEMMA ArenaPages ==
  /\ HeapArenaBytes \in Nat \ {0}
  /\ \E c \in Nat \ {0} : PallocChunkBytes = c * 8192
  /\ \A n \in Nat : n * HeapArenaBytes \in Nat /\ (n * HeapArenaBytes) % 8192 = 0
<1>1. PICK k \in Nat \ {0} : HeapArenaBytes = k * PallocChunkBytes
  BY ArenaAssumption
<1>2. PICK c \in Nat \ {0} : PallocChunkBytes = c * 8192
  BY ChunkAssumption DEF PageSize
<1>3. HeapArenaBytes \in Nat \ {0}
  BY <1>1, ChunkAssumption
<1>4. ASSUME NEW n \in Nat PROVE n * HeapArenaBytes \in Nat /\ (n * HeapArenaBytes) % 8192 = 0
  <2>1. PICK e \in Nat : e = n * (k * c)
    BY <1>1, <1>2
  <2>2. n * HeapArenaBytes = e * 8192
    BY <1>1, <1>2, <2>1
  <2>3. (e * 8192) % 8192 = 0
    OBVIOUS
  <2> QED
    BY <2>2, <2>3
<1> QED
  BY <1>2, <1>3, <1>4

\* What sysAlloc sizes an arena to: a multiple of heapArenaBytes with room for
\* the request and for the metadata of the request.
LEMMA ArenaSizeBounds ==
  ASSUME NEW ask \in Nat, NEW fileOffset
  PROVE  LET size == ArenaSize(ask, fileOffset)
             off  == HeaderOffset(fileOffset)
         IN  /\ size \in Nat
             /\ size % PageSize = 0
             /\ \E k \in Nat : size = k * HeapArenaBytes
             /\ ask + PArenaHeaderSize + off + ask \div 32 + (ask \div 8192) * 4 <= size
<1> DEFINE off == HeaderOffset(fileOffset)
           md == MetadataSize(ask) + off
           pages == AlignUp(md, PageSize)
<1>1. off \in Nat /\ PArenaHeaderSize \in Nat
  BY HeaderOffsetType, HeaderAssumption
<1>2. MetadataSize(ask) = PArenaHeaderSize + ask \div 32 + (ask \div 8192) * 4
  BY DEF MetadataSize, BytesPerBitmapByte, PageSize, SpanBytesPerPage
<1>3. ask \div 32 \in Nat /\ ask \div 8192 \in Nat
  OBVIOUS
<1>4. md \in Nat /\ md = PArenaHeaderSize + off + ask \div 32 + (ask \div 8192) * 4
  BY <1>1, <1>2, <1>3
<1>5. pages \in Nat /\ md <= pages
  BY <1>4, AlignUpBounds DEF PageSize
<1>6. ArenaSize(ask, fileOffset) = AlignUp(ask + pages, HeapArenaBytes)
  BY DEF ArenaSize
<1> HIDE DEF off, md, pages
<1> DEFINE need == ask + pages
<1>7. need \in Nat /\ HeapArenaBytes \in Nat \ {0}
  BY <1>5, ArenaPages
<1> HIDE DEF need
<1>8. /\ ArenaSize(ask, fileOffset) \in Nat
      /\ need <= ArenaSize(ask, fileOffset)
      /\ \E k \in Nat : ArenaSize(ask, fileOffset) = k * HeapArenaBytes
  <2>1. ArenaSize(ask, fileOffset) = AlignUp(need, HeapArenaBytes)
    BY <1>6 DEF need
  <2> QED
    BY <1>7, <2>1, AlignUpBounds
<1>9. ArenaSize(ask, fileOffset) % PageSize = 0
  BY <1>8, ArenaPages DEF PageSize
<1>10. ask + md <= ArenaSize(ask, fileOffset)
  BY <1>4, <1>5, <1>8 DEF need
<1> QED
  BY <1>1, <1>3, <1>4, <1>8, <1>9, <1>10 DEF off

\* An arena is larger than its request by its header at least.
LEMMA ArenaHolds == ASSUME NEW ask \in Nat, NEW fileOffset
                    PROVE  ask + PArenaHeaderSize <= ArenaSize(ask, fileOffset)
<1> DEFINE size == ArenaSize(ask, fileOffset)
           off == HeaderOffset(fileOffset)
<1>1. off \in Nat /\ PArenaHeaderSize \in Nat
  BY HeaderOffsetType, HeaderAssumption
<1>2. /\ size \in Nat /\ size % PageSize = 0
      /\ ask + PArenaHeaderSize + off + ask \div 32 + (ask \div 8192) * 4 <= size
  BY ArenaSizeBounds
<1>3. ask \div 32 \in Nat /\ ask \div 8192 \in Nat
  OBVIOUS
<1> HIDE DEF size, off
<1>4. ask + PArenaHeaderSize <= size
  BY <1>1, <1>2, <1>3
<1> QED
  BY <1>4 DEF size

\* Growing the heap for a request of whole pages always yields the pages.
THEOREM RoomForAskAlways ==
  ASSUME NEW ask \in Nat, ask % PageSize = 0, NEW fileOffset
  PROVE  RoomForAsk(ask, fileOffset)
<1> DEFINE size == ArenaSize(ask, fileOffset)
           off == HeaderOffset(fileOffset)
           Y == MaxData(size, fileOffset)
<1>1. off \in Nat /\ PArenaHeaderSize \in Nat
  BY HeaderOffsetType, HeaderAssumption
<1>2. /\ size \in Nat /\ size % PageSize = 0
      /\ ask + PArenaHeaderSize + off + ask \div 32 + (ask \div 8192) * 4 <= size
  BY ArenaSizeBounds
<1>3. PICK p \in Nat : ask = p * 8192
  BY DEF PageSize
<1>4. ask \div 32 = 256 * p /\ ask \div 8192 = p
  BY <1>3
<1>5. Y = (2048 * (size - off - PArenaHeaderSize)) \div 2113
  BY DEF MaxData
<1> HIDE DEF size, off, Y
<1>6. off + PArenaHeaderSize <= size /\ ask <= size
  BY <1>1, <1>2, <1>3, <1>4
<1>7. 2113 * ask <= 2048 * (size - off - PArenaHeaderSize)
  BY <1>1, <1>2, <1>3, <1>4
<1>8. ask <= Y
  BY <1>1, <1>2, <1>5, <1>6, <1>7
<1> QED
  BY <1>2, <1>6, <1>8, LayoutBounds DEF RoomForAsk, size, off, Y

\* The chunks that grow takes from a new arena lie inside the arena.
THEOREM ChunksFitAlways ==
  ASSUME NEW ask \in Nat, ask % PageSize = 0, NEW fileOffset
  PROVE  ChunksFit(ask, fileOffset)
<1> DEFINE size == ArenaSize(ask, fileOffset)
           M == MData(size, fileOffset)
<1>1. size \in Nat /\ size % PageSize = 0 /\ HeaderOffset(fileOffset) + PArenaHeaderSize <= size
  <2>1. HeaderOffset(fileOffset) \in Nat /\ PArenaHeaderSize \in Nat
    BY HeaderOffsetType, HeaderAssumption
  <2>2. ask \div 32 \in Nat /\ ask \div 8192 \in Nat
    OBVIOUS
  <2> QED
    BY <2>1, <2>2, ArenaSizeBounds
<1>2. M \in Nat /\ ask <= size - M
  BY <1>1, LayoutBounds, RoomForAskAlways DEF RoomForAsk, Usable
<1>3. PICK k \in Nat : size = k * HeapArenaBytes
  BY ArenaSizeBounds
<1>4. PICK n \in Nat : size = n * PallocChunkBytes
  <2>1. PICK j \in Nat \ {0} : HeapArenaBytes = j * PallocChunkBytes
    BY ArenaAssumption
  <2>2. PICK n \in Nat : n = k * j
    BY <2>1
  <2>3. size = n * PallocChunkBytes
    BY <1>3, <2>1, <2>2, ChunkAssumption
  <2> QED
    BY <2>3
<1> HIDE DEF size, M
<1>5. ask + M \in Nat /\ ask + M <= n * PallocChunkBytes
  BY <1>1, <1>2, <1>4
<1>6. AlignUp(ask + M, PallocChunkBytes) <= n * PallocChunkBytes
  BY <1>5, ChunkAssumption, AlignUpBounds
<1> QED
  BY <1>4, <1>6 DEF ChunksFit, size, M
==============================================================================
