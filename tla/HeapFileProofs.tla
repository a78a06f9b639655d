---------------------------- MODULE HeapFileProofs ----------------------------
(***************************************************************************)
(* The properties of HeapFile, for every arena size, header size, set of   *)
(* requests and number of crashes.                                         *)
(***************************************************************************)
EXTENDS HeapFile, LayoutProofs

------------------------------------------------------------------------------
(* The inductive invariant.                                                *)

Growing   == {"growHeader", "growPersist", "growSize", "growSizePersist"}
Starting  == {"off", "initSize", "initSizePersist", "initMagic", "initMagicPersist", "verify",
              "verifyArenas", "map"}
Unstarted == {"off", "initSize", "initSizePersist", "initMagic", "mapError"}

\* The header of an arena that reaches from unit u to unit v.
ArenaFrom(u, v) == [magic |-> TRUE, size |-> At(v - u), fileOffset |-> At(u)]

\* The arenas of the file start at the units S and end, without a gap or an
\* overlap, at unit n.
Row(S, n, p) ==
  /\ \A u \in S : u < n
  /\ n > 0 => 0 \in S
  /\ \A u \in S : \E v \in S \cup {n} : /\ u < v
                                        /\ p[u] = ArenaFrom(u, v)
                                        /\ \A w \in S : w <= u \/ v <= w

\* mappedSize of a file of n units.
SizeOf(n) == IF n = 0 THEN PmemHeaderSize ELSE At(n)

\* Only the header of an arena that is being added may differ from its durable copy.
CopyInv == /\ pc # "growPersist" => pa = dPa
           /\ pc = "growPersist" => \A u \in Unit : u # UnitOf(nextMapOffset) => pa[u] = dPa[u]

\* The words of the file header.
HeadInv(n) ==
  /\ pc # "initMagicPersist" => magic = dMagic
  /\ pc = "initMagicPersist" => magic /\ n = 0
  /\ ~magic => pc \in Unstarted /\ n = 0 /\ {mappedSize, dMappedSize} \subseteq {0, PmemHeaderSize}
  /\ pc \in {"initSize", "initSizePersist", "initMagic"} => ~magic
  /\ pc \in {"initSizePersist", "initMagic"} => mappedSize = PmemHeaderSize
  /\ pc = "initMagic" => dMappedSize = PmemHeaderSize
  /\ magic => dMappedSize \in {SizeOf(n), mappedSize}
  /\ magic => mappedSize = IF pc = "growSizePersist" THEN At(n) + asize ELSE SizeOf(n)

\* The file is long enough.
LenInv(n) == /\ n > 0 => At(n) <= fsize
             /\ pc \notin {"off", "mapError"} => PmemHeaderSize <= fsize
             /\ pc \in Growing => At(n) + asize <= fsize

\* verifyMetadata and mapArenas are at the start of an arena or at the end.
WalkInv(S, n) == /\ pc = "verify" => walked = 0
                 /\ pc \in {"verifyArenas", "map"} => n > 0 /\ \E u \in S \cup {n} : walked = At(u)
                 /\ pc # "error"

\* The arena that grow adds: it starts where the others end, until it counts.
GrowInv(S, n) ==
  /\ pc \in Starting => nextMapOffset = 0 /\ curArena = NoSpace
  /\ pc \in Growing \cup {"run"} => nextMapOffset = At(n)
  /\ pc \in Growing \cup {"growFinish"} => asize = ArenaSize(Ask(npage), nextMapOffset)
  /\ pc \in Growing => \E v \in 1..MaxUnits : n < v /\ asize = At(v - n)
  /\ pc \in Growing \ {"growHeader"} => pa[n] = [magic |-> TRUE, size |-> asize, fileOffset |-> At(n)]
  /\ pc = "growFinish" => \E u \in S : /\ nextMapOffset = At(u)
                                       /\ asize = At(n - u)
                                       /\ pa[u].size = asize
                                       /\ reserved[u] = 0
                                       /\ \A g \in grown : g.unit # u

\* What is mapped are arenas of the row, with the metadata that layout gives them.
MapInv(S) ==
  /\ \A u \in Unit : reserved[u] = 0 => given[u] = {}
  /\ \A u \in Unit : reserved[u] # 0 => /\ u \in S
                                        /\ reserved[u] = MData(pa[u].size, pa[u].fileOffset)
                                        /\ \A p \in given[u] : (p + 1) * PageSize <= pa[u].size

\* Every arena that the walk has passed is mapped, and in a running program all
\* but the one that is being added.
ReachInv(S) ==
  /\ pc = "map" => \A u \in S : At(u) < walked => reserved[u] # 0
  /\ Running => \A u \in S : At(u) # nextMapOffset => reserved[u] # 0

\* What is left of the current arena has not been given away.
CurInv(S) ==
  \/ curArena = NoSpace
  \/ /\ curArena.unit \in S
     /\ reserved[curArena.unit] # 0
     /\ curArena.end = pa[curArena.unit].size
     /\ curArena.base <= curArena.end
     /\ curArena.base % PageSize = 0
     /\ \A p \in given[curArena.unit] : p < curArena.base \div PageSize

GrownInv(S) == \A g \in grown : g.unit \in S /\ g.size = pa[g.unit].size

Fresh == /\ curArena = NoSpace
         /\ given = [u \in Unit |-> {}]
         /\ reserved = [u \in Unit |-> 0]

Sound(S, n) == /\ Row(S, n, pa) /\ Row(S, n, dPa)
               /\ HeadInv(n)
               /\ LenInv(n)
               /\ WalkInv(S, n)
               /\ GrowInv(S, n)
               /\ MapInv(S) /\ ReachInv(S)
               /\ CurInv(S)
               /\ GrownInv(S)

\* A file of which a part in use was cut off.
Cut == /\ pc \in {"off", "verify", "error", "mapError"}
       /\ magic /\ dMagic /\ dMappedSize = mappedSize
       /\ HeapArenaBytes <= fsize /\ fsize < mappedSize
       /\ Fresh

FreshInv == pc = "off" => Fresh
GotInv   == pc \notin Growing \cup {"growFinish"} => got >= npage * PageSize

IInv == /\ TypeOK /\ CopyInv /\ FreshInv /\ GotInv
        /\ truncated => Cut
        /\ ~truncated => \E S \in SUBSET Unit, n \in 0..MaxUnits : Sound(S, n)

------------------------------------------------------------------------------
(* Arithmetic of units, and the sizes that grow computes.                  *)

\* A unit has at least a page, and the first page has room for both headers.
LEMMA UnitBytes == /\ HeapArenaBytes \in Nat /\ PageSize <= HeapArenaBytes
                   /\ PmemHeaderSize \in Nat /\ PmemHeaderSize > 0
                   /\ PArenaHeaderSize \in Nat /\ PArenaHeaderSize > 0
                   /\ PmemHeaderSize + PArenaHeaderSize < HeapArenaBytes
<1>1. PICK k \in Nat \ {0} : HeapArenaBytes = k * PallocChunkBytes
  BY ArenaAssumption
<1>2. PallocChunkBytes >= 8192 /\ PallocChunkBytes \in Nat
  BY ChunkAssumption DEF PageSize
<1>3. HeapArenaBytes >= PallocChunkBytes
  BY <1>1, <1>2
<1> QED
  BY <1>2, <1>3, FirstPageAssumption, HeaderAssumption, ArenaAssumption DEF PageSize

\* The address of a unit, and the unit at an address.
LEMMA AtType == ASSUME NEW u \in Nat
                PROVE  At(u) \in Nat /\ UnitOf(At(u)) = u /\ (u > 0 => HeapArenaBytes <= At(u))
<1>1. HeapArenaBytes \in Nat /\ HeapArenaBytes > 0
  BY UnitBytes DEF PageSize
<1>2. u * HeapArenaBytes \in Nat /\ (u * HeapArenaBytes) \div HeapArenaBytes = u
  BY <1>1
<1>3. u > 0 => HeapArenaBytes <= u * HeapArenaBytes
  BY <1>1
<1> QED
  BY <1>2, <1>3 DEF At, UnitOf

\* The first unit starts the file.
LEMMA AtZero == At(0) = 0
BY UnitBytes DEF At

\* Units are ordered as their addresses are.
LEMMA AtLess == ASSUME NEW u \in Nat, NEW v \in Nat
                PROVE  (u < v <=> At(u) < At(v)) /\ (At(u) = At(v) => u = v)
<1>1. HeapArenaBytes \in Nat /\ HeapArenaBytes > 0
  BY UnitBytes DEF PageSize
<1>2. ASSUME NEW x \in Nat, NEW y \in Nat, x < y PROVE x * HeapArenaBytes < y * HeapArenaBytes
  <2>1. PICK d \in Nat : y = x + d /\ d > 0
    BY <1>2
  <2>2. y * HeapArenaBytes = x * HeapArenaBytes + d * HeapArenaBytes
    BY <1>1, <2>1
  <2>3. d * HeapArenaBytes > 0 /\ d * HeapArenaBytes \in Nat /\ x * HeapArenaBytes \in Nat
    BY <1>1, <2>1
  <2> QED
    BY <2>2, <2>3
<1>3. u * HeapArenaBytes \in Nat /\ v * HeapArenaBytes \in Nat
  BY <1>1
<1> QED
  BY <1>2, <1>3 DEF At

\* An arena of v - u units at unit u ends at unit v.
LEMMA AtDiff == ASSUME NEW u \in Nat, NEW v \in Nat, u <= v
                PROVE  At(u) + At(v - u) = At(v)
<1>1. PICK d \in Nat : v = u + d
  BY v - u \in Nat
<1>2. (u + d) * HeapArenaBytes = u * HeapArenaBytes + d * HeapArenaBytes
  BY UnitBytes
<1>3. v - u = d
  BY <1>1
<1> QED
  BY <1>1, <1>2, <1>3 DEF At

\* What grow asks for: whole pages, and at least the ones requested.
LEMMA AskBounds == ASSUME NEW n \in Nat
                   PROVE  Ask(n) \in Nat /\ Ask(n) % PageSize = 0 /\ n * PageSize <= Ask(n)
<1>1. PICK c \in Nat \ {0} : PallocChunkBytes = c * 8192
  BY ArenaPages
<1>2. PallocChunkPages = c
  BY <1>1 DEF PallocChunkPages, PageSize
<1>3. AlignUp(n, c) \in Nat /\ n <= AlignUp(n, c)
  BY AlignUpBounds
<1>4. Ask(n) = AlignUp(n, c) * 8192
  BY <1>2 DEF Ask, PageSize
<1> QED
  BY <1>3, <1>4 DEF PageSize

\* The pages that a call of h.pages.grow adds.
LEMMA PagesBounds == ASSUME NEW from \in Nat, NEW to \in Nat,
                            NEW p \in (from \div PageSize)..((to \div PageSize) - 1)
                     PROVE  /\ p \in Nat /\ p < to \div PageSize /\ from \div PageSize <= p
                            /\ (p + 1) * PageSize <= to
<1>1. from \div 8192 \in Nat /\ to \div 8192 \in Nat /\ 8192 * (to \div 8192) <= to
  OBVIOUS
<1> QED
  BY <1>1 DEF PageSize

\* h.pages.grow adds pages to one arena.
LEMMA PagesGrowType ==
  ASSUME NEW giv \in [Unit -> SUBSET Nat], NEW u, NEW from \in Nat, NEW to \in Nat
  PROVE  /\ PagesGrow(giv, u, from, to) \in [Unit -> SUBSET Nat]
         /\ \A w \in Unit : w # u => PagesGrow(giv, u, from, to)[w] = giv[w]
         /\ u \in Unit => PagesGrow(giv, u, from, to)[u]
                            = giv[u] \cup (from \div PageSize)..((to \div PageSize) - 1)
<1>1. (from \div PageSize)..((to \div PageSize) - 1) \subseteq Nat
  BY PagesBounds
<1> QED
  BY <1>1 DEF PagesGrow

\* An arena of whole units has room for its metadata, and has some.
LEMMA ArenaData ==
  ASSUME NEW k \in Nat \ {0}, NEW fileOffset
  PROVE  /\ MData(At(k), fileOffset) \in Nat \ {0}
         /\ HeaderOffset(fileOffset) + MetadataSize(At(k) - MData(At(k), fileOffset))
              <= MData(At(k), fileOffset)
<1> DEFINE size == At(k)
<1>1. size \in Nat /\ HeapArenaBytes <= size /\ size % PageSize = 0
  BY AtType, ArenaPages DEF At, PageSize
<1>2. HeaderOffset(fileOffset) \in Nat /\ HeaderOffset(fileOffset) + PArenaHeaderSize < HeapArenaBytes
  BY UnitBytes DEF HeaderOffset
<1>3. HeaderOffset(fileOffset) + PArenaHeaderSize <= size
  BY <1>1, <1>2, UnitBytes
<1> HIDE DEF size
<1>4. /\ MaxData(size, fileOffset) \in Nat
      /\ 2113 * MaxData(size, fileOffset) <= 2048 * (size - HeaderOffset(fileOffset) - PArenaHeaderSize)
      /\ MData(size, fileOffset) \in Nat
      /\ Usable(size, fileOffset) \in Nat
      /\ Usable(size, fileOffset) <= MaxData(size, fileOffset)
  BY <1>1, <1>3, LayoutBounds
<1>5. MaxData(size, fileOffset) < size
  BY <1>1, <1>2, <1>4, UnitBytes DEF PageSize
<1>6. Usable(size, fileOffset) = size - MData(size, fileOffset)
  BY DEF Usable
<1>7. MData(size, fileOffset) # 0
  BY <1>1, <1>4, <1>5, <1>6
<1>8. MetadataFits(size, fileOffset)
  BY <1>1, <1>3, MetadataFitsAlways
<1> QED
  BY <1>4, <1>6, <1>7, <1>8 DEF MetadataFits, size

\* The sizes of an arena that grow adds for a request of n pages: whole units,
\* and the pages up to nBase, which are in the arena, hold the request.
LEMMA NewArena ==
  ASSUME NEW n \in Nat, NEW fileOffset
  PROVE  LET size  == ArenaSize(Ask(n), fileOffset)
             md    == MData(size, fileOffset)
             nBase == AlignUp(Ask(n) + md, PallocChunkBytes)
         IN  /\ \E k \in Nat \ {0} : size = At(k)
             /\ size \in Nat /\ md \in Nat \ {0} /\ nBase \in Nat
             /\ nBase <= size /\ nBase % PageSize = 0
             /\ nBase - md \in Nat /\ nBase - md >= n * PageSize
<1> DEFINE ask   == Ask(n)
           size  == ArenaSize(ask, fileOffset)
           md    == MData(size, fileOffset)
           nBase == AlignUp(ask + md, PallocChunkBytes)
<1>1. ask \in Nat /\ ask % PageSize = 0 /\ n * PageSize <= ask /\ n * PageSize \in Nat
  BY AskBounds DEF PageSize
<1> HIDE DEF ask
<1>2. size \in Nat /\ \E k \in Nat : size = k * HeapArenaBytes
  BY <1>1, ArenaSizeBounds
<1>3. size > 0
  BY <1>1, <1>2, ArenaHolds, UnitBytes
<1>4. \E k \in Nat \ {0} : size = At(k)
  <2>1. PICK k \in Nat : size = k * HeapArenaBytes
    BY <1>2
  <2>2. k # 0
    BY <1>3, <2>1, UnitBytes
  <2> QED
    BY <2>1, <2>2 DEF At
<1>5. md \in Nat \ {0}
  BY <1>4, ArenaData
<1>6. nBase <= size
  BY <1>1, ChunksFitAlways DEF ChunksFit
<1>7. nBase \in Nat /\ ask + md <= nBase /\ nBase % PageSize = 0
  <2>1. PICK c \in Nat \ {0} : PallocChunkBytes = c * 8192
    BY ArenaPages
  <2>2. PICK j \in Nat : nBase = j * PallocChunkBytes /\ nBase \in Nat /\ ask + md <= nBase
    <3>1. ask + md \in Nat /\ PallocChunkBytes \in Nat \ {0}
      BY <1>1, <1>5, ChunkAssumption
    <3> HIDE DEF md
    <3> QED
      BY <3>1, AlignUpBounds
  <2>3. PICK e \in Nat : e = j * c
    BY <2>1, <2>2
  <2>4. nBase = e * 8192
    BY <2>1, <2>2, <2>3
  <2> QED
    BY <2>2, <2>4 DEF PageSize
<1> HIDE DEF size, md, nBase
<1>8. nBase - md \in Nat /\ nBase - md >= n * PageSize
  BY <1>1, <1>5, <1>7
<1> QED
  BY <1>2, <1>4, <1>5, <1>6, <1>7, <1>8 DEF ask, size, md, nBase

------------------------------------------------------------------------------
(* Rows of arenas.                                                         *)

\* A row depends on the headers of its own arenas only.
LEMMA RowFrame ==
  ASSUME NEW S, NEW n, NEW p, NEW q, Row(S, n, p), \A u \in S : q[u] = p[u]
  PROVE  Row(S, n, q)
BY DEF Row

\* The arena at unit u reaches to unit v: no other one starts in between.
Stretch(S, n, p, u, v) == /\ u \in Nat /\ v \in Nat /\ u < v /\ v <= n /\ v - u \in Nat \ {0}
                          /\ p[u] = ArenaFrom(u, v)
                          /\ At(u) + At(v - u) = At(v)
                          /\ \A w \in S : w <= u \/ v <= w

\* Every arena of the row reaches to the next one, or to the end.
LEMMA RowArena ==
  ASSUME NEW S \in SUBSET Unit, NEW n \in 0..MaxUnits, NEW p, Row(S, n, p), NEW u \in S
  PROVE  u \in Nat /\ u < n /\ \E v \in S \cup {n} : Stretch(S, n, p, u, v)
<1>1. MaxUnits \in Nat /\ \A w \in S : w \in Nat /\ w < n
  BY GrowthAssumption DEF Row, Unit
<1>2. PICK v \in S \cup {n} : u < v /\ p[u] = ArenaFrom(u, v) /\ \A w \in S : w <= u \/ v <= w
  BY DEF Row
<1>3. v \in Nat /\ v <= n /\ v - u \in Nat \ {0}
  BY <1>1, <1>2
<1>4. At(u) + At(v - u) = At(v)
  BY <1>1, <1>2, <1>3, AtDiff
<1> QED
  BY <1>1, <1>2, <1>3, <1>4 DEF Stretch

\* A new arena at the end makes a longer row.
LEMMA RowExtend ==
  ASSUME NEW S \in SUBSET Unit, NEW n \in 0..MaxUnits, NEW v \in 1..MaxUnits, n < v,
         NEW p, Row(S, n, p), p[n] = ArenaFrom(n, v)
  PROVE  S \cup {n} \in SUBSET Unit /\ Row(S \cup {n}, v, p)
<1>1. MaxUnits \in Nat /\ \A w \in S : w \in Nat /\ w < n
  BY GrowthAssumption DEF Row, Unit
<1>2. n \in Unit
  BY <1>1 DEF Unit
<1>3. ASSUME NEW u \in S \cup {n}
      PROVE  \E x \in (S \cup {n}) \cup {v} : /\ u < x /\ p[u] = ArenaFrom(u, x)
                                             /\ \A w \in S \cup {n} : w <= u \/ x <= w
  <2>1. CASE u = n
    BY <1>1, <2>1
  <2>2. CASE u \in S
    <3>1. PICK x \in S \cup {n} : u < x /\ p[u] = ArenaFrom(u, x) /\ \A w \in S : w <= u \/ x <= w
      BY <2>2 DEF Row
    <3>2. x <= n
      BY <1>1, <3>1
    <3> QED
      BY <3>1, <3>2
  <2> QED
    BY <2>1, <2>2
<1>4. \A u \in S \cup {n} : u < v
  BY <1>1
<1>5. 0 \in S \cup {n}
  BY <1>1 DEF Row
<1> QED
  BY <1>2, <1>3, <1>4, <1>5 DEF Row

------------------------------------------------------------------------------
(* Types, in three parts.                                                  *)

\* The words of an arena header.
Header == [magic : BOOLEAN, size : Nat, fileOffset : Nat]

\* The words of the file and their durable copies.
FileType == /\ fsize \in Nat /\ magic \in BOOLEAN /\ dMagic \in BOOLEAN
            /\ mappedSize \in Nat /\ dMappedSize \in Nat
            /\ pa \in [Unit -> Header] /\ dPa \in [Unit -> Header]
\* The progress of the program, and the history.
WorkType == /\ pc \in PCs /\ walked \in Nat /\ npage \in Requests \cup {0} /\ asize \in Nat
            /\ got \in Nat /\ grown \subseteq [unit : Unit, size : Nat]
            /\ truncated \in BOOLEAN /\ crashes \in 0..MaxCrashes
\* The mapped heap.
HeapType == /\ nextMapOffset \in Nat
            /\ curArena \in [unit : Unit, base : Nat, end : Nat]
            /\ given \in [Unit -> SUBSET Nat]
            /\ reserved \in [Unit -> Nat]

\* The three parts are TypeOK.
LEMMA TypeParts == TypeOK <=> FileType /\ WorkType /\ HeapType
BY DEF TypeOK, FileType, WorkType, HeapType, Header

\* A new state is as it should be when each part of the invariant holds in it.
LEMMA Assemble ==
  ASSUME FileType', WorkType', HeapType', CopyInv', FreshInv', GotInv', truncated' = FALSE,
         NEW S \in SUBSET Unit, NEW n \in 0..MaxUnits, Sound(S, n)'
  PROVE  IInv'
<1>1. TypeOK'
  BY TypeParts, PTL
<1> QED
  BY <1>1 DEF IInv

\* The initial state is that of an empty row.
LEMMA InitEstablishes == Init => IInv
<1> SUFFICES ASSUME Init PROVE IInv
  OBVIOUS
<1>1. 0 \in Unit /\ MaxUnits \in Nat
  BY GrowthAssumption DEF Unit
<1>2. FileType
  BY DEF Init, FileType, Header, NoArena
<1>3. WorkType
  <2>1. 0 \in 0..MaxCrashes
    BY GrowthAssumption
  <2>2. grown \subseteq [unit : Unit, size : Nat]
    BY DEF Init
  <2>3. pc \in PCs
    BY DEF Init, PCs
  <2> QED
    BY <2>1, <2>2, <2>3 DEF Init, WorkType
<1>4. HeapType
  BY <1>1 DEF Init, HeapType, NoSpace
<1>5. CopyInv /\ FreshInv /\ GotInv /\ ~truncated
  BY DEF Init, CopyInv, FreshInv, Fresh, GotInv, Growing, PageSize
<1>6. Sound({}, 0)
  <2>1. Row({}, 0, pa) /\ Row({}, 0, dPa)
    BY DEF Row
  <2>2. HeadInv(0)
    BY DEF Init, HeadInv, Unstarted
  <2>5. LenInv(0) /\ WalkInv({}, 0)
    BY DEF Init, LenInv, WalkInv, Growing
  <2>3. GrowInv({}, 0)
    BY DEF Init, GrowInv, Growing
  <2>4. MapInv({}) /\ ReachInv({}) /\ CurInv({}) /\ GrownInv({})
    BY DEF Init, MapInv, ReachInv, CurInv, GrownInv, Running
  <2> QED
    BY <2>1, <2>2, <2>3, <2>4, <2>5 DEF Sound
<1>7. {} \in SUBSET Unit /\ 0 \in 0..MaxUnits
  BY <1>1
<1> QED
  BY <1>2, <1>3, <1>4, <1>5, <1>6, <1>7, TypeParts DEF IInv

\* In a row the two copies of every arena header agree.
LEMMA SameCopy ==
  ASSUME TypeOK, CopyInv, NEW S \in SUBSET Unit, NEW n \in 0..MaxUnits, Sound(S, n)
  PROVE  \A u \in S : pa[u] = dPa[u]
<1>1. \A u \in S : u \in Unit /\ u < n
  BY DEF Sound, Row
<1>2. pc = "growPersist" => UnitOf(nextMapOffset) = n
  BY AtType DEF Sound, GrowInv, Growing
<1>3. n \in Nat /\ \A u \in S : u # n
  BY <1>1, GrowthAssumption DEF Unit
<1> QED
  BY <1>1, <1>2, <1>3 DEF CopyInv

\* The row of a file without arenas is empty.
LEMMA EmptyRow == ASSUME NEW S \in SUBSET Unit, NEW p, Row(S, 0, p) PROVE S = {}
BY GrowthAssumption DEF Row, Unit

\* A new process: what is in the file decides.
LEMMA RestartStep ==
  ASSUME Restart, FileType', npage' \in Requests \cup {0}, grown' \subseteq [unit : Unit, size : Nat],
         crashes' \in 0..MaxCrashes, truncated' = FALSE, pa' = dPa',
         NEW S \in SUBSET Unit, NEW n \in 0..MaxUnits,
         Row(S, n, pa'), HeadInv(n)', LenInv(n)', GrownInv(S)'
  PROVE  IInv'
<1>1. 0 \in Unit
  BY GrowthAssumption DEF Unit
<1>2. WorkType'
  <2>1. pc' \in PCs
    BY DEF Restart, PCs
  <2> QED
    BY <2>1 DEF WorkType, Restart
<1>3. HeapType'
  BY <1>1 DEF HeapType, Restart, NoSpace
<1>4. CopyInv' /\ FreshInv' /\ GotInv'
  BY DEF CopyInv, FreshInv, Fresh, GotInv, Restart, Growing, PageSize
<1>5. WalkInv(S, n)'
  BY DEF WalkInv, Restart
<1>6. GrowInv(S, n)'
  BY DEF GrowInv, Restart, Growing
<1>7. MapInv(S)' /\ ReachInv(S)'
  BY DEF MapInv, ReachInv, Restart, Running
<1>8. CurInv(S)'
  BY DEF CurInv, Restart
<1>9. Sound(S, n)'
  BY <1>5, <1>6, <1>7, <1>8 DEF Sound
<1> QED
  BY <1>2, <1>3, <1>4, <1>9, Assemble

\* The parts of the invariant of a file that nobody truncated.
LEMMA Parts ==
  ASSUME IInv, truncated = FALSE, NEW S \in SUBSET Unit, NEW n \in 0..MaxUnits, Sound(S, n)
  PROVE  /\ FileType /\ WorkType /\ HeapType /\ CopyInv /\ FreshInv /\ GotInv
         /\ n \in Nat /\ MaxUnits \in Nat \ {0}
         /\ Row(S, n, pa) /\ Row(S, n, dPa) /\ HeadInv(n) /\ LenInv(n) /\ WalkInv(S, n)
         /\ GrowInv(S, n) /\ MapInv(S) /\ ReachInv(S) /\ CurInv(S) /\ GrownInv(S)
<1>1. FileType /\ WorkType /\ HeapType /\ CopyInv /\ FreshInv /\ GotInv
  BY TypeParts DEF IInv
<1>2. n \in Nat /\ MaxUnits \in Nat \ {0}
  BY GrowthAssumption
<1> QED
  BY <1>1, <1>2 DEF Sound

\* A step that leaves the arena headers and the mapped arenas alone keeps the
\* invariant when it keeps the words of the file header, the length, the walk
\* and the growth in order.
LEMMA HeaderStep ==
  ASSUME IInv, truncated = FALSE, NEW S \in SUBSET Unit, NEW n \in 0..MaxUnits, Sound(S, n),
         UNCHANGED <<pa, dPa, curArena, given, reserved, got, grown, ends>>,
         fsize' \in Nat, magic' \in BOOLEAN, dMagic' \in BOOLEAN,
         mappedSize' \in Nat, dMappedSize' \in Nat,
         pc' \in PCs, pc' = "off" => pc = "off", pc' = "growPersist" <=> pc = "growPersist",
         walked' \in Nat, npage' \in Requests \cup {0}, asize' \in Nat, nextMapOffset' \in Nat,
         pc' = "growPersist" => nextMapOffset' = nextMapOffset,
         pc' \notin Growing \cup {"growFinish"} =>
           npage' = npage /\ pc \notin Growing \cup {"growFinish"},
         HeadInv(n)', LenInv(n)', WalkInv(S, n)', GrowInv(S, n)', ReachInv(S)'
  PROVE  IInv'
<1>1. /\ FileType /\ WorkType /\ HeapType /\ CopyInv /\ FreshInv /\ GotInv
      /\ Row(S, n, pa) /\ Row(S, n, dPa) /\ MapInv(S) /\ CurInv(S) /\ GrownInv(S)
  BY Parts
<1>2. FileType'
  BY <1>1 DEF FileType
<1>3. WorkType'
  BY <1>1 DEF WorkType, ends
<1>4. HeapType'
  BY <1>1 DEF HeapType
<1>5. CopyInv'
  BY <1>1 DEF CopyInv
<1>6. FreshInv'
  BY <1>1 DEF FreshInv, Fresh
<1>7. GotInv'
  BY <1>1 DEF GotInv
<1>8. MapInv(S)' /\ CurInv(S)' /\ GrownInv(S)'
  BY <1>1 DEF MapInv, CurInv, GrownInv
<1>9. Row(S, n, pa)' /\ Row(S, n, dPa)'
  BY <1>1
<1>10. Sound(S, n)'
  BY <1>8, <1>9 DEF Sound
<1>11. truncated' = FALSE
  BY DEF ends
<1> QED
  BY <1>2, <1>3, <1>4, <1>5, <1>6, <1>7, <1>10, <1>11, Assemble

------------------------------------------------------------------------------
(* The first initialization and verifyMetadata.                            *)

\* PmemInit maps the file header and reads the magic.
LEMMA PmemInitStep ==
  ASSUME IInv, truncated = FALSE, NEW S \in SUBSET Unit, NEW n \in 0..MaxUnits, Sound(S, n), PmemInit
  PROVE  IInv'
<1>1. /\ FileType /\ WorkType /\ HeapType /\ n \in Nat
      /\ HeadInv(n) /\ LenInv(n) /\ GrowInv(S, n)
  BY Parts
<1>2. fsize' \in Nat /\ fsize' >= fsize /\ fsize' >= PmemHeaderSize
  BY <1>1, UnitBytes DEF PmemInit, MapFile, Extended, FileType
<1>3. HeadInv(n)'
  BY <1>1 DEF PmemInit, HeadInv, Unstarted, header, SizeOf, FileType
<1>4. LenInv(n)'
  BY <1>1, <1>2, AtType, UnitBytes DEF PmemInit, LenInv, Growing, FileType
<1>5. WalkInv(S, n)' /\ ReachInv(S)'
  BY DEF PmemInit, WalkInv, ReachInv, Running
<1>6. GrowInv(S, n)'
  BY <1>1 DEF PmemInit, GrowInv, Starting, Growing, heap
<1> QED
  BY <1>1, <1>2, <1>3, <1>4, <1>5, <1>6, HeaderStep
     DEF PmemInit, header, heap, FileType, WorkType, HeapType, PCs, Growing

\* The file header cannot be mapped.
LEMMA HeaderUnmappedStep ==
  ASSUME IInv, truncated = FALSE, NEW S \in SUBSET Unit, NEW n \in 0..MaxUnits, Sound(S, n),
         HeaderUnmapped
  PROVE  IInv'
<1>1. /\ FileType /\ WorkType /\ HeapType /\ n \in Nat
      /\ HeadInv(n) /\ LenInv(n) /\ GrowInv(S, n)
  BY Parts
<1>2. fsize' \in Nat /\ fsize' >= fsize
  BY <1>1, UnitBytes DEF HeaderUnmapped, MapFileFails, Extended, FileType
<1>3. HeadInv(n)'
  BY <1>1 DEF HeaderUnmapped, HeadInv, Unstarted, header, SizeOf, FileType
<1>4. LenInv(n)'
  BY <1>1, <1>2, AtType DEF HeaderUnmapped, LenInv, Growing, FileType
<1>5. WalkInv(S, n)' /\ ReachInv(S)'
  BY DEF HeaderUnmapped, WalkInv, ReachInv, Running
<1>6. GrowInv(S, n)'
  BY <1>1 DEF HeaderUnmapped, GrowInv, Starting, Growing, heap
<1> QED
  BY <1>1, <1>2, <1>3, <1>4, <1>5, <1>6, HeaderStep
     DEF HeaderUnmapped, header, heap, FileType, WorkType, HeapType, PCs, Growing

\* The first initialization: the size is written, made durable, the magic is
\* written.
LEMMA FirstInitStep ==
  ASSUME IInv, truncated = FALSE, NEW S \in SUBSET Unit, NEW n \in 0..MaxUnits, Sound(S, n),
         InitSize \/ InitSizePersist \/ InitMagic
  PROVE  IInv'
<1>1. /\ FileType /\ WorkType /\ HeapType /\ n \in Nat
      /\ HeadInv(n) /\ LenInv(n) /\ GrowInv(S, n)
  BY Parts
<1>2. fsize' = fsize /\ UNCHANGED <<pa, dPa, walked, npage, asize, heap, got, grown, ends>>
  BY DEF InitSize, InitSizePersist, InitMagic, durable, header
<1>3. HeadInv(n)'
  <2>1. CASE InitSize
    BY <1>1, <2>1 DEF InitSize, HeadInv, Unstarted, durable, SizeOf, FileType
  <2>2. CASE InitSizePersist
    BY <1>1, <2>2 DEF InitSizePersist, HeadInv, Unstarted, header, SizeOf, FileType
  <2>3. CASE InitMagic
    BY <1>1, <2>3 DEF InitMagic, HeadInv, Unstarted, durable, SizeOf, FileType
  <2> QED
    BY <2>1, <2>2, <2>3
<1>4. pc \in {"initSize", "initSizePersist", "initMagic"}
      /\ pc' \in {"initSizePersist", "initMagic", "initMagicPersist"}
  BY DEF InitSize, InitSizePersist, InitMagic
<1>5. LenInv(n)'
  BY <1>1, <1>2, <1>4 DEF LenInv, Growing
<1>6. WalkInv(S, n)' /\ ReachInv(S)'
  BY <1>4 DEF WalkInv, ReachInv, Running
<1>7. GrowInv(S, n)'
  BY <1>1, <1>2, <1>4 DEF GrowInv, Starting, Growing, heap
<1>8. FileType'
  BY <1>1, <1>2, UnitBytes DEF FileType, InitSize, InitSizePersist, InitMagic, durable, header
<1> QED
  BY <1>1, <1>2, <1>3, <1>4, <1>5, <1>6, <1>7, <1>8, HeaderStep
     DEF heap, FileType, WorkType, HeapType, PCs, Growing

\* The magic is made durable: the program runs, on a file without arenas.
LEMMA InitMagicPersistStep ==
  ASSUME IInv, truncated = FALSE, NEW S \in SUBSET Unit, NEW n \in 0..MaxUnits, Sound(S, n),
         InitMagicPersist
  PROVE  IInv'
<1>1. /\ FileType /\ WorkType /\ HeapType /\ n \in Nat
      /\ HeadInv(n) /\ LenInv(n) /\ GrowInv(S, n) /\ Row(S, n, pa)
  BY Parts
<1>2. n = 0 /\ S = {}
  <2>1. n = 0
    BY <1>1 DEF HeadInv, InitMagicPersist
  <2> QED
    BY <1>1, <2>1, EmptyRow
<1>3. HeadInv(n)'
  BY <1>1 DEF InitMagicPersist, HeadInv, Unstarted, header, SizeOf, FileType
<1>4. LenInv(n)'
  BY <1>1 DEF InitMagicPersist, LenInv, Growing
<1>5. WalkInv(S, n)' /\ ReachInv(S)'
  BY <1>2 DEF InitMagicPersist, WalkInv, ReachInv
<1>6. GrowInv(S, n)'
  BY <1>1, <1>2, AtZero DEF InitMagicPersist, GrowInv, Starting, Growing, heap
<1> QED
  BY <1>1, <1>3, <1>4, <1>5, <1>6, HeaderStep
     DEF InitMagicPersist, header, heap, FileType, WorkType, HeapType, PCs, Growing

\* The length of the file is at least the mapped size.
LEMMA VerifySizeStep ==
  ASSUME IInv, truncated = FALSE, NEW S \in SUBSET Unit, NEW n \in 0..MaxUnits, Sound(S, n),
         VerifySize
  PROVE  IInv'
<1>1. /\ FileType /\ WorkType /\ HeapType /\ n \in Nat
      /\ HeadInv(n) /\ LenInv(n) /\ GrowInv(S, n) /\ WalkInv(S, n) /\ Row(S, n, pa)
  BY Parts
<1>2. magic /\ mappedSize = SizeOf(n)
  BY <1>1 DEF HeadInv, VerifySize, Unstarted
<1>3. fsize >= mappedSize
  BY <1>1, <1>2 DEF LenInv, SizeOf, VerifySize
<1>4. mappedSize = PmemHeaderSize <=> n = 0
  BY <1>1, <1>2, AtType, UnitBytes DEF SizeOf
<1>5. pc' = IF n = 0 THEN "run" ELSE "verifyArenas"
  BY <1>1, <1>3, <1>4 DEF VerifySize, FileType
<1>6. n = 0 => S = {}
  BY <1>1, EmptyRow
<1>7. HeadInv(n)'
  BY <1>1, <1>2, <1>5 DEF VerifySize, HeadInv, Unstarted, header, durable, SizeOf
<1>8. LenInv(n)'
  BY <1>1, <1>5 DEF VerifySize, LenInv, Growing, durable
<1>9. WalkInv(S, n)'
  <2>1. n > 0 => 0 \in S
    BY <1>1 DEF Row
  <2> QED
    BY <1>1, <1>5, <2>1, AtZero DEF VerifySize, WalkInv
<1>10. ReachInv(S)'
  BY <1>5, <1>6 DEF ReachInv, Running
<1>11. GrowInv(S, n)'
  BY <1>1, <1>5, AtZero DEF VerifySize, GrowInv, Starting, Growing, heap
<1> QED
  BY <1>1, <1>5, <1>7, <1>8, <1>9, <1>10, <1>11, HeaderStep
     DEF VerifySize, header, durable, heap, FileType, WorkType, HeapType, PCs, Growing

LEMMA VerifySizeFailsStep ==
  ASSUME IInv, truncated = FALSE, NEW S \in SUBSET Unit, NEW n \in 0..MaxUnits, Sound(S, n),
         VerifySizeFails
  PROVE  IInv'
<1>1. /\ FileType /\ WorkType /\ HeapType /\ n \in Nat
      /\ HeadInv(n) /\ LenInv(n) /\ GrowInv(S, n)
  BY Parts
<1>2. HeadInv(n)'
  BY <1>1 DEF VerifySizeFails, HeadInv, Unstarted, header, durable, SizeOf
<1>3. LenInv(n)'
  BY <1>1 DEF VerifySizeFails, LenInv, Growing, durable
<1>4. WalkInv(S, n)' /\ ReachInv(S)'
  BY DEF VerifySizeFails, WalkInv, ReachInv, Running
<1>5. GrowInv(S, n)'
  BY <1>1 DEF VerifySizeFails, GrowInv, Starting, Growing, heap
<1> QED
  BY <1>1, <1>2, <1>3, <1>4, <1>5, HeaderStep
     DEF VerifySizeFails, header, durable, heap, FileType, WorkType, HeapType, PCs, Growing

\* Where verifyMetadata and mapArenas stand: at the end, or at an arena of the row.
LEMMA WalkPlace ==
  ASSUME IInv, truncated = FALSE, NEW S \in SUBSET Unit, NEW n \in 0..MaxUnits, Sound(S, n),
         pc \in {"verifyArenas", "map"}
  PROVE  /\ magic /\ n > 0 /\ mappedSize = At(n) /\ walked <= mappedSize
         /\ walked < mappedSize =>
              \E u \in S, v \in S \cup {n} : /\ walked = At(u) /\ UnitOf(walked) = u
                                             /\ At(v) <= At(n)
                                             /\ Stretch(S, n, pa, u, v)
<1>1. FileType /\ n \in Nat /\ HeadInv(n) /\ WalkInv(S, n) /\ Row(S, n, pa)
  BY Parts
<1>2. magic /\ n > 0
  BY <1>1 DEF HeadInv, WalkInv, Unstarted
<1>3. mappedSize = At(n)
  BY <1>1, <1>2 DEF HeadInv, SizeOf
<1>4. PICK u \in S \cup {n} : walked = At(u)
  BY <1>1 DEF WalkInv
<1>5. CASE u = n
  BY <1>1, <1>2, <1>3, <1>4, <1>5, AtType
<1>6. CASE u \in S
  <2>1. u \in Nat /\ u < n
    BY <1>1, <1>6, RowArena
  <2>2. PICK v \in S \cup {n} : Stretch(S, n, pa, u, v)
    BY <1>1, <1>6, RowArena
  <2>7. v \in Nat /\ v <= n
    BY <2>2 DEF Stretch
  <2>3. At(u) \in Nat /\ At(n) \in Nat /\ At(v) \in Nat /\ UnitOf(At(u)) = u
    BY <1>1, <2>1, <2>7, AtType
  <2>4. At(u) < At(n)
    BY <1>1, <2>1, AtLess
  <2>5. At(v) <= At(n)
    BY <1>1, <2>3, <2>7, AtLess
  <2>6. walked <= mappedSize
    BY <1>3, <1>4, <2>3, <2>4
  <2> QED
    BY <1>2, <1>3, <1>4, <1>6, <2>1, <2>2, <2>3, <2>5, <2>6
<1> QED
  BY <1>4, <1>5, <1>6

\* verifyMetadata finds an arena header at every place it comes to.
LEMMA VerifyArenaStep ==
  ASSUME IInv, truncated = FALSE, NEW S \in SUBSET Unit, NEW n \in 0..MaxUnits, Sound(S, n),
         VerifyArena
  PROVE  IInv'
<1>1. /\ FileType /\ WorkType /\ HeapType /\ n \in Nat
      /\ HeadInv(n) /\ LenInv(n) /\ GrowInv(S, n) /\ WalkInv(S, n)
  BY Parts
<1>2. pc = "verifyArenas" /\ walked < mappedSize
  BY DEF VerifyArena
<1>3. PICK u \in S, v \in S \cup {n} : /\ walked = At(u) /\ UnitOf(walked) = u
                                       /\ At(v) <= At(n)
                                       /\ Stretch(S, n, pa, u, v)
  BY <1>2, WalkPlace
<1>4. n > 0
  BY <1>2, WalkPlace
<1>5. walked' = At(v) /\ pc' = pc
  BY <1>3 DEF VerifyArena, ArenaFrom, Stretch
<1>6. fsize' \in Nat /\ fsize' >= fsize
  BY <1>1 DEF VerifyArena, MapFile, Extended, FileType, WorkType, PageSize
<1>7. At(v) \in Nat
  BY <1>3, AtType DEF Stretch
<1>8. HeadInv(n)'
  BY <1>1, <1>2, <1>5 DEF VerifyArena, HeadInv, header
<1>9. LenInv(n)'
  BY <1>1, <1>2, <1>5, <1>6, AtType, UnitBytes DEF LenInv, Growing, FileType
<1>10. WalkInv(S, n)'
  BY <1>2, <1>3, <1>4, <1>5 DEF WalkInv
<1>11. ReachInv(S)'
  BY <1>2, <1>5 DEF ReachInv, Running
<1>12. GrowInv(S, n)'
  BY <1>1, <1>2, <1>5 DEF VerifyArena, GrowInv, Starting, Growing, heap
<1> QED
  BY <1>1, <1>2, <1>5, <1>6, <1>7, <1>8, <1>9, <1>10, <1>11, <1>12, HeaderStep
     DEF VerifyArena, header, heap, FileType, WorkType, HeapType, Growing

\* A mapping fails, in verifyMetadata or in mapArenas.
LEMMA UnmappedStep ==
  ASSUME IInv, truncated = FALSE, NEW S \in SUBSET Unit, NEW n \in 0..MaxUnits, Sound(S, n),
         VerifyUnmapped \/ ArenaUnmapped
  PROVE  IInv'
<1>1. /\ FileType /\ WorkType /\ HeapType /\ n \in Nat
      /\ HeadInv(n) /\ LenInv(n) /\ GrowInv(S, n) /\ WalkInv(S, n)
  BY Parts
<1>2. /\ pc \in {"verifyArenas", "map"} /\ walked < mappedSize /\ pc' = "mapError"
      /\ UNCHANGED <<header, dMagic, dMappedSize, dPa, walked, npage, asize, heap, got, grown, ends>>
  BY DEF VerifyUnmapped, ArenaUnmapped
<1>3. PICK u \in S, v \in S \cup {n} : /\ walked = At(u) /\ UnitOf(walked) = u
                                       /\ At(v) <= At(n)
                                       /\ Stretch(S, n, pa, u, v)
  BY <1>2, WalkPlace
<1>4. pa[UnitOf(walked)].size \in Nat
  BY <1>3, AtType DEF ArenaFrom, Stretch
<1>5. fsize' \in Nat /\ fsize' >= fsize
  BY <1>1, <1>4
     DEF VerifyUnmapped, ArenaUnmapped, MapFileFails, Extended, FileType, WorkType, PageSize
<1>6. HeadInv(n)'
  BY <1>1, <1>2 DEF HeadInv, header, Unstarted
<1>7. LenInv(n)'
  BY <1>1, <1>2, <1>5, AtType DEF LenInv, Growing, FileType
<1>8. WalkInv(S, n)' /\ ReachInv(S)'
  BY <1>2 DEF WalkInv, ReachInv, Running
<1>9. GrowInv(S, n)'
  BY <1>2 DEF GrowInv, Starting, Growing
<1> QED
  BY <1>1, <1>2, <1>5, <1>6, <1>7, <1>8, <1>9, HeaderStep
     DEF header, heap, FileType, WorkType, HeapType, Growing, PCs

\* The sizes add up.
LEMMA VerifyTotalStep ==
  ASSUME IInv, truncated = FALSE, NEW S \in SUBSET Unit, NEW n \in 0..MaxUnits, Sound(S, n),
         VerifyTotal
  PROVE  IInv'
<1>1. /\ FileType /\ WorkType /\ HeapType /\ n \in Nat
      /\ HeadInv(n) /\ LenInv(n) /\ GrowInv(S, n) /\ WalkInv(S, n) /\ Row(S, n, pa)
  BY Parts
<1>2. pc = "verifyArenas" /\ walked >= mappedSize /\ walked' = 0
  BY DEF VerifyTotal
<1>3. n > 0 /\ walked <= mappedSize
  BY <1>2, WalkPlace
<1>4. pc' = "map"
  BY <1>1, <1>2, <1>3 DEF VerifyTotal, FileType, WorkType
<1>5. HeadInv(n)'
  BY <1>1, <1>2, <1>4 DEF VerifyTotal, HeadInv, header, durable, Unstarted
<1>6. LenInv(n)'
  BY <1>1, <1>2, <1>4 DEF VerifyTotal, durable, LenInv, Growing
<1>7. WalkInv(S, n)'
  BY <1>1, <1>2, <1>3, <1>4, AtZero DEF WalkInv, Row
<1>8. ReachInv(S)'
  <2>1. \A u \in S : u \in Nat
    BY GrowthAssumption DEF Unit
  <2>2. \A u \in S : ~(At(u) < 0)
    BY <2>1, AtType
  <2> QED
    BY <1>2, <1>4, <2>2 DEF ReachInv, Running
<1>9. GrowInv(S, n)'
  BY <1>1, <1>2, <1>4 DEF VerifyTotal, GrowInv, Starting, Growing, heap
<1>10. 0 \in Nat /\ "map" \in PCs
  BY DEF PCs
<1> QED
  BY <1>1, <1>2, <1>4, <1>5, <1>6, <1>7, <1>8, <1>9, <1>10, HeaderStep
     DEF VerifyTotal, header, durable, heap, FileType, WorkType, HeapType, Growing

\* All arenas are mapped: the program runs.
LEMMA MapArenasEndStep ==
  ASSUME IInv, truncated = FALSE, NEW S \in SUBSET Unit, NEW n \in 0..MaxUnits, Sound(S, n),
         MapArenasEnd
  PROVE  IInv'
<1>1. /\ FileType /\ WorkType /\ HeapType /\ n \in Nat
      /\ HeadInv(n) /\ LenInv(n) /\ GrowInv(S, n) /\ WalkInv(S, n) /\ Row(S, n, pa) /\ ReachInv(S)
  BY Parts
<1>2. pc = "map" /\ walked >= mappedSize /\ nextMapOffset' = walked /\ pc' = "run"
  BY DEF MapArenasEnd
<1>3. n > 0 /\ mappedSize = At(n) /\ walked <= mappedSize
  BY <1>2, WalkPlace
<1>4. walked = At(n)
  BY <1>1, <1>2, <1>3 DEF FileType, WorkType
<1>5. HeadInv(n)'
  BY <1>1, <1>2 DEF MapArenasEnd, HeadInv, header, durable, Unstarted
<1>6. LenInv(n)'
  BY <1>1, <1>2 DEF MapArenasEnd, durable, LenInv, Growing
<1>7. WalkInv(S, n)'
  BY <1>2 DEF WalkInv
<1>8. ReachInv(S)'
  <2>1. \A u \in S : At(u) < walked
    BY <1>1, <1>4, RowArena, AtLess
  <2> QED
    BY <1>1, <1>2, <2>1 DEF MapArenasEnd, ReachInv
<1>9. GrowInv(S, n)'
  BY <1>2, <1>4 DEF GrowInv, Starting, Growing
<1> QED
  BY <1>1, <1>2, <1>5, <1>6, <1>7, <1>8, <1>9, HeaderStep
     DEF MapArenasEnd, header, durable, FileType, WorkType, HeapType, Growing, PCs

\* mapArenas maps the next arena of the row.
LEMMA MapArenaStep ==
  ASSUME IInv, truncated = FALSE, NEW S \in SUBSET Unit, NEW n \in 0..MaxUnits, Sound(S, n), MapArena
  PROVE  IInv'
<1>1. /\ FileType /\ WorkType /\ HeapType /\ CopyInv /\ GotInv /\ n \in Nat
      /\ Row(S, n, pa) /\ Row(S, n, dPa) /\ HeadInv(n) /\ LenInv(n) /\ GrowInv(S, n)
      /\ MapInv(S) /\ ReachInv(S) /\ GrownInv(S)
  BY Parts
<1>2. /\ pc = "map" /\ pc' = pc /\ walked < mappedSize
      /\ UNCHANGED <<header, dMagic, dMappedSize, dPa, npage, asize, nextMapOffset, curArena, got,
                     grown, ends>>
  BY DEF MapArena
<1>3. n > 0
  BY <1>2, WalkPlace
<1>4. PICK u \in S, v \in S \cup {n} : /\ walked = At(u) /\ UnitOf(walked) = u
                                       /\ At(v) <= At(n)
                                       /\ Stretch(S, n, pa, u, v)
  BY <1>2, WalkPlace
<1> DEFINE size == At(v - u)
<1>5. /\ u \in Unit /\ u \in Nat /\ v \in Nat /\ size \in Nat /\ At(u) \in Nat
      /\ MData(size, At(u)) \in Nat \ {0}
  BY <1>4, AtType, ArenaData DEF Stretch
<1>6. pa[u].size = size /\ pa[u].fileOffset = At(u) /\ walked + size = At(v)
  BY <1>4 DEF Stretch, ArenaFrom
<1> HIDE DEF size
<1>7. /\ fsize' = Extended(walked, size)
      /\ given' = PagesGrow(given, u, 0, size)
      /\ reserved' = [reserved EXCEPT ![u] = MData(size, At(u))]
      /\ walked' = At(v)
  BY <1>4, <1>6 DEF MapArena, MapFile
<1>8. fsize' \in Nat /\ fsize' >= fsize
  BY <1>1, <1>5, <1>7 DEF FileType, WorkType, Extended
<1>9. /\ given' \in [Unit -> SUBSET Nat]
      /\ \A w \in Unit : w # u => given'[w] = given[w]
      /\ given'[u] = given[u] \cup (0 \div PageSize)..((size \div PageSize) - 1)
  <2>1. given \in [Unit -> SUBSET Nat]
    BY <1>1 DEF HeapType
  <2> DEFINE from == 0
  <2>2. from \in Nat /\ u \in Unit /\ size \in Nat
    BY <1>5
  <2> HIDE DEF from
  <2>3. /\ PagesGrow(given, u, from, size) \in [Unit -> SUBSET Nat]
        /\ \A w \in Unit : w # u => PagesGrow(given, u, from, size)[w] = given[w]
        /\ PagesGrow(given, u, from, size)[u]
             = given[u] \cup (from \div PageSize)..((size \div PageSize) - 1)
    BY <2>1, <2>2, PagesGrowType
  <2> QED
    BY <1>7, <2>3 DEF from
<1>10. /\ reserved' \in [Unit -> Nat] /\ reserved'[u] # 0 /\ reserved'[u] = MData(size, At(u))
       /\ \A w \in Unit : w # u => reserved'[w] = reserved[w]
  BY <1>1, <1>5, <1>7 DEF HeapType
<1>11. FileType'
  BY <1>1, <1>2, <1>8 DEF FileType, header
<1>12. WorkType'
  BY <1>1, <1>2, <1>5, <1>7, AtType DEF WorkType, ends
<1>13. HeapType'
  BY <1>1, <1>2, <1>9, <1>10 DEF HeapType
<1>14. CopyInv' /\ FreshInv'
  BY <1>1, <1>2 DEF CopyInv, FreshInv, header
<1>15. GotInv'
  BY <1>1, <1>2 DEF GotInv
<1>16. HeadInv(n)'
  BY <1>1, <1>2 DEF HeadInv, header
<1>17. LenInv(n)'
  BY <1>1, <1>2, <1>8, AtType, UnitBytes DEF LenInv, Growing, FileType
<1>18. WalkInv(S, n)'
  BY <1>2, <1>3, <1>7 DEF WalkInv
<1>19. GrowInv(S, n)'
  BY <1>1, <1>2 DEF GrowInv, Starting, Growing
<1>20. MapInv(S)'
  <2>1. pa' = pa
    BY <1>2 DEF header
  <2>2. \A p \in given'[u] : (p + 1) * PageSize <= size
    <3>1. \A p \in given[u] : (p + 1) * PageSize <= size
      BY <1>1, <1>5, <1>6 DEF MapInv
    <3>2. \A p \in (0 \div PageSize)..((size \div PageSize) - 1) : (p + 1) * PageSize <= size
      BY <1>5, PagesBounds
    <3> QED
      BY <1>9, <3>1, <3>2
  <2> QED
    BY <1>1, <1>6, <1>9, <1>10, <2>1, <2>2 DEF MapInv
<1>21. ReachInv(S)'
  <2>1. ASSUME NEW w \in S, At(w) < At(v) PROVE reserved'[w] # 0
    <3>1. w \in Unit /\ w \in Nat /\ w < v
      BY <1>1, <1>5, <2>1, RowArena, AtLess
    <3>2. w <= u
      BY <1>4, <1>5, <3>1 DEF Stretch
    <3>3. w # u => At(w) < At(u)
      BY <1>5, <3>1, <3>2, AtLess
    <3> QED
      BY <1>1, <1>2, <1>4, <1>10, <3>1, <3>3 DEF ReachInv
  <2> QED
    BY <1>2, <1>7, <2>1 DEF ReachInv, Running
<1>22. CurInv(S)'
  BY <1>1, <1>2 DEF CurInv, GrowInv, Starting
<1>23. GrownInv(S)' /\ Row(S, n, pa)' /\ Row(S, n, dPa)'
  BY <1>1, <1>2 DEF GrownInv, header
<1>24. Sound(S, n)'
  BY <1>16, <1>17, <1>18, <1>19, <1>20, <1>21, <1>22, <1>23 DEF Sound
<1>25. truncated' = FALSE
  BY <1>2 DEF ends
<1> QED
  BY <1>11, <1>12, <1>13, <1>14, <1>15, <1>24, <1>25, Assemble

------------------------------------------------------------------------------
(* mheap.grow.                                                             *)

\* The request is taken from what is left of the current arena.
LEMMA GrowHereStep ==
  ASSUME IInv, truncated = FALSE, NEW S \in SUBSET Unit, NEW n \in 0..MaxUnits, Sound(S, n),
         NEW q \in Requests, GrowHere(q)
  PROVE  IInv'
<1>1. /\ FileType /\ WorkType /\ HeapType /\ CopyInv /\ n \in Nat
      /\ Row(S, n, pa) /\ Row(S, n, dPa) /\ HeadInv(n) /\ LenInv(n) /\ GrowInv(S, n)
      /\ MapInv(S) /\ ReachInv(S) /\ CurInv(S) /\ GrownInv(S)
  BY Parts
<1> DEFINE cu   == curArena.unit
           from == curArena.base
           to   == curArena.base + Ask(q)
<1>2. q \in Nat /\ Ask(q) \in Nat /\ Ask(q) % PageSize = 0 /\ q * PageSize <= Ask(q)
  BY AskBounds, GrowthAssumption
<1>3. /\ pc = "run" /\ pc' = pc /\ to <= curArena.end /\ npage' = q /\ got' = Ask(q)
      /\ given' = PagesGrow(given, cu, from, to)
      /\ curArena' = [curArena EXCEPT !.base = to]
      /\ UNCHANGED <<header, durable, walked, asize, nextMapOffset, reserved, grown, ends>>
  BY DEF GrowHere
<1>4. cu \in Unit /\ from \in Nat /\ to \in Nat /\ curArena.end \in Nat
  BY <1>1, <1>2 DEF HeapType
<1>5. /\ given' \in [Unit -> SUBSET Nat]
      /\ \A w \in Unit : w # cu => given'[w] = given[w]
      /\ given'[cu] = given[cu] \cup (from \div PageSize)..((to \div PageSize) - 1)
  <2>1. given \in [Unit -> SUBSET Nat]
    BY <1>1 DEF HeapType
  <2> HIDE DEF cu, from, to
  <2>2. /\ PagesGrow(given, cu, from, to) \in [Unit -> SUBSET Nat]
        /\ \A w \in Unit : w # cu => PagesGrow(given, cu, from, to)[w] = given[w]
        /\ PagesGrow(given, cu, from, to)[cu]
             = given[cu] \cup (from \div PageSize)..((to \div PageSize) - 1)
    BY <1>4, <2>1, PagesGrowType
  <2> QED
    BY <1>3, <2>2
<1>6. /\ curArena' \in [unit : Unit, base : Nat, end : Nat]
      /\ curArena'.unit = cu /\ curArena'.base = to /\ curArena'.end = curArena.end
  BY <1>1, <1>3, <1>4 DEF HeapType
<1>7. pa' = pa /\ dPa' = dPa
  BY <1>3 DEF header, durable
<1>8. FileType'
  BY <1>1, <1>3 DEF FileType, header, durable
<1>9. WorkType'
  BY <1>1, <1>2, <1>3 DEF WorkType, ends
<1>10. HeapType'
  BY <1>1, <1>3, <1>5, <1>6 DEF HeapType
<1>11. CopyInv' /\ FreshInv'
  BY <1>1, <1>3, <1>7 DEF CopyInv, FreshInv
<1>12. GotInv'
  BY <1>2, <1>3 DEF GotInv, PageSize
<1>13. HeadInv(n)'
  BY <1>1, <1>3 DEF HeadInv, header, durable
<1>14. LenInv(n)'
  BY <1>1, <1>3 DEF LenInv, Growing, durable
<1>15. WalkInv(S, n)'
  BY <1>3 DEF WalkInv
<1>16. GrowInv(S, n)'
  BY <1>1, <1>3 DEF GrowInv, Starting, Growing
<1>17. ReachInv(S)'
  BY <1>1, <1>3 DEF ReachInv, Running
<1>18. \A p \in (from \div PageSize)..((to \div PageSize) - 1) :
         p < to \div PageSize /\ (p + 1) * PageSize <= to /\ p \in Nat
  BY <1>4, PagesBounds
<1>19. MapInv(S)' /\ CurInv(S)'
  <2>1. CASE curArena = NoSpace
    <3>1. from = 0 /\ to = 0 /\ curArena.end = 0
      BY <1>2, <1>3, <2>1 DEF NoSpace
    <3>2. (0 \div PageSize)..((0 \div PageSize) - 1) = {}
      BY DEF PageSize
    <3>3. given'[cu] = given[cu]
      BY <1>5, <3>1, <3>2
    <3>4. curArena' = NoSpace
      BY <1>3, <2>1, <3>1 DEF NoSpace
    <3> QED
      BY <1>1, <1>3, <1>5, <1>7, <3>3, <3>4 DEF MapInv, CurInv
  <2>2. CASE curArena # NoSpace
    <3>1. /\ cu \in S /\ reserved[cu] # 0 /\ curArena.end = pa[cu].size
          /\ from <= curArena.end /\ from % PageSize = 0
          /\ \A p \in given[cu] : p < from \div PageSize
      BY <1>1, <2>2 DEF CurInv
    <3>2. \A p \in given'[cu] : (p + 1) * PageSize <= pa[cu].size
      <4>1. \A p \in given[cu] : (p + 1) * PageSize <= pa[cu].size
        BY <1>1, <1>4, <3>1 DEF MapInv
      <4>2. \A p \in (from \div PageSize)..((to \div PageSize) - 1) : (p + 1) * PageSize <= pa[cu].size
        <5> HIDE DEF from, to
        <5> QED
          BY <1>3, <1>4, <1>18, <3>1 DEF PageSize
      <4> QED
        BY <1>5, <4>1, <4>2
    <3>3. MapInv(S)'
      BY <1>1, <1>3, <1>5, <1>7, <3>1, <3>2 DEF MapInv
    <3>4. from \div PageSize <= to \div PageSize /\ to % PageSize = 0
      BY <1>2, <1>4, <3>1 DEF PageSize
    <3>5. \A p \in given'[cu] : p < to \div PageSize
      <4>1. given[cu] \subseteq Nat /\ from \div PageSize \in Nat /\ to \div PageSize \in Nat
        BY <1>1, <1>4 DEF HeapType, PageSize
      <4>2. \A p \in given[cu] : p < to \div PageSize
        <5> HIDE DEF from, to
        <5> QED
          BY <3>1, <3>4, <4>1
      <4> QED
        BY <1>5, <1>18, <4>2
    <3>6. CurInv(S)'
      BY <1>3, <1>6, <1>7, <3>1, <3>4, <3>5 DEF CurInv
    <3> QED
      BY <3>3, <3>6
  <2> QED
    BY <2>1, <2>2
<1>20. GrownInv(S)' /\ Row(S, n, pa)' /\ Row(S, n, dPa)'
  BY <1>1, <1>3, <1>7 DEF GrownInv
<1>21. Sound(S, n)'
  BY <1>13, <1>14, <1>15, <1>16, <1>17, <1>19, <1>20 DEF Sound
<1>22. truncated' = FALSE
  BY <1>3 DEF ends
<1> QED
  BY <1>8, <1>9, <1>10, <1>11, <1>12, <1>21, <1>22, Assemble

\* A new arena is mapped at the end of the row, whole units long.
LEMMA GrowMapStep ==
  ASSUME IInv, truncated = FALSE, NEW S \in SUBSET Unit, NEW n \in 0..MaxUnits, Sound(S, n),
         NEW q \in Requests, GrowMap(q)
  PROVE  IInv'
<1>1. /\ FileType /\ WorkType /\ HeapType /\ n \in Nat /\ MaxUnits \in Nat
      /\ HeadInv(n) /\ LenInv(n) /\ GrowInv(S, n) /\ ReachInv(S)
  BY Parts
<1>2. /\ pc = "run" /\ pc' = "growHeader" /\ npage' = q
      /\ asize' = ArenaSize(Ask(q), nextMapOffset)
      /\ nextMapOffset + asize' <= At(MaxUnits)
      /\ fsize' = Extended(nextMapOffset, asize')
      /\ UNCHANGED <<header, dMagic, dMappedSize, dPa, walked, heap, got, grown, ends>>
  BY DEF GrowMap, MapFile
<1>3. nextMapOffset = At(n) /\ At(n) \in Nat /\ nextMapOffset' = nextMapOffset
  BY <1>1, <1>2, AtType DEF GrowInv, heap
<1>4. PICK k \in Nat \ {0} : asize' = At(k)
  BY <1>2, NewArena, GrowthAssumption
<1>5. n + k \in 1..MaxUnits
  <2>1. At(n) + At(n + k - n) = At(n + k) /\ n + k - n = k
    BY <1>1, AtDiff
  <2>2. At(n + k) <= At(MaxUnits)
    BY <1>2, <1>3, <1>4, <2>1
  <2>3. At(n + k) \in Nat /\ At(MaxUnits) \in Nat
    BY <1>1, AtType
  <2>4. ~(MaxUnits < n + k)
    BY <1>1, <2>2, <2>3, AtLess
  <2> QED
    BY <1>1, <2>4
<1>6. asize' \in Nat /\ asize' = At(n + k - n)
  <2>1. n + k - n = k
    BY <1>1
  <2> QED
    BY <1>4, <2>1, AtType
<1>7. fsize' \in Nat /\ fsize' >= fsize /\ At(n) + asize' <= fsize'
  BY <1>1, <1>2, <1>3, <1>6 DEF Extended, FileType
<1>8. HeadInv(n)'
  BY <1>1, <1>2 DEF HeadInv, header, Unstarted
<1>9. LenInv(n)'
  BY <1>1, <1>2, <1>3, <1>7, UnitBytes DEF LenInv, FileType
<1>10. WalkInv(S, n)'
  BY <1>2 DEF WalkInv
<1>11. ReachInv(S)'
  BY <1>1, <1>2, <1>3 DEF ReachInv, Running, heap
<1>12. GrowInv(S, n)'
  BY <1>1, <1>2, <1>3, <1>5, <1>6 DEF GrowInv, Starting, Growing
<1>13. pc' \in PCs /\ pc' \in Growing
  BY <1>2 DEF PCs, Growing
<1> QED
  BY <1>1, <1>2, <1>3, <1>6, <1>7, <1>8, <1>9, <1>10, <1>11, <1>12, <1>13, HeaderStep
     DEF header, heap, FileType, WorkType, HeapType

\* The new arena cannot be mapped and the process ends.
LEMMA GrowThrowsStep ==
  ASSUME IInv, truncated = FALSE, NEW S \in SUBSET Unit, NEW n \in 0..MaxUnits, Sound(S, n),
         NEW q \in Requests, GrowThrows(q)
  PROVE  IInv'
<1>1. /\ FileType /\ WorkType /\ HeapType /\ CopyInv /\ n \in Nat
      /\ Row(S, n, pa) /\ HeadInv(n) /\ LenInv(n) /\ GrownInv(S)
  BY Parts
<1>2. /\ pc = "run" /\ Restart
      /\ fsize' \in {fsize, Extended(nextMapOffset, ArenaSize(Ask(q), nextMapOffset))}
      /\ UNCHANGED <<header, dMagic, dMappedSize, dPa, grown, ends>>
  BY DEF GrowThrows, MapFileFails
<1>3. ArenaSize(Ask(q), nextMapOffset) \in Nat
  BY NewArena, GrowthAssumption
<1>4. fsize' \in Nat /\ fsize' >= fsize
  BY <1>1, <1>2, <1>3 DEF Extended, FileType, HeapType
<1>5. FileType'
  BY <1>1, <1>2, <1>4 DEF FileType, header
<1>6. HeadInv(n)'
  BY <1>1, <1>2 DEF HeadInv, Restart, header, Unstarted
<1>7. LenInv(n)'
  BY <1>1, <1>2, <1>4, AtType DEF LenInv, Restart, Growing, FileType
<1>8. /\ pa' = dPa' /\ Row(S, n, pa') /\ GrownInv(S)' /\ truncated' = FALSE
      /\ npage' \in Requests \cup {0} /\ grown' \subseteq [unit : Unit, size : Nat]
      /\ crashes' \in 0..MaxCrashes
  BY <1>1, <1>2 DEF CopyInv, GrownInv, WorkType, Restart, header, ends
<1> QED
  BY <1>2, <1>5, <1>6, <1>7, <1>8, RestartStep

\* The new arena gets its header; no arena of the row is touched.
LEMMA GrowHeaderStep ==
  ASSUME IInv, truncated = FALSE, NEW S \in SUBSET Unit, NEW n \in 0..MaxUnits, Sound(S, n), GrowHeader
  PROVE  IInv'
<1>1. /\ FileType /\ WorkType /\ HeapType /\ CopyInv /\ n \in Nat /\ MaxUnits \in Nat
      /\ Row(S, n, pa) /\ Row(S, n, dPa) /\ HeadInv(n) /\ LenInv(n) /\ GrowInv(S, n)
      /\ MapInv(S) /\ ReachInv(S) /\ CurInv(S) /\ GrownInv(S)
  BY Parts
<1>2. /\ pc = "growHeader" /\ pc' = "growPersist"
      /\ UNCHANGED <<magic, mappedSize, durable, walked, npage, asize, heap, got, grown, ends>>
  BY DEF GrowHeader
<1>3. nextMapOffset = At(n) /\ UnitOf(nextMapOffset) = n /\ At(n) \in Nat
  BY <1>1, <1>2, AtType DEF GrowInv, Growing
<1>4. n \in Unit
  <2>1. PICK v \in 1..MaxUnits : n < v
    BY <1>1, <1>2 DEF GrowInv, Growing
  <2> QED
    BY <1>1, <2>1 DEF Unit
<1>5. pa' = [pa EXCEPT ![n] = [magic |-> TRUE, size |-> asize, fileOffset |-> At(n)]]
  BY <1>3 DEF GrowHeader
<1>6. /\ pa' \in [Unit -> Header]
      /\ pa'[n] = [magic |-> TRUE, size |-> asize, fileOffset |-> At(n)]
      /\ \A u \in Unit : u # n => pa'[u] = pa[u]
  <2>1. [magic |-> TRUE, size |-> asize, fileOffset |-> At(n)] \in Header
    BY <1>1, <1>3 DEF Header, WorkType
  <2> QED
    BY <1>1, <1>4, <1>5, <2>1 DEF FileType
<1>7. \A u \in S : u \in Unit /\ u # n /\ pa'[u] = pa[u]
  BY <1>1, <1>6 DEF Row
<1>8. FileType'
  BY <1>1, <1>2, <1>6 DEF FileType, durable
<1>9. WorkType'
  BY <1>1, <1>2 DEF WorkType, ends, PCs
<1>10. HeapType'
  BY <1>1, <1>2 DEF HeapType, heap
<1>11. CopyInv'
  BY <1>1, <1>2, <1>3, <1>6 DEF CopyInv, durable, heap
<1>12. FreshInv' /\ GotInv'
  BY <1>2 DEF FreshInv, GotInv, Growing
<1>13. Row(S, n, pa)' /\ Row(S, n, dPa)'
  BY <1>1, <1>2, <1>7, RowFrame DEF durable
<1>14. HeadInv(n)'
  BY <1>1, <1>2 DEF HeadInv, durable, Unstarted
<1>15. LenInv(n)'
  BY <1>1, <1>2 DEF LenInv, Growing, durable
<1>16. WalkInv(S, n)'
  BY <1>2 DEF WalkInv
<1>17. GrowInv(S, n)'
  BY <1>1, <1>2, <1>3, <1>6 DEF GrowInv, Starting, Growing, heap
<1>18. MapInv(S)'
  BY <1>1, <1>2, <1>7 DEF MapInv, heap
<1>19. ReachInv(S)'
  BY <1>1, <1>2 DEF ReachInv, Running, heap
<1>20. CurInv(S)'
  BY <1>1, <1>2, <1>7 DEF CurInv, heap
<1>21. GrownInv(S)'
  BY <1>1, <1>2, <1>7 DEF GrownInv
<1>22. Sound(S, n)'
  BY <1>13, <1>14, <1>15, <1>16, <1>17, <1>18, <1>19, <1>20, <1>21 DEF Sound
<1>23. truncated' = FALSE
  BY <1>2 DEF ends
<1> QED
  BY <1>8, <1>9, <1>10, <1>11, <1>12, <1>22, <1>23, Assemble

\* The header of the new arena is made durable.
LEMMA GrowPersistStep ==
  ASSUME IInv, truncated = FALSE, NEW S \in SUBSET Unit, NEW n \in 0..MaxUnits, Sound(S, n), GrowPersist
  PROVE  IInv'
<1>1. /\ FileType /\ WorkType /\ HeapType /\ CopyInv /\ n \in Nat
      /\ Row(S, n, pa) /\ Row(S, n, dPa) /\ HeadInv(n) /\ LenInv(n) /\ GrowInv(S, n)
      /\ MapInv(S) /\ ReachInv(S) /\ CurInv(S) /\ GrownInv(S)
  BY Parts
<1>2. /\ pc = "growPersist" /\ pc' = "growSize"
      /\ UNCHANGED <<header, fsize, dMagic, dMappedSize, walked, npage, asize, heap, got, grown, ends>>
  BY DEF GrowPersist
<1>3. dPa' = pa
  BY <1>1, <1>2 DEF CopyInv, FileType, GrowPersist
<1>4. pa' = pa
  BY <1>2 DEF header
<1>5. FileType'
  BY <1>1, <1>2, <1>3 DEF FileType, header
<1>6. WorkType'
  BY <1>1, <1>2 DEF WorkType, ends, PCs
<1>7. HeapType'
  BY <1>1, <1>2 DEF HeapType, heap
<1>8. CopyInv' /\ FreshInv' /\ GotInv'
  BY <1>2, <1>3, <1>4 DEF CopyInv, FreshInv, GotInv, Growing
<1>9. Row(S, n, pa)' /\ Row(S, n, dPa)'
  BY <1>1, <1>3, <1>4
<1>10. HeadInv(n)'
  BY <1>1, <1>2 DEF HeadInv, header, Unstarted
<1>11. LenInv(n)'
  BY <1>1, <1>2 DEF LenInv, Growing
<1>12. WalkInv(S, n)'
  BY <1>2 DEF WalkInv
<1>13. GrowInv(S, n)'
  BY <1>1, <1>2, <1>4 DEF GrowInv, Starting, Growing, heap
<1>14. MapInv(S)' /\ CurInv(S)' /\ GrownInv(S)'
  BY <1>1, <1>2, <1>4 DEF MapInv, CurInv, GrownInv, heap
<1>15. ReachInv(S)'
  BY <1>1, <1>2 DEF ReachInv, Running, heap
<1>16. Sound(S, n)'
  BY <1>9, <1>10, <1>11, <1>12, <1>13, <1>14, <1>15 DEF Sound
<1>17. truncated' = FALSE
  BY <1>2 DEF ends
<1> QED
  BY <1>5, <1>6, <1>7, <1>8, <1>16, <1>17, Assemble

\* The new arena is counted.
LEMMA GrowSizeStep ==
  ASSUME IInv, truncated = FALSE, NEW S \in SUBSET Unit, NEW n \in 0..MaxUnits, Sound(S, n), GrowSize
  PROVE  IInv'
<1>1. /\ FileType /\ WorkType /\ HeapType /\ n \in Nat
      /\ HeadInv(n) /\ LenInv(n) /\ GrowInv(S, n) /\ ReachInv(S)
  BY Parts
<1>2. /\ pc = "growSize" /\ pc' = "growSizePersist"
      /\ mappedSize' = mappedSize + (asize - HeaderOffset(nextMapOffset))
      /\ UNCHANGED <<magic, pa, durable, walked, npage, asize, heap, got, grown, ends>>
  BY DEF GrowSize
<1>3. magic /\ mappedSize = SizeOf(n) /\ nextMapOffset = At(n) /\ At(n) \in Nat /\ asize \in Nat
  BY <1>1, <1>2, AtType DEF HeadInv, GrowInv, Growing, Unstarted, WorkType
<1>4. mappedSize' = At(n) + asize
  <2>1. CASE n = 0
    BY <1>2, <1>3, <2>1, AtZero, UnitBytes DEF SizeOf, HeaderOffset
  <2>2. CASE n # 0
    <3>1. At(n) # 0
      BY <1>1, <2>2, AtType, UnitBytes DEF PageSize
    <3> QED
      BY <1>2, <1>3, <2>2, <3>1 DEF SizeOf, HeaderOffset
  <2> QED
    BY <2>1, <2>2
<1>5. HeadInv(n)'
  BY <1>1, <1>2, <1>3, <1>4 DEF HeadInv, durable, Unstarted
<1>6. LenInv(n)'
  BY <1>1, <1>2 DEF LenInv, Growing, durable
<1>7. WalkInv(S, n)'
  BY <1>2 DEF WalkInv
<1>8. ReachInv(S)'
  BY <1>1, <1>2 DEF ReachInv, Running, heap
<1>9. GrowInv(S, n)'
  BY <1>1, <1>2 DEF GrowInv, Starting, Growing, heap
<1>10. mappedSize' \in Nat /\ pc' \in PCs
  BY <1>2, <1>3, <1>4 DEF PCs
<1> QED
  BY <1>1, <1>2, <1>5, <1>6, <1>7, <1>8, <1>9, <1>10, HeaderStep
     DEF durable, heap, FileType, WorkType, HeapType, Growing

\* The row with the new arena, from the moment the mapped size counts it.
LEMMA LongerRow ==
  ASSUME IInv, truncated = FALSE, NEW S \in SUBSET Unit, NEW n \in 0..MaxUnits, Sound(S, n),
         pc = "growSizePersist"
  PROVE  \E v \in 1..MaxUnits : /\ n < v /\ v \in Nat /\ asize = At(v - n)
                                /\ At(n) + asize = At(v) /\ SizeOf(v) = At(v)
                                /\ pa[n] = ArenaFrom(n, v)
                                /\ S \cup {n} \in SUBSET Unit
                                /\ Row(S \cup {n}, v, pa)
<1>1. n \in Nat /\ MaxUnits \in Nat /\ Row(S, n, pa) /\ GrowInv(S, n)
  BY Parts
<1>2. PICK v \in 1..MaxUnits : n < v /\ asize = At(v - n)
  BY <1>1 DEF GrowInv, Growing
<1>3. pa[n] = ArenaFrom(n, v)
  BY <1>1, <1>2 DEF GrowInv, Growing, ArenaFrom
<1>4. v \in Nat /\ v # 0
  BY <1>1
<1>5. At(n) + asize = At(v) /\ SizeOf(v) = At(v)
  BY <1>1, <1>2, <1>4, AtDiff DEF SizeOf
<1>6. S \cup {n} \in SUBSET Unit /\ Row(S \cup {n}, v, pa)
  BY <1>1, <1>2, <1>3, RowExtend
<1> QED
  BY <1>2, <1>3, <1>4, <1>5, <1>6

\* The size that counts the new arena is made durable: the row is longer.
LEMMA GrowSizePersistStep ==
  ASSUME IInv, truncated = FALSE, NEW S \in SUBSET Unit, NEW n \in 0..MaxUnits, Sound(S, n),
         GrowSizePersist
  PROVE  IInv'
<1>1. /\ FileType /\ WorkType /\ HeapType /\ CopyInv /\ n \in Nat
      /\ Row(S, n, pa) /\ HeadInv(n) /\ LenInv(n) /\ GrowInv(S, n)
      /\ MapInv(S) /\ ReachInv(S) /\ CurInv(S) /\ GrownInv(S)
  BY Parts
<1>2. /\ pc = "growSizePersist" /\ pc' = "growFinish" /\ dMappedSize' = mappedSize
      /\ UNCHANGED <<header, fsize, dMagic, dPa, walked, npage, asize, heap, got, grown, ends>>
  BY DEF GrowSizePersist
<1>3. PICK v \in 1..MaxUnits : /\ n < v /\ v \in Nat /\ asize = At(v - n)
                                /\ At(n) + asize = At(v) /\ SizeOf(v) = At(v)
                                /\ pa[n] = ArenaFrom(n, v)
                                /\ S \cup {n} \in SUBSET Unit
                                /\ Row(S \cup {n}, v, pa)
  BY <1>2, LongerRow
<1> DEFINE T == S \cup {n}
<1>4. magic /\ mappedSize = At(v) /\ nextMapOffset = At(n) /\ n \in T
  BY <1>1, <1>2, <1>3 DEF HeadInv, GrowInv, Growing, Unstarted
<1>5. pa' = pa /\ dPa' = pa
  BY <1>1, <1>2 DEF CopyInv, header
<1>6. FileType'
  BY <1>1, <1>2 DEF FileType, header
<1>7. WorkType'
  BY <1>1, <1>2 DEF WorkType, ends, PCs
<1>8. HeapType'
  BY <1>1, <1>2 DEF HeapType, heap
<1>9. CopyInv' /\ FreshInv' /\ GotInv'
  BY <1>2, <1>5 DEF CopyInv, FreshInv, GotInv, Growing
<1>10. Row(T, v, pa)' /\ Row(T, v, dPa)'
  BY <1>3, <1>5
<1>11. HeadInv(v)'
  BY <1>1, <1>2, <1>3, <1>4 DEF HeadInv, header, Unstarted
<1>12. LenInv(v)'
  BY <1>1, <1>2, <1>3 DEF LenInv, Growing
<1>13. WalkInv(T, v)'
  BY <1>2 DEF WalkInv
<1>14. GrowInv(T, v)'
  <2>1. n \in Unit /\ n \notin S
    BY <1>1, <1>3 DEF Row
  <2>2. reserved[n] = 0
    BY <1>1, <2>1 DEF MapInv
  <2>3. \A g \in grown : g.unit # n
    BY <1>1, <2>1 DEF GrownInv
  <2>4. pa[n].size = asize
    BY <1>3 DEF ArenaFrom
  <2> QED
    BY <1>1, <1>2, <1>3, <1>4, <1>5, <2>2, <2>3, <2>4 DEF GrowInv, Starting, Growing, heap
<1>15. MapInv(T)' /\ CurInv(T)' /\ GrownInv(T)'
  BY <1>1, <1>2, <1>5 DEF MapInv, CurInv, GrownInv, heap
<1>16. ReachInv(T)'
  BY <1>1, <1>2, <1>4 DEF ReachInv, Running, heap
<1>17. Sound(T, v)'
  BY <1>10, <1>11, <1>12, <1>13, <1>14, <1>15, <1>16 DEF Sound
<1>18. truncated' = FALSE
  BY <1>2 DEF ends
<1>19. T \in SUBSET Unit /\ v \in 0..MaxUnits
  BY <1>3
<1> HIDE DEF T
<1> QED
  BY <1>6, <1>7, <1>8, <1>9, <1>17, <1>18, <1>19, Assemble

\* The rest of the old current arena is given away and the new arena becomes the
\* current one.
LEMMA GrowFinishStep ==
  ASSUME IInv, truncated = FALSE, NEW S \in SUBSET Unit, NEW n \in 0..MaxUnits, Sound(S, n), GrowFinish
  PROVE  IInv'
<1>1. /\ FileType /\ WorkType /\ HeapType /\ CopyInv /\ n \in Nat
      /\ Row(S, n, pa) /\ Row(S, n, dPa) /\ HeadInv(n) /\ LenInv(n) /\ GrowInv(S, n)
      /\ MapInv(S) /\ ReachInv(S) /\ CurInv(S) /\ GrownInv(S)
  BY Parts
<1>2. /\ pc = "growFinish" /\ pc' = "run"
      /\ UNCHANGED <<header, durable, walked, npage, asize, ends>>
  BY DEF GrowFinish
<1>3. PICK u \in S : /\ nextMapOffset = At(u) /\ asize = At(n - u) /\ pa[u].size = asize
                     /\ reserved[u] = 0 /\ \A g \in grown : g.unit # u
  BY <1>1, <1>2 DEF GrowInv
<1>4. u \in Unit /\ u \in Nat /\ u < n /\ At(u) \in Nat /\ UnitOf(nextMapOffset) = u
  BY <1>1, <1>3, RowArena, AtType
<1>5. pa[u].fileOffset = At(u)
  <2>1. PICK v \in S \cup {n} : Stretch(S, n, pa, u, v)
    BY <1>1, RowArena
  <2> QED
    BY <2>1 DEF Stretch, ArenaFrom
<1> DEFINE md    == MData(asize, nextMapOffset)
           nBase == AlignUp(Ask(npage) + md, PallocChunkBytes)
           cu    == curArena.unit
           rest  == PagesGrow(given, cu, curArena.base, curArena.end)
<1>6. /\ asize \in Nat /\ md \in Nat \ {0} /\ nBase \in Nat /\ nBase <= asize
      /\ nBase % PageSize = 0 /\ nBase - md \in Nat /\ nBase - md >= npage * PageSize
  <2>1. asize = ArenaSize(Ask(npage), nextMapOffset)
    BY <1>1, <1>2 DEF GrowInv
  <2>2. npage \in Nat
    BY <1>1, GrowthAssumption DEF WorkType
  <2> QED
    BY <2>1, <2>2, NewArena
<1>7. /\ given' = PagesGrow(rest, u, 0, nBase)
      /\ curArena' = [unit |-> u, base |-> nBase, end |-> asize]
      /\ reserved' = [reserved EXCEPT ![u] = md]
      /\ got' = nBase - md
      /\ grown' = grown \cup {[unit |-> u, size |-> asize]}
      /\ nextMapOffset' = At(n)
  BY <1>1, <1>3, <1>4, AtDiff DEF GrowFinish
<1> HIDE DEF md, nBase, rest
<1>8. pa' = pa /\ dPa' = dPa
  BY <1>2 DEF header, durable
<1>9. /\ rest \in [Unit -> SUBSET Nat]
      /\ \A w \in Unit : w # cu => rest[w] = given[w]
      /\ rest[cu] = given[cu] \cup (curArena.base \div PageSize)..((curArena.end \div PageSize) - 1)
  <2>1. /\ given \in [Unit -> SUBSET Nat] /\ cu \in Unit
        /\ curArena.base \in Nat /\ curArena.end \in Nat
    BY <1>1 DEF HeapType
  <2> HIDE DEF cu
  <2> QED
    BY <2>1, PagesGrowType DEF rest
<1>10. \A w \in Unit : \/ reserved[w] = 0 /\ rest[w] = given[w] /\ given[w] = {}
                       \/ reserved[w] # 0 /\ \A p \in rest[w] : (p + 1) * PageSize <= pa[w].size
  <2>1. CASE curArena = NoSpace
    <3>1. (curArena.base \div PageSize)..((curArena.end \div PageSize) - 1) = {}
      BY <2>1 DEF NoSpace, PageSize
    <3>2. \A w \in Unit : rest[w] = given[w]
      BY <1>9, <3>1
    <3> QED
      BY <1>1, <3>2 DEF MapInv
  <2>2. CASE curArena # NoSpace
    <3>1. /\ cu \in S /\ cu \in Unit /\ reserved[cu] # 0 /\ curArena.end = pa[cu].size
          /\ curArena.base \in Nat /\ curArena.end \in Nat
      BY <1>1, <2>2 DEF CurInv, HeapType
    <3>2. \A p \in (curArena.base \div PageSize)..((curArena.end \div PageSize) - 1) :
            (p + 1) * PageSize <= pa[cu].size
      BY <3>1, PagesBounds
    <3>3. \A p \in rest[cu] : (p + 1) * PageSize <= pa[cu].size
      BY <1>1, <1>9, <3>1, <3>2 DEF MapInv
    <3> QED
      BY <1>1, <1>9, <3>1, <3>3 DEF MapInv
  <2> QED
    BY <2>1, <2>2
<1>11. /\ given' \in [Unit -> SUBSET Nat]
       /\ \A w \in Unit : w # u => given'[w] = rest[w]
       /\ given'[u] = rest[u] \cup (0 \div PageSize)..((nBase \div PageSize) - 1)
  <2> DEFINE from == 0
  <2>1. /\ rest \in [Unit -> SUBSET Nat] /\ u \in Unit /\ from \in Nat /\ nBase \in Nat
        /\ given' = PagesGrow(rest, u, from, nBase)
    BY <1>4, <1>6, <1>7, <1>9
  <2> HIDE DEF from
  <2>2. /\ PagesGrow(rest, u, from, nBase) \in [Unit -> SUBSET Nat]
        /\ \A w \in Unit : w # u => PagesGrow(rest, u, from, nBase)[w] = rest[w]
        /\ PagesGrow(rest, u, from, nBase)[u]
             = rest[u] \cup (from \div PageSize)..((nBase \div PageSize) - 1)
    BY <2>1, PagesGrowType
  <2> QED
    BY <2>1, <2>2 DEF from
<1>12. \A p \in given'[u] : p < nBase \div PageSize /\ (p + 1) * PageSize <= nBase /\ p \in Nat
  <2>1. rest[u] = {}
    BY <1>3, <1>4, <1>10
  <2>2. \A p \in (0 \div PageSize)..((nBase \div PageSize) - 1) :
          p < nBase \div PageSize /\ (p + 1) * PageSize <= nBase /\ p \in Nat
    BY <1>6, PagesBounds
  <2> QED
    BY <1>11, <2>1, <2>2
<1>13. /\ reserved' \in [Unit -> Nat] /\ reserved'[u] = md /\ md # 0
       /\ \A w \in Unit : w # u => reserved'[w] = reserved[w]
  BY <1>1, <1>4, <1>6, <1>7 DEF HeapType
<1>14. FileType'
  BY <1>1, <1>2 DEF FileType, header, durable
<1>15. WorkType'
  <2>1. grown' \subseteq [unit : Unit, size : Nat]
    BY <1>1, <1>4, <1>6, <1>7 DEF WorkType
  <2>2. got' \in Nat /\ pc' \in PCs
    BY <1>2, <1>6, <1>7 DEF PCs
  <2> QED
    BY <1>1, <1>2, <2>1, <2>2 DEF WorkType, ends
<1>16. HeapType'
  <2>1. At(n) \in Nat
    BY <1>1, AtType
  <2> QED
    BY <1>4, <1>6, <1>7, <1>11, <1>13, <2>1 DEF HeapType
<1>17. CopyInv' /\ FreshInv'
  BY <1>1, <1>2, <1>8 DEF CopyInv, FreshInv
<1>18. GotInv'
  BY <1>2, <1>6, <1>7 DEF GotInv
<1>19. HeadInv(n)'
  BY <1>1, <1>2 DEF HeadInv, header, durable, Unstarted
<1>20. LenInv(n)'
  BY <1>1, <1>2 DEF LenInv, Growing, durable
<1>21. WalkInv(S, n)'
  BY <1>2 DEF WalkInv
<1>22. GrowInv(S, n)'
  BY <1>2, <1>7 DEF GrowInv, Starting, Growing
<1>23. MapInv(S)'
  <2>1. \A p \in given'[u] : (p + 1) * PageSize <= pa[u].size
    BY <1>3, <1>6, <1>12 DEF PageSize
  <2>2. reserved'[u] = MData(pa[u].size, pa[u].fileOffset)
    BY <1>3, <1>5, <1>13 DEF md
  <2> QED
    BY <1>1, <1>8, <1>10, <1>11, <1>13, <2>1, <2>2 DEF MapInv
<1>24. ReachInv(S)'
  <2>1. ASSUME NEW w \in S PROVE reserved'[w] # 0
    <3>1. w \in Unit /\ w \in Nat
      BY <1>1, RowArena
    <3>2. w # u => At(w) # nextMapOffset
      BY <1>3, <1>4, <3>1, AtLess
    <3> QED
      BY <1>1, <1>2, <1>13, <3>1, <3>2 DEF ReachInv, Running
  <2> QED
    BY <1>2, <2>1 DEF ReachInv
<1>25. CurInv(S)'
  BY <1>3, <1>6, <1>7, <1>8, <1>12, <1>13 DEF CurInv
<1>26. GrownInv(S)'
  BY <1>1, <1>3, <1>7, <1>8 DEF GrownInv
<1>27. Row(S, n, pa)' /\ Row(S, n, dPa)'
  BY <1>1, <1>8
<1>28. Sound(S, n)'
  BY <1>19, <1>20, <1>21, <1>22, <1>23, <1>24, <1>25, <1>26, <1>27 DEF Sound
<1>29. truncated' = FALSE
  BY <1>2 DEF ends
<1> QED
  BY <1>14, <1>15, <1>16, <1>17, <1>18, <1>28, <1>29, Assemble

------------------------------------------------------------------------------
(* Write-backs, power failures, the end of a process, truncation.          *)

\* A word of the file header is written back on its own.
LEMMA EvictHeaderStep ==
  ASSUME IInv, truncated = FALSE, NEW S \in SUBSET Unit, NEW n \in 0..MaxUnits, Sound(S, n),
         EvictMagic \/ EvictMappedSize
  PROVE  IInv'
<1>1. /\ FileType /\ WorkType /\ HeapType /\ n \in Nat
      /\ HeadInv(n) /\ LenInv(n) /\ WalkInv(S, n) /\ GrowInv(S, n) /\ ReachInv(S)
  BY Parts
<1>2. UNCHANGED <<header, fsize, dPa, pc, walked, npage, asize, heap, got, grown, ends>>
  BY DEF EvictMagic, EvictMappedSize
<1>3. \/ dMagic' = magic /\ dMappedSize' = dMappedSize
      \/ dMagic' = dMagic /\ dMappedSize' = mappedSize
  BY DEF EvictMagic, EvictMappedSize
<1>4. FileType'
  BY <1>1, <1>2, <1>3 DEF FileType, header
<1>5. HeadInv(n)'
  BY <1>1, <1>2, <1>3 DEF HeadInv, header, FileType
<1>6. LenInv(n)'
  BY <1>1, <1>2 DEF LenInv
<1>7. WalkInv(S, n)'
  BY <1>1, <1>2 DEF WalkInv
<1>8. GrowInv(S, n)'
  BY <1>1, <1>2 DEF GrowInv, header, heap
<1>9. ReachInv(S)'
  BY <1>1, <1>2 DEF ReachInv, Running, heap
<1> QED
  BY <1>1, <1>2, <1>4, <1>5, <1>6, <1>7, <1>8, <1>9, HeaderStep
     DEF header, heap, FileType, WorkType, HeapType

\* A word of an arena header is written back on its own: only the arena that is
\* being added has such a word.
LEMMA EvictArenaStep ==
  ASSUME IInv, truncated = FALSE, NEW S \in SUBSET Unit, NEW n \in 0..MaxUnits, Sound(S, n),
         NEW u \in Unit, NEW f \in Fields, EvictArena(u, f)
  PROVE  IInv'
<1>1. /\ FileType /\ WorkType /\ HeapType /\ CopyInv /\ n \in Nat
      /\ Row(S, n, pa) /\ Row(S, n, dPa) /\ HeadInv(n) /\ LenInv(n) /\ WalkInv(S, n)
      /\ GrowInv(S, n) /\ MapInv(S) /\ ReachInv(S) /\ CurInv(S) /\ GrownInv(S)
  BY Parts
<1>2. /\ dPa[u][f] # pa[u][f] /\ dPa' = [dPa EXCEPT ![u][f] = pa[u][f]]
      /\ UNCHANGED <<header, fsize, dMagic, dMappedSize, pc, walked, npage, asize, heap, got, grown,
                     ends>>
  BY DEF EvictArena
<1>3. pc = "growPersist" /\ UnitOf(nextMapOffset) = u
  BY <1>1, <1>2 DEF CopyInv
<1>4. u = n
  BY <1>1, <1>3, AtType DEF GrowInv, Growing
<1>5. pa[u] \in Header /\ dPa[u] \in Header
  BY <1>1 DEF FileType
<1>6. [dPa[u] EXCEPT ![f] = pa[u][f]] \in Header
  <2>1. CASE f = "magic"
    BY <1>5, <2>1 DEF Header
  <2>2. CASE f = "size"
    BY <1>5, <2>2 DEF Header
  <2>3. CASE f = "fileOffset"
    BY <1>5, <2>3 DEF Header
  <2> QED
    BY <2>1, <2>2, <2>3 DEF Fields
<1>7. dPa' = [dPa EXCEPT ![u] = [dPa[u] EXCEPT ![f] = pa[u][f]]]
  BY <1>1, <1>2 DEF FileType
<1>8. dPa' \in [Unit -> Header] /\ \A w \in Unit : w # u => dPa'[w] = dPa[w]
  BY <1>1, <1>6, <1>7 DEF FileType
<1>9. FileType'
  BY <1>1, <1>2, <1>8 DEF FileType, header
<1>10. WorkType'
  BY <1>1, <1>2 DEF WorkType, ends
<1>11. HeapType'
  BY <1>1, <1>2 DEF HeapType, heap
<1>12. CopyInv'
  BY <1>1, <1>2, <1>3, <1>8 DEF CopyInv, header, heap
<1>13. FreshInv' /\ GotInv'
  BY <1>2, <1>3 DEF FreshInv, GotInv, Growing
<1>14. Row(S, n, pa)' /\ Row(S, n, dPa)'
  <2>1. \A w \in S : dPa'[w] = dPa[w]
    BY <1>1, <1>4, <1>8 DEF Row
  <2>2. Row(S, n, dPa')
    BY <1>1, <2>1, RowFrame
  <2> QED
    BY <1>1, <1>2, <2>2 DEF header
<1>15. HeadInv(n)'
  BY <1>1, <1>2 DEF HeadInv, header
<1>16. LenInv(n)' /\ WalkInv(S, n)'
  BY <1>1, <1>2 DEF LenInv, WalkInv
<1>17. GrowInv(S, n)'
  BY <1>1, <1>2 DEF GrowInv, header, heap
<1>18. MapInv(S)' /\ ReachInv(S)' /\ CurInv(S)' /\ GrownInv(S)'
  BY <1>1, <1>2 DEF MapInv, ReachInv, CurInv, GrownInv, Running, header, heap
<1>19. Sound(S, n)'
  BY <1>14, <1>15, <1>16, <1>17, <1>18 DEF Sound
<1>20. truncated' = FALSE
  BY <1>2 DEF ends
<1> QED
  BY <1>9, <1>10, <1>11, <1>12, <1>13, <1>19, <1>20, Assemble

\* A power failure.  When the mapped size that counts a new arena is durable,
\* its header is too: the row is the longer one; otherwise the arena is lost.
LEMMA CrashStep ==
  ASSUME IInv, truncated = FALSE, NEW S \in SUBSET Unit, NEW n \in 0..MaxUnits, Sound(S, n), Crash
  PROVE  IInv'
<1>1. /\ FileType /\ WorkType /\ HeapType /\ CopyInv /\ n \in Nat
      /\ Row(S, n, pa) /\ Row(S, n, dPa) /\ HeadInv(n) /\ LenInv(n) /\ GrownInv(S)
  BY Parts
<1>2. /\ pc \notin {"off", "error", "mapError"} /\ crashes < MaxCrashes /\ crashes' = crashes + 1
      /\ magic' = dMagic /\ mappedSize' = dMappedSize /\ pa' = dPa /\ Restart
      /\ UNCHANGED <<durable, grown, truncated>>
  BY DEF Crash
<1>3. FileType'
  BY <1>1, <1>2 DEF FileType, durable
<1>4. /\ npage' \in Requests \cup {0} /\ grown' \subseteq [unit : Unit, size : Nat]
      /\ crashes' \in 0..MaxCrashes /\ truncated' = FALSE /\ pa' = dPa'
  BY <1>1, <1>2, GrowthAssumption DEF WorkType, Restart, durable
<1>5. \A u \in S : pa'[u] = pa[u]
  <2>1. TypeOK /\ CopyInv
    BY DEF IInv
  <2> QED
    BY <1>2, <2>1, SameCopy
<1>6. GrownInv(S)'
  BY <1>1, <1>2, <1>5 DEF GrownInv
<1>7. CASE pc = "growSizePersist" /\ dMappedSize = mappedSize
  <2>1. PICK v \in 1..MaxUnits : /\ n < v /\ v \in Nat /\ asize = At(v - n)
                                /\ At(n) + asize = At(v) /\ SizeOf(v) = At(v)
                                /\ pa[n] = ArenaFrom(n, v)
                                /\ S \cup {n} \in SUBSET Unit
                                /\ Row(S \cup {n}, v, pa)
    BY <1>7, LongerRow
  <2> DEFINE T == S \cup {n}
  <2>2. pa' = pa
    BY <1>1, <1>2, <1>7 DEF CopyInv
  <2>3. magic /\ dMagic /\ mappedSize = At(v)
    BY <1>1, <1>7, <2>1 DEF HeadInv, Unstarted
  <2>4. HeadInv(v)'
    BY <1>2, <1>7, <2>1, <2>3 DEF HeadInv, Restart, durable
  <2>5. LenInv(v)'
    BY <1>1, <1>2, <1>7, <2>1 DEF LenInv, Restart, Growing, durable
  <2>6. GrownInv(T)'
    BY <1>6 DEF GrownInv
  <2>7. T \in SUBSET Unit /\ v \in 0..MaxUnits /\ Row(T, v, pa')
    BY <2>1, <2>2
  <2> HIDE DEF T
  <2> QED
    BY <1>2, <1>3, <1>4, <2>4, <2>5, <2>6, <2>7, RestartStep
<1>8. CASE ~(pc = "growSizePersist" /\ dMappedSize = mappedSize)
  <2>1. HeadInv(n)'
    <3>1. CASE dMagic
      BY <1>1, <1>2, <1>8, <3>1 DEF HeadInv, Restart, durable, Unstarted, SizeOf, FileType
    <3>2. CASE ~dMagic
      BY <1>1, <1>2, <3>2 DEF HeadInv, Restart, durable, Unstarted, SizeOf, FileType
    <3> QED
      BY <3>1, <3>2
  <2>2. LenInv(n)'
    BY <1>1, <1>2 DEF LenInv, Restart, Growing, durable
  <2>3. Row(S, n, pa')
    BY <1>1, <1>2
  <2> QED
    BY <1>2, <1>3, <1>4, <1>6, <2>1, <2>2, <2>3, RestartStep
<1> QED
  BY <1>7, <1>8

\* The process ends and the file stays as it is.
LEMMA ExitStep ==
  ASSUME IInv, truncated = FALSE, NEW S \in SUBSET Unit, NEW n \in 0..MaxUnits, Sound(S, n), Exit
  PROVE  IInv'
<1>1. /\ FileType /\ WorkType /\ CopyInv /\ n \in Nat
      /\ Row(S, n, pa) /\ HeadInv(n) /\ LenInv(n) /\ GrownInv(S)
  BY Parts
<1>2. pc \in {"run", "error", "mapError"} /\ Restart /\ UNCHANGED <<header, durable, grown, ends>>
  BY DEF Exit
<1>3. FileType'
  BY <1>1, <1>2 DEF FileType, header, durable
<1>4. HeadInv(n)'
  BY <1>1, <1>2 DEF HeadInv, Restart, header, durable, Unstarted
<1>5. LenInv(n)'
  BY <1>1, <1>2 DEF LenInv, Restart, Growing, durable
<1>6. /\ pa' = dPa' /\ Row(S, n, pa') /\ GrownInv(S)' /\ truncated' = FALSE
      /\ npage' \in Requests \cup {0} /\ grown' \subseteq [unit : Unit, size : Nat]
      /\ crashes' \in 0..MaxCrashes
  BY <1>1, <1>2 DEF CopyInv, GrownInv, WorkType, Restart, header, durable, ends
<1> QED
  BY <1>2, <1>3, <1>4, <1>5, <1>6, RestartStep

\* The file is shortened: either a part in use is gone, or the row is intact.
LEMMA TruncateStep ==
  ASSUME IInv, truncated = FALSE, NEW S \in SUBSET Unit, NEW n \in 0..MaxUnits, Sound(S, n),
         NEW u \in Unit, Truncate(u)
  PROVE  IInv'
<1>1. /\ FileType /\ WorkType /\ HeapType /\ FreshInv /\ GotInv /\ n \in Nat
      /\ Row(S, n, pa) /\ HeadInv(n) /\ LenInv(n) /\ GrowInv(S, n) /\ GrownInv(S)
  BY Parts
<1>2. /\ pc = "off" /\ u > 0 /\ fsize' = At(u)
      /\ pa' = [v \in Unit |-> IF v < u THEN pa[v] ELSE NoArena] /\ dPa' = pa'
      /\ truncated' = (truncated \/ At(u) < mappedSize)
      /\ UNCHANGED <<magic, dMagic, mappedSize, dMappedSize, pc, walked, npage, asize, heap, got,
                     grown, crashes>>
  BY DEF Truncate
<1>3. dMagic = magic /\ dMappedSize = mappedSize
  BY DEF Truncate, header
<1>4. u \in Nat /\ At(u) \in Nat /\ HeapArenaBytes <= At(u) /\ PmemHeaderSize < At(u)
  <2>1. u \in Nat
    BY GrowthAssumption DEF Unit
  <2> QED
    BY <1>2, <2>1, AtType, UnitBytes DEF PageSize
<1>5. FileType'
  <2>1. NoArena \in Header
    BY DEF NoArena, Header
  <2>2. pa' \in [Unit -> Header]
    BY <1>1, <1>2, <2>1 DEF FileType
  <2> QED
    BY <1>1, <1>2, <1>4, <2>2 DEF FileType
<1>6. truncated' \in BOOLEAN /\ truncated' = (At(u) < mappedSize)
  BY <1>2
<1>7. WorkType'
  BY <1>1, <1>2, <1>6 DEF WorkType
<1>8. HeapType'
  BY <1>1, <1>2 DEF HeapType, heap
<1>9. CopyInv' /\ FreshInv' /\ GotInv' /\ Fresh /\ Fresh'
  BY <1>1, <1>2 DEF CopyInv, FreshInv, Fresh, GotInv, heap
<1>10. CASE At(u) < mappedSize
  <2>1. magic
    BY <1>1, <1>4, <1>10, UnitBytes DEF HeadInv
  <2>2. truncated' = TRUE
    BY <1>6, <1>10
  <2>3. Cut'
    BY <1>2, <1>3, <1>4, <1>9, <1>10, <2>1 DEF Cut
  <2>4. TypeOK'
    BY <1>5, <1>7, <1>8, TypeParts, PTL
  <2> QED
    BY <1>9, <2>2, <2>3, <2>4 DEF IInv
<1>11. CASE ~(At(u) < mappedSize)
  <2>1. truncated' = FALSE
    BY <1>6, <1>11
  <2>2. n <= u
    <3>1. CASE n = 0
      BY <1>4, <3>1
    <3>2. CASE n # 0
      <4>1. mappedSize = At(n)
        BY <1>1, <1>2, <3>2 DEF HeadInv, SizeOf
      <4> QED
        BY <1>1, <1>4, <1>11, <4>1, AtLess
    <3> QED
      BY <3>1, <3>2
  <2>3. \A w \in S : w \in Unit /\ pa'[w] = pa[w]
    <3>1. \A w \in S : w \in Unit /\ w \in Nat /\ w < n
      BY <1>1, RowArena
    <3> QED
      BY <1>1, <1>2, <1>4, <2>2, <3>1
  <2>4. Row(S, n, pa)' /\ Row(S, n, dPa)'
    <3>1. Row(S, n, pa')
      BY <1>1, <2>3, RowFrame
    <3> QED
      BY <1>2, <3>1
  <2>5. HeadInv(n)'
    BY <1>1, <1>2 DEF HeadInv
  <2>6. LenInv(n)'
    <3>1. At(n) \in Nat /\ ~(At(u) < At(n))
      BY <1>1, <1>4, <2>2, AtLess, AtType
    <3> QED
      BY <1>2, <1>4, <3>1 DEF LenInv, Growing
  <2>7. WalkInv(S, n)' /\ ReachInv(S)'
    BY <1>2 DEF WalkInv, ReachInv, Running
  <2>8. GrowInv(S, n)'
    BY <1>1, <1>2 DEF GrowInv, Starting, Growing, heap
  <2>9. MapInv(S)' /\ CurInv(S)'
    BY <1>9 DEF MapInv, CurInv, Fresh
  <2>10. GrownInv(S)'
    BY <1>1, <1>2, <2>3 DEF GrownInv
  <2>11. Sound(S, n)'
    BY <2>4, <2>5, <2>6, <2>7, <2>8, <2>9, <2>10 DEF Sound
  <2> QED
    BY <1>5, <1>7, <1>8, <1>9, <2>1, <2>11, Assemble
<1> QED
  BY <1>10, <1>11

\* Once a part in use was cut off, only the beginning of PmemInit can run: it
\* finds the file too short, in every run.
LEMMA CutStep == ASSUME IInv, truncated = TRUE, Next PROVE IInv'
<1>1. FileType /\ WorkType /\ HeapType /\ CopyInv /\ FreshInv /\ GotInv /\ Cut
  BY TypeParts DEF IInv
<1>2. /\ pc \in {"off", "verify", "error", "mapError"} /\ magic /\ dMagic
      /\ dMappedSize = mappedSize /\ HeapArenaBytes <= fsize /\ fsize < mappedSize /\ Fresh
      /\ pa = dPa /\ PmemHeaderSize < fsize /\ fsize \in Nat /\ mappedSize \in Nat
  BY <1>1, UnitBytes DEF Cut, CopyInv, FileType
<1>3. SUFFICES /\ FileType' /\ WorkType' /\ HeapType' /\ truncated' = TRUE
               /\ CopyInv' /\ FreshInv' /\ GotInv' /\ Cut'
  <2>1. FileType' /\ WorkType' /\ HeapType' => TypeOK'
    BY TypeParts, PTL
  <2> QED
    BY <1>3, <2>1 DEF IInv
<1>4. CASE PmemInit \/ HeaderUnmapped
  <2>1. fsize' = fsize
    <3>1. Extended(0, PmemHeaderSize) = fsize
      BY <1>2, UnitBytes DEF Extended
    <3> QED
      BY <1>4, <3>1 DEF PmemInit, HeaderUnmapped, MapFile, MapFileFails
  <2>2. /\ pc' \in {"verify", "mapError"} /\ walked' \in {0, walked}
        /\ UNCHANGED <<header, dMagic, dMappedSize, dPa, npage, asize, heap, got, grown, ends>>
    BY <1>2, <1>4 DEF PmemInit, HeaderUnmapped
  <2>3. FileType'
    BY <1>1, <2>1, <2>2 DEF FileType, header
  <2>4. WorkType' /\ truncated' = TRUE
    BY <1>1, <2>2 DEF WorkType, ends, PCs
  <2>5. HeapType'
    BY <1>1, <2>2 DEF HeapType, heap
  <2>6. CopyInv' /\ FreshInv'
    BY <1>2, <2>2 DEF CopyInv, FreshInv, header
  <2>7. GotInv'
    BY <1>1, <1>2, <2>2 DEF GotInv, Growing
  <2>8. Cut'
    BY <1>2, <2>1, <2>2 DEF Cut, Fresh, header, heap
  <2> QED
    BY <2>3, <2>4, <2>5, <2>6, <2>7, <2>8
<1>5. CASE VerifySize \/ VerifySizeFails
  <2>1. /\ pc' \in {"error", "mapError"}
        /\ UNCHANGED <<header, durable, walked, npage, asize, heap, got, grown, ends>>
    BY <1>2, <1>5 DEF VerifySize, VerifySizeFails
  <2>2. FileType'
    BY <1>1, <2>1 DEF FileType, header, durable
  <2>3. WorkType' /\ truncated' = TRUE
    BY <1>1, <2>1 DEF WorkType, ends, PCs
  <2>4. HeapType'
    BY <1>1, <2>1 DEF HeapType, heap
  <2>5. CopyInv' /\ FreshInv'
    BY <1>2, <2>1 DEF CopyInv, FreshInv, header, durable
  <2>6. GotInv'
    BY <1>1, <1>2, <2>1 DEF GotInv, Growing
  <2>7. Cut'
    BY <1>2, <2>1 DEF Cut, Fresh, header, durable, heap
  <2> QED
    BY <2>2, <2>3, <2>4, <2>5, <2>6, <2>7
<1>6. CASE Crash \/ Exit
  <2>1. /\ Restart /\ grown' = grown /\ truncated' = TRUE /\ crashes' \in 0..MaxCrashes
        /\ fsize' = fsize /\ magic' = TRUE /\ dMagic' = TRUE /\ pa' = dPa /\ dPa' = dPa
        /\ mappedSize' = mappedSize /\ dMappedSize' = mappedSize
    <3>1. CASE Crash
      BY <1>1, <1>2, <3>1, GrowthAssumption DEF Crash, durable, WorkType, FileType
    <3>2. CASE Exit
      BY <1>1, <1>2, <3>2 DEF Exit, durable, header, ends, WorkType, FileType
    <3> QED
      BY <1>6, <3>1, <3>2
  <2>2. 0 \in Unit
    BY GrowthAssumption DEF Unit
  <2>3. FileType'
    BY <1>1, <1>2, <2>1 DEF FileType
  <2>4. WorkType'
    BY <1>1, <2>1 DEF WorkType, Restart, PCs
  <2>5. HeapType'
    BY <2>1, <2>2 DEF HeapType, Restart, NoSpace
  <2>6. CopyInv' /\ FreshInv' /\ GotInv'
    BY <2>1 DEF CopyInv, FreshInv, Fresh, GotInv, Restart, PageSize
  <2>7. Cut'
    BY <1>2, <2>1 DEF Cut, Fresh, Restart
  <2> QED
    BY <2>1, <2>3, <2>4, <2>5, <2>6, <2>7
<1>7. CASE \E u \in Unit : Truncate(u)
  <2>1. PICK u \in Unit : Truncate(u)
    BY <1>7
  <2>2. /\ pc = "off" /\ u > 0 /\ At(u) < fsize /\ fsize' = At(u)
        /\ pa' = [v \in Unit |-> IF v < u THEN pa[v] ELSE NoArena] /\ dPa' = pa'
        /\ truncated' = (truncated \/ At(u) < mappedSize)
        /\ UNCHANGED <<magic, dMagic, mappedSize, dMappedSize, pc, walked, npage, asize, heap, got,
                       grown, crashes>>
    BY <2>1 DEF Truncate
  <2>3. At(u) \in Nat /\ HeapArenaBytes <= At(u)
    <3>1. u \in Nat
      BY GrowthAssumption DEF Unit
    <3> QED
      BY <2>2, <3>1, AtType
  <2>4. FileType'
    <3>1. NoArena \in Header
      BY DEF NoArena, Header
    <3>2. pa' \in [Unit -> Header]
      BY <1>1, <2>2, <3>1 DEF FileType
    <3> QED
      BY <1>1, <2>2, <2>3, <3>2 DEF FileType
  <2>5. truncated' = TRUE
    BY <2>2
  <2>6. WorkType'
    BY <1>1, <2>2, <2>5 DEF WorkType
  <2>7. HeapType'
    BY <1>1, <2>2 DEF HeapType, heap
  <2>8. CopyInv' /\ FreshInv' /\ GotInv'
    BY <1>1, <2>2 DEF CopyInv, FreshInv, Fresh, GotInv, heap
  <2>9. Cut'
    BY <1>2, <2>2, <2>3, UnitBytes DEF Cut, Fresh, heap
  <2> QED
    BY <2>4, <2>5, <2>6, <2>7, <2>8, <2>9
<1>8. ~(EvictMagic \/ EvictMappedSize \/ \E u \in Unit, f \in Fields : EvictArena(u, f))
  BY <1>1, <1>2 DEF EvictMagic, EvictMappedSize, EvictArena, FileType
<1>9. ~(InitSize \/ InitSizePersist \/ InitMagic \/ InitMagicPersist \/ VerifyArena \/ VerifyTotal
         \/ MapArena \/ MapArenasEnd \/ VerifyUnmapped \/ ArenaUnmapped)
  BY <1>2 DEF InitSize, InitSizePersist, InitMagic, InitMagicPersist, VerifyArena, VerifyTotal,
              MapArena, MapArenasEnd, VerifyUnmapped, ArenaUnmapped
<1>10. ~(GrowHeader \/ GrowPersist \/ GrowSize \/ GrowSizePersist \/ GrowFinish
          \/ \E q \in Requests : GrowHere(q) \/ GrowMap(q) \/ GrowThrows(q))
  BY <1>2 DEF GrowHeader, GrowPersist, GrowSize, GrowSizePersist, GrowFinish, GrowHere, GrowMap,
              GrowThrows
<1> QED
  BY <1>4, <1>5, <1>6, <1>7, <1>8, <1>9, <1>10 DEF Next

------------------------------------------------------------------------------
(* The theorems.                                                           *)

\* Every step of the program, of the memory and of its surroundings keeps the
\* invariant.
LEMMA NextKeeps == ASSUME IInv, Next PROVE IInv'
<1>1. truncated \in BOOLEAN
  BY DEF IInv, TypeOK
<1>2. CASE truncated = TRUE
  BY <1>2, CutStep
<1>3. CASE truncated = FALSE
  <2>1. PICK S \in SUBSET Unit, n \in 0..MaxUnits : Sound(S, n)
    BY <1>3 DEF IInv
  <2>2. CASE PmemInit \/ HeaderUnmapped
    BY <1>3, <2>1, <2>2, PmemInitStep, HeaderUnmappedStep
  <2>3. CASE InitSize \/ InitSizePersist \/ InitMagic
    BY <1>3, <2>1, <2>3, FirstInitStep
  <2>4. CASE InitMagicPersist
    BY <1>3, <2>1, <2>4, InitMagicPersistStep
  <2>5. CASE VerifySize \/ VerifySizeFails
    BY <1>3, <2>1, <2>5, VerifySizeStep, VerifySizeFailsStep
  <2>6. CASE VerifyArena
    BY <1>3, <2>1, <2>6, VerifyArenaStep
  <2>7. CASE VerifyUnmapped \/ ArenaUnmapped
    BY <1>3, <2>1, <2>7, UnmappedStep
  <2>8. CASE VerifyTotal
    BY <1>3, <2>1, <2>8, VerifyTotalStep
  <2>9. CASE MapArena
    BY <1>3, <2>1, <2>9, MapArenaStep
  <2>10. CASE MapArenasEnd
    BY <1>3, <2>1, <2>10, MapArenasEndStep
  <2>11. CASE \E q \in Requests : GrowHere(q) \/ GrowMap(q) \/ GrowThrows(q)
    <3>1. PICK q \in Requests : GrowHere(q) \/ GrowMap(q) \/ GrowThrows(q)
      BY <2>11
    <3> QED
      BY <1>3, <2>1, <3>1, GrowHereStep, GrowMapStep, GrowThrowsStep
  <2>12. CASE GrowHeader
    BY <1>3, <2>1, <2>12, GrowHeaderStep
  <2>13. CASE GrowPersist
    BY <1>3, <2>1, <2>13, GrowPersistStep
  <2>14. CASE GrowSize
    BY <1>3, <2>1, <2>14, GrowSizeStep
  <2>15. CASE GrowSizePersist
    BY <1>3, <2>1, <2>15, GrowSizePersistStep
  <2>16. CASE GrowFinish
    BY <1>3, <2>1, <2>16, GrowFinishStep
  <2>17. CASE EvictMagic \/ EvictMappedSize
    BY <1>3, <2>1, <2>17, EvictHeaderStep
  <2>18. CASE \E u \in Unit, f \in Fields : EvictArena(u, f)
    BY <1>3, <2>1, <2>18, EvictArenaStep
  <2>19. CASE Crash \/ Exit
    BY <1>3, <2>1, <2>19, CrashStep, ExitStep
  <2>20. CASE \E u \in Unit : Truncate(u)
    BY <1>3, <2>1, <2>20, TruncateStep
  <2> QED
    BY <2>2, <2>3, <2>4, <2>5, <2>6, <2>7, <2>8, <2>9, <2>10, <2>11, <2>12, <2>13, <2>14, <2>15,
       <2>16, <2>17, <2>18, <2>19, <2>20 DEF Next
<1> QED
  BY <1>1, <1>2, <1>3

\* A step that changes nothing keeps the invariant.
LEMMA StutterKeeps == ASSUME IInv, UNCHANGED vars PROVE IInv'
<1>1. TypeOK' /\ CopyInv' /\ FreshInv' /\ GotInv' /\ (truncated' => Cut')
  BY DEF IInv, vars, heap, ends, TypeOK, CopyInv, FreshInv, Fresh, GotInv, Cut
<1>2. ASSUME NEW S \in SUBSET Unit, NEW n \in 0..MaxUnits, Sound(S, n) PROVE Sound(S, n)'
  <2>1. Row(S, n, pa)' /\ Row(S, n, dPa)'
    BY <1>2 DEF Sound, vars
  <2>2. HeadInv(n)' /\ LenInv(n)' /\ WalkInv(S, n)'
    BY <1>2 DEF Sound, vars, HeadInv, LenInv, WalkInv
  <2>3. GrowInv(S, n)'
    BY <1>2 DEF Sound, vars, heap, GrowInv
  <2>4. MapInv(S)' /\ ReachInv(S)' /\ CurInv(S)' /\ GrownInv(S)'
    BY <1>2 DEF Sound, vars, heap, MapInv, ReachInv, Running, CurInv, GrownInv
  <2> QED
    BY <2>1, <2>2, <2>3, <2>4 DEF Sound
<1>3. ~truncated' => \E S \in SUBSET Unit, n \in 0..MaxUnits : Sound(S, n)'
  BY <1>2 DEF IInv, vars, ends
<1> QED
  BY <1>1, <1>3 DEF IInv

\* In every reachable state the arenas of a file that nobody truncated form a
\* row without gaps, which mappedSize counts, and of a truncated file PmemInit
\* never gets beyond the check of the length.
THEOREM RowAlways == Spec => []IInv
<1>1. Init => IInv
  BY InitEstablishes
<1>2. IInv /\ [Next]_vars => IInv'
  BY NextKeeps, StutterKeeps
<1> QED
  BY <1>1, <1>2, PTL DEF Spec

\* No size that PmemInit, mapArenas and grow compute is negative, and none of
\* them leaves the units of the file.
THEOREM TypeCorrect == Spec => []TypeOK
<1>1. IInv => TypeOK
  BY DEF IInv
<1> QED
  BY <1>1, RowAlways, PTL

\* verifyMetadata accepts every file that a power failure or a failed mapping
\* leaves, at whatever store it happened.
THEOREM NeverRejectedAlways == Spec => []NeverRejected
<1>1. IInv => NeverRejected
  BY DEF IInv, NeverRejected, Sound, WalkInv
<1> QED
  BY <1>1, RowAlways, PTL

\* A file that lost a part in use is never put to use.
THEOREM TruncationDetectedAlways == Spec => []TruncationDetected
<1>1. IInv => TruncationDetected
  BY DEF IInv, TruncationDetected, Running, Cut
<1> QED
  BY <1>1, RowAlways, PTL

\* An arena whose growth was completed is mapped, in its place, in every later
\* run, and a later growth does not overwrite it.
THEOREM ArenasKeptAlways == Spec => []ArenasKept
<1>1. ASSUME IInv, Running, NEW g \in grown
      PROVE  /\ reserved[g.unit] # 0
             /\ pa[g.unit] = [magic |-> TRUE, size |-> g.size, fileOffset |-> At(g.unit)]
             /\ At(g.unit) + g.size <= nextMapOffset
  <2>1. truncated = FALSE
    BY <1>1 DEF IInv, TypeOK, Cut, Running
  <2>2. PICK S \in SUBSET Unit, n \in 0..MaxUnits : Sound(S, n)
    BY <1>1, <2>1 DEF IInv
  <2>3. /\ WorkType /\ n \in Nat /\ Row(S, n, pa) /\ GrowInv(S, n) /\ ReachInv(S) /\ GrownInv(S)
    BY <1>1, <2>1, <2>2, Parts
  <2> DEFINE u == g.unit
  <2>4. u \in S /\ u \in Nat /\ u < n /\ g.size = pa[u].size
    BY <2>3, RowArena DEF GrownInv
  <2>5. PICK v \in S \cup {n} : Stretch(S, n, pa, u, v)
    BY <2>3, <2>4, RowArena
  <2>6. /\ v \in Nat /\ v <= n /\ u < v /\ At(u) \in Nat /\ At(v) \in Nat /\ At(n) \in Nat
        /\ pa[u] = ArenaFrom(u, v) /\ At(u) + At(v - u) = At(v)
        /\ \A w \in S : w <= u \/ v <= w
    BY <2>3, <2>4, <2>5, AtType DEF Stretch
  <2>7. g.size = At(v - u) /\ At(u) + g.size = At(v)
    BY <2>4, <2>6 DEF ArenaFrom
  <2>8. CASE pc = "growFinish"
    <3>1. PICK x \in S : /\ nextMapOffset = At(x) /\ asize = At(n - x) /\ pa[x].size = asize
                         /\ reserved[x] = 0 /\ \A h \in grown : h.unit # x
      BY <2>3, <2>8 DEF GrowInv
    <3>2. x \in Nat /\ x < n /\ At(x) \in Nat /\ u # x /\ n - x \in Nat
      BY <2>3, <3>1, RowArena, AtType
    <3>3. At(u) # nextMapOffset
      BY <2>4, <3>1, <3>2, AtLess
    <3>4. PICK y \in S \cup {n} : Stretch(S, n, pa, x, y)
      BY <2>3, RowArena
    <3>5. y = n
      <4>1. y \in Nat /\ y - x \in Nat /\ pa[x].size = At(y - x)
        BY <3>4 DEF Stretch, ArenaFrom
      <4>2. y - x = n - x
        BY <3>1, <3>2, <4>1, AtLess
      <4> QED
        BY <2>3, <3>2, <4>1, <4>2
    <3>6. u < x
      BY <2>4, <3>2, <3>4, <3>5 DEF Stretch
    <3>7. v <= x
      BY <2>4, <2>6, <3>1, <3>2, <3>6
    <3>8. At(v) <= nextMapOffset
      BY <2>6, <3>1, <3>2, <3>7, AtLess
    <3> QED
      BY <1>1, <2>3, <2>4, <2>6, <2>7, <3>3, <3>8 DEF ReachInv, ArenaFrom
  <2>9. CASE pc # "growFinish"
    <3>1. nextMapOffset = At(n)
      BY <1>1, <2>3, <2>9 DEF GrowInv, Growing, Running
    <3>2. At(u) # nextMapOffset
      BY <2>3, <2>4, <3>1, AtLess
    <3>3. At(v) <= nextMapOffset
      BY <2>3, <2>6, <3>1, AtLess
    <3> QED
      BY <1>1, <2>3, <2>4, <2>6, <2>7, <3>2, <3>3 DEF ReachInv, ArenaFrom
  <2> QED
    BY <2>8, <2>9
<1>2. IInv => ArenasKept
  BY <1>1 DEF ArenasKept
<1> QED
  BY <1>2, RowAlways, PTL

\* The page allocator never gets a page twice or a page outside its arena, and
\* the metadata of every mapped arena lies in the pages kept from it.
THEOREM LayoutSoundAlways == Spec => []LayoutSound
<1> DEFINE free == (curArena.base \div PageSize)..((curArena.end \div PageSize) - 1)
<1>1. ASSUME Fresh, HeapType PROVE LayoutSound
  <2>1. 0 \in Unit
    BY GrowthAssumption DEF Unit
  <2>2. given[curArena.unit] = {}
    BY <1>1, <2>1 DEF Fresh, NoSpace
  <2>3. curArena.base <= curArena.end /\ \A u \in Unit : reserved[u] = 0
    BY <1>1 DEF Fresh, NoSpace
  <2> QED
    BY <2>2, <2>3 DEF LayoutSound
<1>2. ASSUME IInv, truncated = FALSE PROVE LayoutSound
  <2>1. PICK S \in SUBSET Unit, n \in 0..MaxUnits : Sound(S, n)
    BY <1>2 DEF IInv
  <2>2. HeapType /\ Row(S, n, pa) /\ MapInv(S) /\ CurInv(S)
    BY <1>2, <2>1, Parts
  <2>3. curArena.base <= curArena.end /\ free \cap given[curArena.unit] = {}
    <3>1. CASE curArena = NoSpace
      <4>1. free = {}
        BY <3>1 DEF NoSpace, PageSize
      <4>2. curArena.base <= curArena.end
        BY <3>1 DEF NoSpace
      <4> QED
        BY <4>1, <4>2
    <3>2. CASE curArena # NoSpace
      <4>1. /\ curArena.base <= curArena.end /\ curArena.base \in Nat /\ curArena.end \in Nat
            /\ curArena.unit \in Unit /\ given[curArena.unit] \subseteq Nat
            /\ \A p \in given[curArena.unit] : p < curArena.base \div PageSize
        BY <2>2, <3>2 DEF CurInv, HeapType
      <4>2. \A p \in free : curArena.base \div PageSize <= p /\ p \in Nat
        BY <4>1, PagesBounds
      <4>3. curArena.base \div PageSize \in Nat
        BY <4>1 DEF PageSize
      <4> HIDE DEF free
      <4>4. ~(\E p \in free : p \in given[curArena.unit])
        BY <4>1, <4>2, <4>3
      <4> QED
        BY <4>1, <4>4
    <3> QED
      BY <3>1, <3>2
  <2>4. ASSUME NEW u \in Unit, reserved[u] # 0
        PROVE  /\ \A p \in given[u] : (p + 1) * PageSize <= pa[u].size
               /\ HeaderOffset(pa[u].fileOffset) + MetadataSize(pa[u].size - reserved[u])
                    <= reserved[u]
    <3>1. /\ u \in S /\ reserved[u] = MData(pa[u].size, pa[u].fileOffset)
          /\ \A p \in given[u] : (p + 1) * PageSize <= pa[u].size
      BY <2>2, <2>4 DEF MapInv
    <3>2. PICK v \in S \cup {n} : Stretch(S, n, pa, u, v)
      BY <2>2, <3>1, RowArena
    <3>3. v - u \in Nat \ {0} /\ pa[u].size = At(v - u)
      BY <3>2 DEF Stretch, ArenaFrom
    <3> QED
      BY <3>1, <3>3, ArenaData
  <2> QED
    BY <2>3, <2>4 DEF LayoutSound
<1>3. IInv => LayoutSound
  <2>1. ASSUME IInv, truncated PROVE LayoutSound
    BY <1>1, <2>1, TypeParts DEF IInv, Cut
  <2> QED
    BY <1>2, <2>1 DEF IInv, TypeOK
<1> QED
  BY <1>3, RowAlways, PTL

\* A growth that comes back has added at least the pages it was asked for.
THEOREM GrowthSufficesAlways == Spec => []GrowthSuffices
<1>1. IInv => GrowthSuffices
  BY DEF IInv, GrowthSuffices, GotInv, Growing
<1> QED
  BY <1>1, RowAlways, PTL
==============================================================================
