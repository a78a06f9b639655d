------------------------------- MODULE HeapFile -------------------------------
(***************************************************************************)
(* The persistent memory file across runs: PmemInit writes and checks the  *)
(* file header, verifyMetadata walks the arenas, mapArenas maps them, and  *)
(* mheap.grow adds an arena while the program runs, with a power failure   *)
(* possible between any two stores.                                        *)
(*                                                                         *)
(* Every persistent word exists as the CPU sees it (magic, mappedSize,     *)
(* pa) and as a power failure leaves it (dMagic, dMappedSize, dPa).        *)
(* PersistRange copies the words of its range; a word may also be written  *)
(* back on its own (the Evict actions).  The length of the file is set by  *)
(* system calls and is durable at once.                                    *)
(*                                                                         *)
(* Initialization is one goroutine and growth holds h.lock, so one program *)
(* counter is enough.                                                      *)
(***************************************************************************)
EXTENDS Layout, FiniteSets

CONSTANTS Requests,   \* the numbers of pages the heap may be asked to grow by
          MaxUnits,   \* bound: the file's length in units of heapArenaBytes
          MaxCrashes  \* bound: power failures in a behaviour

\* verifyMetadata reads both headers from the first page of the file.
ASSUME FirstPageAssumption == /\ PmemHeaderSize > 0 /\ PArenaHeaderSize > 0
                              /\ PmemHeaderSize + PArenaHeaderSize < PageSize
ASSUME GrowthAssumption == Requests \subseteq Nat /\ MaxUnits \in Nat \ {0} /\ MaxCrashes \in Nat

VARIABLES fsize,                    \* the length of the file
          magic, dMagic,            \* pmemHeader.magic = hdrMagic
          mappedSize, dMappedSize,  \* pmemHeader.mappedSize
          pa, dPa,                  \* the arena header at each multiple of heapArenaBytes
          pc,                       \* the next statement
          walked,                   \* totalArenaSize of verifyMetadata, mapped of mapArenas
          npage, asize,             \* grow: the request, the size of the new arena
          nextMapOffset,            \* pmemInfo.nextMapOffset
          curArena,                 \* h.curArena[isPersistent]
          given,                    \* the pages of each arena in h.pages[isPersistent]
          reserved,                 \* the metadata bytes of each mapped arena
          got,                      \* data bytes that the last grow added
          grown,                    \* history: arenas whose growth was completed
          truncated,                \* somebody cut off a part of the file that is in use
          crashes

header   == <<magic, mappedSize, pa>>
durable  == <<fsize, dMagic, dMappedSize, dPa>>
ends     == <<truncated, crashes>>
heap     == <<nextMapOffset, curArena, given, reserved>>
vars     == <<fsize, magic, dMagic, mappedSize, dMappedSize, pa, dPa, pc, walked, npage,
              asize, heap, got, grown, ends>>

Unit == 0..(MaxUnits - 1)
Fields == {"magic", "size", "fileOffset"}
NoArena == [magic |-> FALSE, size |-> 0, fileOffset |-> 0]
At(u) == u * HeapArenaBytes
UnitOf(offset) == offset \div HeapArenaBytes

PallocChunkPages == PallocChunkBytes \div PageSize

\* Variant: the request is rounded down to whole chunks.
AskDown(n) == (n \div PallocChunkPages) * PallocChunkBytes

Ask(n) == AlignUp(n, PallocChunkPages) * PageSize

PCs == {"off", "initSize", "initSizePersist", "initMagic", "initMagicPersist", "verify",
        "verifyArenas", "map", "error", "mapError", "run", "growHeader", "growPersist", "growSize",
        "growSizePersist", "growFinish"}

\* Every word of the file header and of the arena headers, and the volatile state
\* of mapArenas and grow, stay in their ranges: no size underflows (the code
\* computes with unsigned integers), no growth leaves the units of the file.
TypeOK == /\ fsize \in Nat
          /\ magic \in BOOLEAN /\ dMagic \in BOOLEAN
          /\ mappedSize \in Nat /\ dMappedSize \in Nat
          /\ pa \in [Unit -> [magic : BOOLEAN, size : Nat, fileOffset : Nat]]
          /\ dPa \in [Unit -> [magic : BOOLEAN, size : Nat, fileOffset : Nat]]
          /\ pc \in PCs
          /\ walked \in Nat
          /\ npage \in Requests \cup {0}
          /\ asize \in Nat
          /\ nextMapOffset \in Nat
          /\ curArena \in [unit : Unit, base : Nat, end : Nat]
          /\ given \in [Unit -> SUBSET Nat]
          /\ reserved \in [Unit -> Nat]
          /\ got \in Nat
          /\ grown \subseteq [unit : Unit, size : Nat]
          /\ truncated \in BOOLEAN
          /\ crashes \in 0..MaxCrashes

NoSpace == [unit |-> 0, base |-> 0, end |-> 0]

\* A file that does not exist yet.
Init == /\ fsize = 0
        /\ magic = FALSE /\ dMagic = FALSE
        /\ mappedSize = 0 /\ dMappedSize = 0
        /\ pa = [u \in Unit |-> NoArena]
        /\ dPa = pa
        /\ pc = "off"
        /\ walked = 0
        /\ nextMapOffset = 0 /\ npage = 0 /\ asize = 0 /\ got = 0
        /\ curArena = NoSpace
        /\ given = [u \in Unit |-> {}]
        /\ reserved = [u \in Unit |-> 0]
        /\ grown = {}
        /\ truncated = FALSE
        /\ crashes = 0

Extended(offset, len) == IF fsize < offset + len THEN offset + len ELSE fsize

\* mapFile extends the file when it is shorter than the region to map.
MapFile(offset, len) == fsize' = Extended(offset, len)

\* mapFile fails: opening the file or ftruncate, which leaves its length as it is,
\* or fallocate or mmap, by then the file has been extended.
MapFileFails(offset, len) == fsize' \in {fsize, Extended(offset, len)}

\* h.pages.grow(arena + from, to - from), whose rounding to chunks changes nothing:
\* every call passes whole chunks.
PagesGrow(giv, u, from, to) ==
  [giv EXCEPT ![u] = @ \cup (from \div PageSize)..((to \div PageSize) - 1)]

\* A new process starts with no volatile state.
Restart == /\ pc' = "off"
           /\ walked' = 0
           /\ nextMapOffset' = 0 /\ npage' = 0 /\ asize' = 0 /\ got' = 0
           /\ curArena' = NoSpace
           /\ given' = [u \in Unit |-> {}]
           /\ reserved' = [u \in Unit |-> 0]

------------------------------------------------------------------------------
(* PmemInit.                                                               *)

\* mapFile of the header, then the magic decides whether this is the first time.
PmemInit == /\ pc = "off"
            /\ MapFile(0, PmemHeaderSize)
            /\ pc' = IF magic THEN "verify" ELSE "initSize"
            /\ walked' = 0
            /\ UNCHANGED <<header, dMagic, dMappedSize, dPa, npage, asize, heap, got, grown, ends>>

\* PmemInit returns "Mapping persistent memory file failed".
HeaderUnmapped == /\ pc = "off"
                  /\ MapFileFails(0, PmemHeaderSize)
                  /\ pc' = "mapError"
                  /\ UNCHANGED <<header, dMagic, dMappedSize, dPa, walked, npage, asize, heap, got,
                                 grown, ends>>

InitSize == /\ pc = "initSize"
            /\ mappedSize' = PmemHeaderSize
            /\ pc' = "initSizePersist"
            /\ UNCHANGED <<magic, pa, durable, walked, npage, asize, heap, got, grown, ends>>

InitSizePersist == /\ pc = "initSizePersist"
                   /\ dMappedSize' = mappedSize
                   /\ pc' = "initMagic"
                   /\ UNCHANGED <<header, fsize, dMagic, dPa, walked, npage, asize, heap, got,
                                  grown, ends>>

InitMagic == /\ pc = "initMagic"
             /\ magic' = TRUE
             /\ pc' = "initMagicPersist"
             /\ UNCHANGED <<mappedSize, pa, durable, walked, npage, asize, heap, got, grown, ends>>

\* Variant: the magic is never made durable.
MagicNotPersisted == /\ pc = "initMagicPersist"
                     /\ pc' = "run"
                     /\ UNCHANGED <<header, durable, walked, npage, asize, heap, got, grown, ends>>

InitMagicPersist == /\ pc = "initMagicPersist"
                    /\ dMagic' = magic
                    /\ pc' = "run"
                    /\ UNCHANGED <<header, fsize, dMappedSize, dPa, walked, npage, asize, heap, got,
                                   grown, ends>>

\* Variant: verifyMetadata does not compare the length of the file.
SizeUnchecked == /\ pc = "verify"
                 /\ pc' = IF mappedSize = PmemHeaderSize THEN "run" ELSE "verifyArenas"
                 /\ UNCHANGED <<header, durable, walked, npage, asize, heap, got, grown, ends>>

\* verifyMetadata: the file must not be shorter than what was mapped.  A file
\* with no arenas leaves mapArenas nothing to do.
VerifySize == /\ pc = "verify"
              /\ pc' = IF fsize < mappedSize THEN "error"
                       ELSE IF mappedSize = PmemHeaderSize THEN "run"
                       ELSE "verifyArenas"
              /\ UNCHANGED <<header, durable, walked, npage, asize, heap, got, grown, ends>>

\* verifyMetadata returns "Get file size failed".
VerifySizeFails == /\ pc = "verify"
                   /\ pc' = "mapError"
                   /\ UNCHANGED <<header, durable, walked, npage, asize, heap, got, grown, ends>>

\* verifyMetadata's loop: the next arena must have an arena header.
VerifyArena == /\ pc = "verifyArenas"
               /\ walked < mappedSize
               /\ MapFile(walked, PageSize)
               /\ LET h == pa[UnitOf(walked)]
                  IN  /\ walked' = walked + h.size
                      /\ pc' = IF h.magic THEN pc ELSE "error"
               /\ UNCHANGED <<header, dMagic, dMappedSize, dPa, npage, asize, heap, got, grown, ends>>

\* verifyMetadata returns "Arena map failed", or "Arena metadata mismatch" since
\* the file is not mapped the way its header was (isPmem).
VerifyUnmapped == /\ pc = "verifyArenas"
                  /\ walked < mappedSize
                  /\ MapFileFails(walked, PageSize)
                  /\ pc' = "mapError"
                  /\ UNCHANGED <<header, dMagic, dMappedSize, dPa, walked, npage, asize, heap, got,
                                 grown, ends>>

\* The sizes of the arenas must add up to the mapped size.
VerifyTotal == /\ pc = "verifyArenas"
               /\ walked >= mappedSize
               /\ pc' = IF walked = mappedSize THEN "map" ELSE "error"
               /\ walked' = 0
               /\ UNCHANGED <<header, durable, npage, asize, heap, got, grown, ends>>

\* The loop of mapArenas: map the arena, and let reconstruct give all its pages
\* to the page allocator, the metadata pages as allocated ones.
MapArena ==
  /\ pc = "map"
  /\ walked < mappedSize
  /\ LET u == UnitOf(walked)
         h == pa[u]
     IN  /\ MapFile(walked, h.size)
         /\ given' = PagesGrow(given, u, 0, h.size)
         /\ reserved' = [reserved EXCEPT ![u] = MData(h.size, h.fileOffset)]
         /\ walked' = walked + h.size
  /\ UNCHANGED <<header, dMagic, dMappedSize, dPa, pc, npage, asize, nextMapOffset, curArena, got,
                 grown, ends>>

\* mapArenas unmaps what it has mapped and PmemInit returns "Arena mapping failed".
ArenaUnmapped == /\ pc = "map"
                 /\ walked < mappedSize
                 /\ MapFileFails(walked, pa[UnitOf(walked)].size)
                 /\ pc' = "mapError"
                 /\ UNCHANGED <<header, dMagic, dMappedSize, dPa, walked, npage, asize, heap, got,
                                grown, ends>>

MapArenasEnd == /\ pc = "map"
                /\ walked >= mappedSize
                /\ nextMapOffset' = walked
                /\ pc' = "run"
                /\ UNCHANGED <<header, durable, walked, npage, asize, curArena, given, reserved, got,
                               grown, ends>>

------------------------------------------------------------------------------
(* mheap.grow for persistent memory.                                       *)

\* The request fits in what is left of the current arena.
GrowHere(n) ==
  /\ pc = "run"
  /\ curArena.base + Ask(n) <= curArena.end
  /\ given' = PagesGrow(given, curArena.unit, curArena.base, curArena.base + Ask(n))
  /\ curArena' = [curArena EXCEPT !.base = @ + Ask(n)]
  /\ npage' = n
  /\ got' = Ask(n)
  /\ UNCHANGED <<header, durable, pc, walked, asize, nextMapOffset, reserved, grown, ends>>

\* Otherwise sysAlloc maps a new arena at the end of the file.
GrowMap(n) ==
  /\ pc = "run"
  /\ curArena.base + Ask(n) > curArena.end
  /\ asize' = ArenaSize(Ask(n), nextMapOffset)
  /\ nextMapOffset + asize' <= At(MaxUnits)      \* bound
  /\ MapFile(nextMapOffset, asize')
  /\ npage' = n
  /\ pc' = "growHeader"
  /\ UNCHANGED <<header, dMagic, dMappedSize, dPa, walked, heap, got, grown, ends>>

\* sysMap throws when the new arena cannot be mapped: the process ends.
GrowThrows(n) ==
  /\ pc = "run"
  /\ curArena.base + Ask(n) > curArena.end
  /\ LET size == ArenaSize(Ask(n), nextMapOffset)
     IN  /\ nextMapOffset + size <= At(MaxUnits)  \* bound
         /\ MapFileFails(nextMapOffset, size)
  /\ Restart
  /\ UNCHANGED <<header, dMagic, dMappedSize, dPa, grown, ends>>

GrowHeader ==
  /\ pc = "growHeader"
  /\ pa' = [pa EXCEPT ![UnitOf(nextMapOffset)] =
               [magic |-> TRUE, size |-> asize, fileOffset |-> nextMapOffset]]
  /\ pc' = "growPersist"
  /\ UNCHANGED <<magic, mappedSize, durable, walked, npage, asize, heap, got, grown, ends>>

\* Variant: the arena header is not persisted before it is counted.
HeaderNotPersisted == /\ pc = "growPersist"
                      /\ pc' = "growSize"
                      /\ UNCHANGED <<header, durable, walked, npage, asize, heap, got, grown, ends>>

GrowPersist ==
  /\ pc = "growPersist"
  /\ dPa' = [dPa EXCEPT ![UnitOf(nextMapOffset)] = pa[UnitOf(nextMapOffset)]]
  /\ pc' = "growSize"
  /\ UNCHANGED <<header, fsize, dMagic, dMappedSize, walked, npage, asize, heap, got, grown, ends>>

\* Variant: the new arena is subtracted from the mapped size.
SizeSubtracted ==
  /\ pc = "growSize"
  /\ mappedSize' = mappedSize - (asize - HeaderOffset(nextMapOffset))
  /\ pc' = "growSizePersist"
  /\ UNCHANGED <<magic, pa, durable, walked, npage, asize, heap, got, grown, ends>>

GrowSize ==
  /\ pc = "growSize"
  /\ mappedSize' = mappedSize + (asize - HeaderOffset(nextMapOffset))
  /\ pc' = "growSizePersist"
  /\ UNCHANGED <<magic, pa, durable, walked, npage, asize, heap, got, grown, ends>>

GrowSizePersist ==
  /\ pc = "growSizePersist"
  /\ dMappedSize' = mappedSize
  /\ pc' = "growFinish"
  /\ UNCHANGED <<header, fsize, dMagic, dPa, walked, npage, asize, heap, got, grown, ends>>

\* What is left of the old current arena goes to the page allocator, the new
\* arena becomes the current one, its metadata pages are marked as allocated.
GrowFinish ==
  /\ pc = "growFinish"
  /\ LET u     == UnitOf(nextMapOffset)
         md    == MData(asize, nextMapOffset)
         nBase == AlignUp(Ask(npage) + md, PallocChunkBytes)
     IN  /\ given' = PagesGrow(PagesGrow(given, curArena.unit, curArena.base, curArena.end), u, 0, nBase)
         /\ curArena' = [unit |-> u, base |-> nBase, end |-> asize]
         /\ reserved' = [reserved EXCEPT ![u] = md]
         /\ got' = nBase - md
         /\ grown' = grown \cup {[unit |-> u, size |-> asize]}
  /\ nextMapOffset' = nextMapOffset + asize
  /\ pc' = "run"
  /\ UNCHANGED <<header, durable, walked, npage, asize, ends>>

------------------------------------------------------------------------------
(* The memory and the power supply.                                        *)

EvictMagic == /\ dMagic # magic
              /\ dMagic' = magic
              /\ UNCHANGED <<header, fsize, dMappedSize, dPa, pc, walked, npage, asize, heap, got,
                             grown, ends>>

EvictMappedSize == /\ dMappedSize # mappedSize
                   /\ dMappedSize' = mappedSize
                   /\ UNCHANGED <<header, fsize, dMagic, dPa, pc, walked, npage, asize, heap, got,
                                  grown, ends>>

EvictArena(u, f) == /\ dPa[u][f] # pa[u][f]
                    /\ dPa' = [dPa EXCEPT ![u][f] = pa[u][f]]
                    /\ UNCHANGED <<header, fsize, dMagic, dMappedSize, pc, walked, npage, asize,
                                   heap, got, grown, ends>>

Crash == /\ pc \notin {"off", "error", "mapError"}
         /\ crashes < MaxCrashes
         /\ crashes' = crashes + 1
         /\ magic' = dMagic
         /\ mappedSize' = dMappedSize
         /\ pa' = dPa
         /\ Restart
         /\ UNCHANGED <<durable, grown, truncated>>

\* The process ends, also after PmemInit returned an error; nothing in the
\* caches is lost.
Exit == /\ pc \in {"run", "error", "mapError"}
        /\ Restart
        /\ UNCHANGED <<header, durable, grown, ends>>

\* Somebody shortens the file between two runs, to a whole number of units that
\* keeps the header.  The part that is cut off reads as zeros later.
Truncate(u) == /\ pc = "off"
               /\ header = <<dMagic, dMappedSize, dPa>>
               /\ u > 0
               /\ At(u) < fsize
               /\ fsize' = At(u)
               /\ pa' = [v \in Unit |-> IF v < u THEN pa[v] ELSE NoArena]
               /\ dPa' = pa'
               /\ truncated' = (truncated \/ At(u) < mappedSize)
               /\ UNCHANGED <<magic, dMagic, mappedSize, dMappedSize, pc, walked, npage, asize, heap,
                              got, grown, crashes>>

Next == \/ PmemInit \/ InitSize \/ InitSizePersist \/ InitMagic \/ InitMagicPersist
        \/ VerifySize \/ VerifySizeFails \/ VerifyArena \/ VerifyTotal \/ MapArena \/ MapArenasEnd
        \/ HeaderUnmapped \/ VerifyUnmapped \/ ArenaUnmapped
        \/ \E n \in Requests : GrowHere(n) \/ GrowMap(n) \/ GrowThrows(n)
        \/ GrowHeader \/ GrowPersist \/ GrowSize \/ GrowSizePersist \/ GrowFinish
        \/ EvictMagic \/ EvictMappedSize
        \/ \E u \in Unit, f \in Fields : EvictArena(u, f)
        \/ Crash \/ Exit
        \/ \E u \in Unit : Truncate(u)

Spec == Init /\ [][Next]_vars

------------------------------------------------------------------------------
(* Properties.                                                             *)

\* verifyMetadata accepts what any power failure leaves: a file that nobody
\* truncated is never rejected, whatever store of the first initialization or
\* of a heap growth was the last to become durable, and however far a growth got
\* whose mapping failed.
NeverRejected == pc = "error" => truncated

Running == pc \in {"run", "growHeader", "growPersist", "growSize", "growSizePersist", "growFinish"}

\* A file that lost a part in use is never put to use: PmemInit returns an
\* error in this and in every later run.
TruncationDetected == Running => ~truncated

\* An arena from which memory may have been allocated (its growth is complete)
\* is mapped in every later run, with its size and place in the file, and is
\* not overwritten by a later growth.
ArenasKept ==
  Running =>
    \A g \in grown : /\ reserved[g.unit] # 0
                     /\ pa[g.unit] = [magic |-> TRUE, size |-> g.size, fileOffset |-> At(g.unit)]
                     /\ At(g.unit) + g.size <= nextMapOffset

\* The page allocator never gets a page twice or a page outside its arena, and
\* the metadata of every mapped arena lies in the pages kept from it.
LayoutSound ==
  /\ curArena.base <= curArena.end
  /\ (curArena.base \div PageSize)..((curArena.end \div PageSize) - 1)
        \cap given[curArena.unit] = {}
  /\ \A u \in Unit : reserved[u] # 0 =>
        /\ \A p \in given[u] : (p + 1) * PageSize <= pa[u].size
        /\ HeaderOffset(pa[u].fileOffset) + MetadataSize(pa[u].size - reserved[u]) <= reserved[u]

\* Growing the heap yields at least the pages that it was asked for: allocSpan's
\* throw "grew heap, but no adequate free space found" is unreachable.
GrowthSuffices == pc = "run" => got >= npage * PageSize
==============================================================================
