------------------------------ MODULE SpanTable ------------------------------
(***************************************************************************)
(* The metadata that lets the next run recover one arena of the heap: the  *)
(* span table and the heap type bits, written by mallocgc and by the       *)
(* sweeper, and the type map, written by typeProfileThread.  A power       *)
(* failure may strike between any two stores; then reconstruct rebuilds    *)
(* the spans and restores the type bits.                                   *)
(*                                                                         *)
(* The arena's data is a row of pages of G granules each.  Type bits are   *)
(* kept per granule, in the volatile bitmap (heapBits) and in the          *)
(* persistent log (typeLog).  A granule of the log is what the bytes that  *)
(* log it hold: idx is what the first 8 bytes read as when taken for a     *)
(* type index (Raw: a number no type has), bits is the rest.               *)
(*                                                                         *)
(* Persistent words exist twice: as the CPU sees them (spanLog, typeLog,   *)
(* typeMap) and as a power failure leaves them (dSpanLog, dTypeLog,        *)
(* dTypeMap).  FlushRange starts a write-back that is certain to be over   *)
(* only at the next fence; any word may be written back earlier.           *)
(***************************************************************************)
EXTENDS SpanLog, Sequences, FiniteSets, FiniteSetsExt

CONSTANTS P,             \* the processors, each with its mcache
          NPages,        \* pages of data in the arena
          G,             \* granules in a page
          Type,          \* the types of the objects that are allocated
          NoScan,        \* the types without pointers
          Slice,         \* the types of kind slice: always specially cached at index 1
          Promotable,    \* the types that are allocated often enough to be promoted
          SizeClassOf,   \* [Type -> size class], 0 for a large object
          LargePages,    \* [Type -> pages of a large object]
          ClassToSize,   \* class_to_size, in granules
          MaxCacheTypes, \* maxCacheTypes
          MaxCrashes,    \* bound: power failures in a behaviour
          None, Raw, Garbage  \* no type; an impossible type index; meaningless type bits

Page    == 0..(NPages - 1)
Granule == 0..(NPages * G - 1)
Index   == 1..(MaxCacheTypes - 1)

ASSUME ArenaAssumption == /\ NPages \in Nat \ {0} /\ G \in Nat \ {0} /\ MaxCrashes \in Nat
                          /\ MaxCacheTypes \in Nat /\ MaxCacheTypes >= 2
                          /\ (67 + NPages) * 8 < LogLimit

\* A span of a size class has room for an object; a large object has more than
\* maxSmallSize bytes.  All slice headers have the same description (kind, size,
\* ptrdata and gcdata), so those of a size class are one type.  None is no type.
ASSUME TypeAssumption ==
  /\ SizeClassOf \in [Type -> 0..(NumSizeClasses - 1)]
  /\ LargePages \in [Type -> Nat]
  /\ \A t \in Type : SizeClassOf[t] = 0 => LargePages[t] * PageSize > MaxSmallSize
  /\ ClassToSize \in [1..(NumSizeClasses - 1) -> Nat \ {0}]
  /\ \A c \in 1..(NumSizeClasses - 1) : ClassToSize[c] <= ClassToAllocNPages[c] * G
  /\ Promotable \subseteq Type /\ None \notin Type
  /\ \A t, u \in Slice \ NoScan : SizeClassOf[t] = SizeClassOf[u] => t = u

VARIABLES spanLog, dSpanLog,  \* the span table of the arena
          typeLog, dTypeLog,  \* the logged heap type bits of the arena
          typeMap, dTypeMap,  \* pmemHeader.typeMap, by index in the mcache
          mode,               \* the run: "types", "recon", "run" or "panic"
          cursor,             \* i of reconstruct
          spans,              \* the span that starts at each page
          freePages,          \* h.pages[isPersistent]
          zeroedBase,         \* heapArena.zeroedBase, in pages
          cache,              \* the first pages of the spans in each mcache
          job,                \* what each processor does inside mallocgc
          freeing,            \* the span that freeSpanLocked is freeing
          heapBits,           \* the volatile heap type bits
          typAssigns,         \* the index of each promoted type, or 0
          numAssigned,
          prof,               \* the next statement of typeProfileThread
          live,               \* the objects that the application can reach
          dirty,              \* the granules that hold something else than zeros
          written,            \* the granules that the application has ever written
          lost,               \* history: the indices given out in a run that ended before
                              \* their entry of the type map was durable
          crashes

persistent == <<spanLog, typeLog, typeMap>>
durable    == <<dSpanLog, dTypeLog, dTypeMap>>
profile    == <<typAssigns, numAssigned, prof, lost>>
recovery   == <<mode, cursor>>
heap       == <<spans, freePages, zeroedBase, cache, freeing>>
vars       == <<persistent, durable, recovery, heap, job, heapBits, profile, live, dirty, written, crashes>>

NoSpan   == [spanclass |-> 0, npages |-> 0, typIndex |-> 0, needzero |-> 0, alloc |-> {}]
Idle     == [pc |-> "idle"]
NoLog    == [idx |-> 0, bits |-> <<>>]
SpanSet  == [spanclass : 0..MaxSmallSpanclass, npages : 0..NPages, typIndex : 0..(MaxCacheTypes - 1),
             needzero : Bit, alloc : SUBSET (0..(NPages * G - 1))]
LogSet   == [idx : {0, Raw} \cup Index, bits : {<<>>} \cup {<<f, t>> : f \in {"raw", "opt"}, t \in Type}]

\* Every table, span and job stays in its range; i of reconstruct does not run past
\* the last page of the arena.
TypeOK == /\ spanLog \in [Page -> Nat] /\ dSpanLog \in [Page -> Nat]
          /\ typeLog \in [Granule -> LogSet] /\ dTypeLog \in [Granule -> LogSet]
          /\ typeMap \in [2..(MaxCacheTypes - 1) -> Type \cup {None}]
          /\ dTypeMap \in [2..(MaxCacheTypes - 1) -> Type \cup {None}]
          /\ mode \in {"types", "recon", "run", "panic"}
          /\ cursor \in 0..NPages
          /\ \A b \in Page : spans[b].alloc \subseteq Granule /\ spans[b] \in SpanSet
          /\ freePages \subseteq Page
          /\ zeroedBase \in 0..NPages
          /\ cache \in [P -> SUBSET Page]
          /\ \A p \in P : job[p].pc \in {"idle", "bits", "meta", "persist", "fence", "return"}
          /\ freeing \in {<<>>} \cup {<<b, n>> : b \in Page, n \in 1..NPages}
          /\ heapBits \in [Granule -> Type \cup {None, Garbage}]
          /\ typAssigns \in [Type -> {0} \cup Index]
          /\ numAssigned \in 1..(MaxCacheTypes - 1)
          /\ prof \in {<<>>} \cup ({"store", "persist"} \X Type)
          /\ live \subseteq [typ : Type, at : Granule]
          /\ dirty \subseteq written /\ written \subseteq Granule
          /\ lost \subseteq 2..(MaxCacheTypes - 1)
          /\ crashes \in 0..MaxCrashes

\* A new arena: no spans, and a file full of zeros.
Init == /\ spanLog = [b \in Page |-> 0] /\ dSpanLog = spanLog
        /\ typeLog = [g \in Granule |-> NoLog] /\ dTypeLog = typeLog
        /\ typeMap = [n \in 2..(MaxCacheTypes - 1) |-> None] /\ dTypeMap = typeMap
        /\ mode = "run"
        /\ cursor = 0
        /\ spans = [b \in Page |-> NoSpan]
        /\ freePages = Page
        /\ zeroedBase = 0
        /\ cache = [p \in P |-> {}]
        /\ job = [p \in P |-> Idle]
        /\ freeing = <<>>
        /\ heapBits = [g \in Granule |-> None]
        /\ typAssigns = [t \in Type |-> 0]
        /\ numAssigned = 1
        /\ prof = <<>>
        /\ live = {}
        /\ dirty = {}
        /\ written = {}
        /\ lost = {}
        /\ crashes = 0

------------------------------------------------------------------------------
(* Spans, slots and types.                                                 *)

PagesOf(b, n) == b..(b + n - 1)
GranulesOf(b, n) == (b * G)..((b + n) * G - 1)

NoScanBit(t)  == IF t \in NoScan THEN 1 ELSE 0
SpanClassOf(t) == MakeSpanClass(SizeClassOf[t], NoScanBit(t))
IsScan(spc)   == spc % 2 = 0

\* elemsize and nelems of a span.
ElemSize(s) == IF Sizeclass(s.spanclass) = 0 THEN s.npages * G ELSE ClassToSize[Sizeclass(s.spanclass)]
Slots(s)    == 0..((s.npages * G) \div ElemSize(s) - 1)
SlotBase(b, k) == b * G + k * ElemSize(spans[b])
SlotGranules(b, k) == SlotBase(b, k)..(SlotBase(b, k) + ElemSize(spans[b]) - 1)

InUse == {b \in Page : spans[b] # NoSpan}
FreeSlots(b) == Slots(spans[b]) \ spans[b].alloc

\* typeIndex, and the cases in which mallocgc does not call it.
TypeIndex(t) == IF t \in NoScan \/ SizeClassOf[t] = 0 THEN 0
                ELSE IF t \in Slice THEN 1 ELSE typAssigns[t]

\* The span of class spc and type index ti in p's mcache, as a set, and the
\* spans with a free slot in the mcentral.
Cached(p, spc, ti) == {b \in cache[p] : spans[b].spanclass = spc /\ spans[b].typIndex = ti}
Partial(spc, ti) == {b \in InUse : /\ \A p \in P : b \notin cache[p]
                                   /\ spans[b].spanclass = spc
                                   /\ spans[b].typIndex = ti
                                   /\ FreeSlots(b) # {}}

LogValue(s) == SpanLogValue([spanclass |-> s.spanclass, npages |-> s.npages,
                             opt |-> IF s.typIndex # 0 THEN 1 ELSE 0, needzero |-> s.needzero])

------------------------------------------------------------------------------
(* mallocgc.                                                               *)

\* The object of type t is slot k of the span at b.  logSpanAlloc stores the
\* span table entry when the slot came from nextFree or largeAlloc (new).
StartJob(p, t, b, k, new) ==
  /\ job' = [job EXCEPT ![p] = [pc |-> IF t \notin NoScan THEN "bits" ELSE IF new THEN "fence" ELSE "return",
                                typ |-> t, base |-> b, slot |-> k, new |-> new]]
  /\ spanLog' = IF new THEN [spanLog EXCEPT ![b] = LogValue(spans'[b])] ELSE spanLog
  /\ UNCHANGED <<typeLog, typeMap, durable, recovery, freeing, heapBits, profile, live, written, crashes>>

\* Take the first free slot of a span that has objects already, and clear it
\* if the span says that it needs zeroing.
TakeSlot(b) == LET k == Min(FreeSlots(b))
               IN  /\ spans' = [spans EXCEPT ![b].alloc = @ \cup {k}]
                   /\ dirty' = IF spans[b].needzero = 1 THEN dirty \ SlotGranules(b, k) ELSE dirty

\* nextFreeFast, or nextFree without refill (at the end of a word of the
\* allocation bitmap): the span in the mcache has a free slot.
AllocCached(p, t) ==
  /\ mode = "run" /\ job[p] = Idle /\ SizeClassOf[t] # 0
  /\ \E b \in Cached(p, SpanClassOf(t), TypeIndex(t)) :
        /\ FreeSlots(b) # {}
        /\ TakeSlot(b)
        /\ \E new \in BOOLEAN : StartJob(p, t, b, Min(FreeSlots(b)), new)
  /\ UNCHANGED <<freePages, zeroedBase, cache>>

CacheFull(p, t) == \A b \in Cached(p, SpanClassOf(t), TypeIndex(t)) : FreeSlots(b) = {}
Refilled(p, t, b) == [cache EXCEPT ![p] = (@ \ Cached(p, SpanClassOf(t), TypeIndex(t))) \cup {b}]

\* nextFree and refill: the mcentral has a span with a free slot.
AllocCentral(p, t) ==
  /\ mode = "run" /\ job[p] = Idle /\ SizeClassOf[t] # 0
  /\ CacheFull(p, t)
  /\ \E b \in Partial(SpanClassOf(t), TypeIndex(t)) :
        /\ TakeSlot(b)
        /\ cache' = Refilled(p, t, b)
        /\ StartJob(p, t, b, Min(FreeSlots(b)), TRUE)
  /\ UNCHANGED <<freePages, zeroedBase>>

\* allocNeedsZero: pages above zeroedBase are taken for zeros.
AllocNeedsZero(b) == b < zeroedBase

\* mheap.alloc and allocSpan: n free pages become a span, cleared if need be.
AllocPages(b, n, spc, ti) ==
  /\ PagesOf(b, n) \subseteq freePages
  /\ freePages' = freePages \ PagesOf(b, n)
  /\ spans' = [spans EXCEPT ![b] = [spanclass |-> spc, npages |-> n, typIndex |-> ti, needzero |-> 0,
                                    alloc |-> {0}]]
  /\ dirty' = IF AllocNeedsZero(b) THEN dirty \ GranulesOf(b, n) ELSE dirty
  /\ zeroedBase' = Max({zeroedBase, b + n})

\* nextFree, refill and mcentral.grow: a span of free pages.  The mcentral may have
\* a span with a free slot: cacheSpan gives up after spanBudget spans that are full.
AllocFresh(p, t) ==
  /\ mode = "run" /\ job[p] = Idle /\ SizeClassOf[t] # 0
  /\ CacheFull(p, t)
  /\ \E b \in Page :
        /\ AllocPages(b, ClassToAllocNPages[SizeClassOf[t]], SpanClassOf(t), TypeIndex(t))
        /\ cache' = Refilled(p, t, b)
        /\ StartJob(p, t, b, 0, TRUE)

\* largeAlloc: a span of its own, in no mcache.
AllocLarge(p, t) ==
  /\ mode = "run" /\ job[p] = Idle /\ SizeClassOf[t] = 0
  /\ \E b \in Page :
        /\ AllocPages(b, LargePages[t], SpanClassOf(t), 0)
        /\ StartJob(p, t, b, 0, TRUE)
  /\ UNCHANGED cache

\* mallocgc returns the object: the application can reach it and writes to it.
Return(p) ==
  /\ live' = live \cup {[typ |-> job[p].typ, at |-> SlotBase(job[p].base, job[p].slot)]}
  /\ dirty' = dirty \cup SlotGranules(job[p].base, job[p].slot)
  /\ written' = written \cup SlotGranules(job[p].base, job[p].slot)
  /\ job' = [job EXCEPT ![p] = Idle]

Goto(p, pc) == job' = [job EXCEPT ![p].pc = pc]

\* Variant: the type bits are logged for new spans only.
LogNewOnly(p) == job[p].new

\* shouldLog: in a span with a type of its own the first object speaks for all.
ShouldLog(p) == job[p].new \/ spans[job[p].base].typIndex = 0

\* heapBitsSetType sets the volatile bits; logHeapBits copies them to the log,
\* or writes the type index of the span and then the type's description.  (A type
\* with a GC program is thrown out where it would be logged, and is not in Type.)
HeapBits(p) ==
  /\ job[p].pc = "bits"
  /\ LET b == job[p].base
         t == job[p].typ
         gs == SlotGranules(b, job[p].slot)
     IN  /\ heapBits' = [g \in Granule |-> IF g \in gs THEN t ELSE heapBits[g]]
         /\ \/ /\ ~ShouldLog(p)
               /\ Return(p)
               /\ UNCHANGED typeLog
            \/ /\ ShouldLog(p) /\ spans[b].typIndex = 0
               /\ typeLog' = [g \in Granule |-> IF g \in gs THEN [idx |-> Raw, bits |-> <<"raw", t>>]
                                                ELSE typeLog[g]]
               /\ Goto(p, "persist")
               /\ UNCHANGED <<live, dirty, written>>
            \/ /\ ShouldLog(p) /\ spans[b].typIndex # 0
               /\ typeLog' = [typeLog EXCEPT ![b * G].idx = spans[b].typIndex]
               /\ Goto(p, "meta")
               /\ UNCHANGED <<live, dirty, written>>
  /\ UNCHANGED <<spanLog, typeMap, durable, recovery, heap, profile, crashes>>

LogMeta(p) ==
  /\ job[p].pc = "meta"
  /\ typeLog' = [typeLog EXCEPT ![job[p].base * G].bits = <<"opt", job[p].typ>>]
  /\ Goto(p, "persist")
  /\ UNCHANGED <<spanLog, typeMap, durable, recovery, heap, heapBits, profile, live, dirty, written, crashes>>

\* Variant: no fence after the flush of the span table entry.
PersistBitsOnly(p) ==
  /\ job[p].pc = "persist"
  /\ LET b == job[p].base
         gs == IF spans[b].typIndex = 0 THEN SlotGranules(b, job[p].slot) ELSE {b * G}
     IN  dTypeLog' = [g \in Granule |-> IF g \in gs THEN typeLog[g] ELSE dTypeLog[g]]
  /\ Return(p)
  /\ UNCHANGED <<persistent, dSpanLog, dTypeMap, recovery, heap, heapBits, profile, crashes>>

\* PersistRange at the end of logHeapBits.  Its fence also completes the flush
\* that logSpanAlloc has started.
PersistBits(p) ==
  /\ job[p].pc = "persist"
  /\ LET b == job[p].base
         gs == IF spans[b].typIndex = 0 THEN SlotGranules(b, job[p].slot) ELSE {b * G}
     IN  /\ dTypeLog' = [g \in Granule |-> IF g \in gs THEN typeLog[g] ELSE dTypeLog[g]]
         /\ dSpanLog' = IF job[p].new THEN [dSpanLog EXCEPT ![b] = spanLog[b]] ELSE dSpanLog
  /\ Return(p)
  /\ UNCHANGED <<persistent, dTypeMap, recovery, heap, heapBits, profile, crashes>>

\* The Fence of an allocation without pointers.
FenceSpan(p) ==
  /\ job[p].pc = "fence"
  /\ dSpanLog' = [dSpanLog EXCEPT ![job[p].base] = spanLog[job[p].base]]
  /\ Return(p)
  /\ UNCHANGED <<persistent, dTypeLog, dTypeMap, recovery, heap, heapBits, profile, crashes>>

ReturnNoScan(p) ==
  /\ job[p].pc = "return"
  /\ Return(p)
  /\ UNCHANGED <<persistent, durable, recovery, heap, heapBits, profile, crashes>>

------------------------------------------------------------------------------
(* The garbage collector.                                                  *)

\* The application drops its last reference to an object.
Drop(o) ==
  /\ mode = "run"
  /\ live' = live \ {o}
  /\ UNCHANGED <<persistent, durable, recovery, heap, job, heapBits, profile, dirty, written, crashes>>

\* releaseAll, before a processor sweeps: its spans return to the mcentral.
Flush(p) ==
  /\ job[p] = Idle /\ cache[p] # {}
  /\ cache' = [cache EXCEPT ![p] = {}]
  /\ UNCHANGED <<persistent, durable, recovery, spans, freePages, zeroedBase, freeing, job, heapBits, profile,
                 live, dirty, written, crashes>>

\* No processor holds the span, nor is an object of it being allocated.
Sweepable(b) == /\ mode = "run" /\ b \in InUse
                /\ \A p \in P : b \notin cache[p] /\ (job[p] # Idle => job[p].base # b)

Marked(b) == {k \in spans[b].alloc : \E o \in live : o.at = SlotBase(b, k)}

\* Variant: freed slots are taken for zeros.
SweepNoZero(b) ==
  /\ Sweepable(b)
  /\ Sizeclass(spans[b].spanclass) # 0
  /\ Marked(b) # spans[b].alloc
  /\ spans' = [spans EXCEPT ![b].alloc = Marked(b)]
  /\ UNCHANGED <<persistent, durable, recovery, freePages, zeroedBase, cache, freeing, job, heapBits, profile,
                 live, dirty, written, crashes>>

\* sweep frees slots of the span, and the span stays: objects are left, or
\* cacheSpan sweeps it to allocate from it (preserve).
Sweep(b) ==
  /\ Sweepable(b)
  /\ Sizeclass(spans[b].spanclass) # 0
  /\ Marked(b) # spans[b].alloc
  /\ spans' = [spans EXCEPT ![b].alloc = Marked(b), ![b].needzero = 1]
  /\ UNCHANGED <<persistent, durable, recovery, freePages, zeroedBase, cache, freeing, job, heapBits, profile,
                 live, dirty, written, crashes>>

\* sweep finds no object in the span: freeSpan and freeSpanLocked, which holds
\* h.lock until the pages are free, log it.
SweepFree(b) ==
  /\ Sweepable(b) /\ freeing = <<>>
  /\ Marked(b) = {}
  /\ freeing' = <<b, spans[b].npages>>
  /\ spans' = [spans EXCEPT ![b] = NoSpan]
  /\ spanLog' = [spanLog EXCEPT ![b] = 0]
  /\ UNCHANGED <<typeLog, typeMap, durable, recovery, freePages, zeroedBase, cache, job, heapBits, profile,
                 live, dirty, written, crashes>>

\* Variant: the entry is not flushed before the pages can be used again.
FreeNotPersisted ==
  /\ freeing # <<>>
  /\ freePages' = freePages \cup PagesOf(freeing[1], freeing[2])
  /\ freeing' = <<>>
  /\ UNCHANGED <<persistent, durable, recovery, spans, zeroedBase, cache, job, heapBits, profile,
                 live, dirty, written, crashes>>

\* PersistRange of logSpanFree; then the pages are free.
FreePersist ==
  /\ freeing # <<>>
  /\ dSpanLog' = [dSpanLog EXCEPT ![freeing[1]] = spanLog[freeing[1]]]
  /\ freePages' = freePages \cup PagesOf(freeing[1], freeing[2])
  /\ freeing' = <<>>
  /\ UNCHANGED <<persistent, dTypeLog, dTypeMap, recovery, spans, zeroedBase, cache, job, heapBits, profile,
                 live, dirty, written, crashes>>

------------------------------------------------------------------------------
(* typeProfileThread gives a type an index of its own.                     *)

\* Variant: the index is not a new one.
PromoteSameIndex(t) ==
  /\ mode = "run" /\ prof = <<>>
  /\ numAssigned < MaxCacheTypes - 1
  /\ t \in Promotable /\ typAssigns[t] = 0
  /\ numAssigned' = numAssigned + 1
  /\ typAssigns' = [typAssigns EXCEPT ![t] = numAssigned]
  /\ prof' = <<"store", t>>
  /\ UNCHANGED <<persistent, durable, recovery, heap, job, heapBits, live, dirty, written, lost, crashes>>

\* typAssigns, which mallocgc reads, changes before the type map does.
PromoteAssign(t) ==
  /\ mode = "run" /\ prof = <<>>
  /\ numAssigned < MaxCacheTypes - 1
  /\ t \in Promotable /\ typAssigns[t] = 0
  /\ numAssigned' = numAssigned + 1
  /\ typAssigns' = [typAssigns EXCEPT ![t] = numAssigned']
  /\ prof' = <<"store", t>>
  /\ UNCHANGED <<persistent, durable, recovery, heap, job, heapBits, live, dirty, written, lost, crashes>>

PromoteStore ==
  /\ prof # <<>> /\ prof[1] = "store"
  /\ typeMap' = [typeMap EXCEPT ![numAssigned] = prof[2]]
  /\ prof' = <<"persist", prof[2]>>
  /\ UNCHANGED <<spanLog, typeLog, durable, recovery, heap, job, heapBits, typAssigns, numAssigned,
                 live, dirty, written, lost, crashes>>

PromotePersist ==
  /\ prof # <<>> /\ prof[1] = "persist"
  /\ dTypeMap' = [dTypeMap EXCEPT ![numAssigned] = typeMap[numAssigned]]
  /\ prof' = <<>>
  /\ UNCHANGED <<persistent, dSpanLog, dTypeLog, recovery, heap, job, heapBits, typAssigns, numAssigned,
                 live, dirty, written, lost, crashes>>

------------------------------------------------------------------------------
(* Power failures, and the initialization that follows.                    *)

volatile == <<recovery, heap, job, heapBits, profile, live, dirty, written, crashes>>

EvictSpan(b) ==
  /\ spanLog[b] # dSpanLog[b]
  /\ dSpanLog' = [dSpanLog EXCEPT ![b] = spanLog[b]]
  /\ UNCHANGED <<persistent, dTypeLog, dTypeMap, volatile>>

EvictType(g) ==
  /\ typeLog[g] # dTypeLog[g]
  /\ dTypeLog' = [dTypeLog EXCEPT ![g] = typeLog[g]]
  /\ UNCHANGED <<persistent, dSpanLog, dTypeMap, volatile>>

EvictMap(n) ==
  /\ typeMap[n] # dTypeMap[n]
  /\ dTypeMap' = [dTypeMap EXCEPT ![n] = typeMap[n]]
  /\ UNCHANGED <<persistent, dSpanLog, dTypeLog, volatile>>

\* A power failure, and a new process.  A granule that was cleared may be as it
\* was before, since clearing it was not flushed.
Crash ==
  /\ mode # "panic"
  /\ crashes < MaxCrashes
  /\ crashes' = crashes + 1
  /\ spanLog' = dSpanLog /\ typeLog' = dTypeLog /\ typeMap' = dTypeMap
  /\ dirty' = written
  /\ mode' = "types" /\ cursor' = 0
  /\ spans' = [b \in Page |-> NoSpan]
  /\ freePages' = {}
  /\ zeroedBase' = 0
  /\ cache' = [p \in P |-> {}]
  /\ job' = [p \in P |-> Idle]
  /\ freeing' = <<>>
  /\ heapBits' = [g \in Granule |-> None]
  /\ typAssigns' = [t \in Type |-> 0] /\ numAssigned' = 1 /\ prof' = <<>>
  /\ lost' = lost \cup {n \in 2..numAssigned : dTypeMap[n] = None}
  /\ UNCHANGED <<durable, live, written>>

\* Restore the type information: up to the first free place of the type map.
Restored == {n \in 2..(MaxCacheTypes - 1) : \A i \in 2..n : typeMap[i] # None}
RestoreTypes ==
  /\ mode = "types"
  /\ typAssigns' = [t \in Type |-> LET ns == {n \in Restored : typeMap[n] = t}
                                    IN  IF ns = {} THEN 0 ELSE Max(ns)]
  /\ numAssigned' = 1 + Cardinality(Restored)
  /\ mode' = "recon"
  /\ UNCHANGED <<persistent, durable, cursor, heap, job, heapBits, prof, live, dirty, written, lost, crashes>>

\* Variant: one page too far.
ReconFreeTooFar ==
  /\ mode = "recon" /\ cursor < NPages
  /\ spanLog[cursor] = 0
  /\ LET end == Min({NPages} \cup {j \in cursor..(NPages - 1) : spanLog[j] # 0})
     IN  /\ freePages' = freePages \cup cursor..(end - 1)
         /\ cursor' = end + 1
  /\ UNCHANGED <<persistent, durable, mode, spans, zeroedBase, cache, freeing, job, heapBits, profile,
                 live, dirty, written, crashes>>

\* reconstruct: a row of pages that no span uses is free.
ReconFree ==
  /\ mode = "recon" /\ cursor < NPages
  /\ spanLog[cursor] = 0
  /\ LET end == Min({NPages} \cup {j \in cursor..(NPages - 1) : spanLog[j] # 0})
     IN  /\ freePages' = freePages \cup cursor..(end - 1)
         /\ cursor' = end
  /\ UNCHANGED <<persistent, durable, mode, spans, zeroedBase, cache, freeing, job, heapBits, profile,
                 live, dirty, written, crashes>>

\* What the logged bits of a granule mean when they are copied as they are.
AsCopied(log) == IF log.bits = <<>> THEN None ELSE IF log.bits[1] = "raw" THEN log.bits[2] ELSE Garbage

\* What they mean as the description of the type of a whole span.
AsDescribed(log) == IF log.bits[1] = "opt" THEN log.bits[2] ELSE Garbage

\* createSpan and restoreSpanHeapBits fail on an index that no mcentral has and
\* on a type of size 0; the bytes of other type bits may read as such a size.
Outcomes(log, idx) == IF idx = Raw \/ (idx # 0 /\ log.bits = <<>>) THEN {"panic"}
                      ELSE IF idx # 0 /\ log.bits[1] = "raw" THEN {"panic", "recon"} ELSE {"recon"}

\* reconstruct: create the next span, all of its slots in use, and restore its
\* heap type bits.
ReconSpan ==
  /\ mode = "recon" /\ cursor < NPages
  /\ spanLog[cursor] # 0
  /\ LET s == CreateSpan(spanLog[cursor])
         log == typeLog[cursor * G]
         idx == IF s.opt = 1 THEN log.idx ELSE 0
         gs == IF IsScan(s.spanclass) THEN GranulesOf(cursor, s.npages) ELSE {}
         new == [spanclass |-> s.spanclass, npages |-> s.npages, typIndex |-> idx, needzero |-> s.needzero,
                 alloc |-> {}]
     IN  /\ mode' \in Outcomes(log, idx)
         /\ IF mode' = "panic" THEN UNCHANGED <<spans, heapBits, cursor>>
            ELSE /\ spans' = [spans EXCEPT ![cursor] = [new EXCEPT !.alloc = Slots(new)]]
                 /\ heapBits' = [g \in Granule |-> IF g \notin gs THEN heapBits[g]
                                                   ELSE IF idx = 0 THEN AsCopied(typeLog[g]) ELSE AsDescribed(log)]
                 /\ cursor' = cursor + s.npages
  /\ UNCHANGED <<persistent, durable, freePages, zeroedBase, cache, freeing, job, profile,
                 live, dirty, written, crashes>>

ReconEnd ==
  /\ mode = "recon" /\ cursor = NPages
  /\ mode' = "run" /\ cursor' = 0
  /\ UNCHANGED <<persistent, durable, heap, job, heapBits, profile, live, dirty, written, crashes>>

------------------------------------------------------------------------------

Malloc(p) == \/ \E t \in Type : AllocCached(p, t) \/ AllocCentral(p, t) \/ AllocFresh(p, t) \/ AllocLarge(p, t)
             \/ HeapBits(p)
             \/ LogMeta(p)
             \/ PersistBits(p)
             \/ FenceSpan(p)
             \/ ReturnNoScan(p)

Collect == \/ \E o \in live : Drop(o)
           \/ \E p \in P : Flush(p)
           \/ \E b \in Page : Sweep(b) \/ SweepFree(b)
           \/ FreePersist

Profile == (\E t \in Type : PromoteAssign(t)) \/ PromoteStore \/ PromotePersist

Evict == \/ \E b \in Page : EvictSpan(b)
         \/ \E g \in Granule : EvictType(g)
         \/ \E n \in 2..(MaxCacheTypes - 1) : EvictMap(n)

Recover == RestoreTypes \/ ReconFree \/ ReconSpan \/ ReconEnd

Next == (\E p \in P : Malloc(p)) \/ Collect \/ Profile \/ Evict \/ Crash \/ Recover

Spec == Init /\ [][Next]_vars

------------------------------------------------------------------------------
(* Properties.                                                             *)

\* Whenever the program runs, also after any number of power failures, every
\* object that mallocgc returned and that is still reachable is in a slot that
\* is marked allocated, of a span of its class, and the type bits that the
\* collector will scan it with are those of its type.  (mallocgc logs the span
\* and the bits in two steps with one fence, and reconstruct reads them.)  The
\* bits are not promised in a span whose type index was lost, see SameType.
LiveObjectsKept ==
  mode = "run" =>
    \A o \in live : \E b \in InUse : \E k \in spans[b].alloc :
       /\ o.at = SlotBase(b, k)
       /\ spans[b].spanclass = SpanClassOf(o.typ)
       /\ o.typ \notin NoScan /\ spans[b].typIndex \notin lost =>
            \A g \in SlotGranules(b, k) : heapBits[g] = o.typ

\* What a power failure leaves of the span table always describes spans inside
\* the arena that do not overlap, so that reconstruct, which skips from a span
\* to the page behind it, neither misses an entry nor runs past the arena.
NoOverlap ==
  \A b \in Page : dSpanLog[b] # 0 =>
     LET n == CreateSpan(dSpanLog[b]).npages
     IN  /\ b + n <= NPages
         /\ \A c \in (b + 1)..(b + n - 1) : dSpanLog[c] = 0

\* The memory of an object that mallocgc is about to return is all zeros.
ZeroValue == \A p \in P : job[p] # Idle => SlotGranules(job[p].base, job[p].slot) \cap dirty = {}

\* Until the first restart it is, whether the allocator reuses a slot that was
\* swept, a span from the mcentral or pages of a span that was freed: needzero
\* and zeroedBase between them remember every use.
ZeroBeforeRestart == crashes = 0 => ZeroValue

\* The reachable objects of the spans with a type index of ns.
OneTypeIn(ns) ==
  mode = "run" =>
    \A b \in InUse : spans[b].typIndex \in ns =>
       \A o1, o2 \in {o \in live : o.at \in GranulesOf(b, spans[b].npages)} : o1.typ = o2.typ

\* All reachable objects of a span that is cached for a type have one type, the
\* one that is logged for the whole span, however many types are promoted and
\* wherever a power failure strikes, unless typeProfileThread was interrupted
\* while it gave out that very index: visible to mallocgc, not yet durable.  (The
\* next run then gives the index to another type; OneTypeIn(Index) is not true.)
SameType == OneTypeIn(Index \ lost)

\* A failure while type bits are logged does no harm: the next initialization
\* does not fail on them.
BenignCrash == mode # "panic"
==============================================================================
