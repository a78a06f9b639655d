# Verification of the go-pmem persistent heap

go-pmem extends the Go runtime with a persistent heap. A file on persistent
memory is mapped as a row of arenas, `pnew` and `pmake` allocate objects in
them, and `runtime.PmemInit` brings the heap back after a restart, however the
previous run ended. This directory holds TLA+ models of that part of the
runtime, TLC configurations that check them on small instances, and TLAPS proofs
that hold for every instance.

Paths below are relative to `src/src/runtime/`; the repository's own documents
are under `src/design/runtime/`.

## 1. Inventory

| component | state | operations | module |
|---|---|---|---|
| undo log of an arena (`pmemLog.go` 218-275) | `logs`, `numLogEntries` in the arena header; the logged words | `logEntry`, `commitLog`, `resetLog`, `revertLog` | `UndoLog`, abstractly `DurableTx` |
| pointer swizzling (`pmemHeap.go` 756-1040) | `mapAddr`, `delta`, `bytesSwizzled` of each arena, `swizzleState`, `rootOffset`; every pointer in the heap | `swizzleArenas`, `swizzle` (one goroutine per arena), `SwizzlePointer`, `computeRootAddr`, `SetRoot` | `Swizzle` |
| heap file (`pmemHeap.go` PmemInit, mapArenas; `pmemMeta.go` verifyMetadata; `mheap.go` grow; `malloc.go` sysAlloc) | `magic`, `mappedSize`, the header of each arena, the length of the file; `nextMapOffset`, `curArena`, the page allocator | first initialization, verification, mapping, growth | `HeapFile` |
| arena layout (`pmemMeta.go` metadataSize, layout) | none | pure arithmetic | `Layout` |
| span table encoding (`pmemLog.go` spanLogValue, `pmemHeap.go` createSpan) | none | encode, decode | `SpanLog` |
| span table and type bits (`pmemLog.go`, `malloc.go` mallocgc, `mcache.go`, `mcentral.go`, `mheap.go`, `mgcsweep.go`, `pmemHeap.go` reconstruct) | the span table and the logged heap type bits of an arena; the spans, the mcaches, the free pages, the volatile bitmap | allocate (cached, from the mcentral, fresh, large), sweep, free, reconstruct | `SpanTable` |
| type profiling (`pmemHeap.go` 1042-1179) | the counters of each type, `typMap`, `numTypToCheck`, `typAssigns`, `numAssigned`, `pmemHeader.typeMap` | count and announce a type, promote it, restore the promotions | `TypeProfile`; its effect on spans in `SpanTable` |
| initialization (`pmemHeap.go` PmemInit, mapArenas, unmapArenas, enableGC; `mgc.go` GC, setGCPercent) | `initState`, what is mapped, `pmemInfo.root`, the GC percentage, the collection that is about to start or under way | `PmemInit` with all its error returns, `GC`, `gcStart` | `PmemInit` |
| file mapping (`pmemMap.go`, `pmemUtil.go`, `pmemFile.go`) | the file | open, extend, mmap | `mapFile` and its failures, in `HeapFile` and `PmemInit` |
| flushing (`pmemFlush.go`, `pmemFuncs.go`, `pmemCPU.go`, `pmemStubs.go`) | none | `FlushRange`, `Fence`, `PersistRange` | their guarantee only |
| compiler: `txn` blocks (`cmd/compile/internal/ssa/logStore.go`, `gc/ssa.go`) | the blocks of a function; at run time `g.tx` | lower assignments and mark stores, insert `Log3`, get, use and release the handle | `LogStore` |
| compiler: `pnew`, `pmake` (`gc/walk.go`) | none | call the persistent allocator | not modelled |

How they interact. `PmemInit` runs `verifyMetadata` and `mapArenas`; `mapArenas`
maps each arena, calls `reconstruct` for it (span table and type bits become
spans) and then `swizzleArenas` (which walks those spans and uses the undo log
of each arena). `mallocgc` and the sweeper keep the span table up to date from
then on, and `mheap.grow` adds arenas. The garbage collector is kept away from
initialization by `setGCPercent(-1)` and by a check in `GC`. `mallocgc` asks
`typeIndex` which mcache span to use; `typeProfileThread` changes the answer.
Application code with `txn` blocks reaches the undo log of a transaction library
through the calls that the `logStore` pass inserts.

What is hard. Power may fail between any two stores, and any cached word may
reach memory earlier than the code asks for; initialization itself may crash,
many times; two processors allocate and sweep in one arena; a goroutine per
arena rewrites pointers in words that their own crash recovery depends on; mapping
may fail half-way; a collection may be decided before and start after it was
switched off; and the compiler must put a log call in front of every store on
every path. The 40 hazards in `PROJECT.json` give the line for each.

## 2. The modules

Every persistent word is modelled twice, once as the CPU sees it and once as a
power failure would leave it. A store changes the first copy, `PersistRange`
copies the words of its range, the `Evict` actions write back any word at any
time. `Crash` takes the second copy. No order between two words is assumed
unless a fence enforces it.

**UndoLog / DurableTx.** One action per store and per `PersistRange` of
`logEntry`, `commitLog`, `resetLog` and `revertLog`. The client follows the
discipline of `pmemHeap.go`: it logs an address once, stores to logged addresses
only, and resets only what it has persisted. `DurableTx` is the abstract
specification: a committed image, a working image, `Write`, `Commit`, `Abort`.
The refinement maps the committed image to what the next run would recover if
power failed now.

**Swizzle.** `pc` and `k` are where `swizzleArenas` is (one label per statement
that stores), `sw[a]` is the goroutine `ar.swizzle`. The undo log operations are
single steps here, except that reverting is two (restore, then commit), because
`UndoLog` shows that they are atomic. The walk of `swizzle` over spans, elements
and type bits is the set of words that it inspects from its starting offset
(`Inspected`), including the page that it skips where `spanOfHeap` answers nil.
Each word counts 1 instead of 8 bytes. The file header in front of the first
arena is left out: all offsets used here count from the arena header. The ghost
variables `target` and `rootTarget` record what the application meant each
pointer to lead to, which is what the invariants compare with. As in the code the
state stays `swizzleOngoing` after the last step.

**Layout, HeapFile.** `Layout` is the arithmetic, in bytes. `HeapFile` is the
file across runs: first initialization, `verifyMetadata`, `mapArenas`, and
growth, store by store, with truncation of the file by somebody else between two
runs. Every `mapFile` may fail, before or after the file has been extended: then
`PmemInit` returns an error (`HeaderUnmapped`, `VerifyUnmapped`, `ArenaUnmapped`;
`VerifyUnmapped` also stands for a header that is mapped as persistent memory and an
arena that is not) or, during growth, `sysMap` throws (`GrowThrows`). `verifyMetadata`
may also fail to get the length of the file (`VerifySizeFails`). The arena that `Layout`
computes is the one that was asked for: `sysReserveAligned` may, where the operating
system cannot give back the part that it had to reserve on top, return
`heapArenaBytes` more (`malloc.go` 827-830), which is left out. Arenas are at multiples of `heapArenaBytes`. `grown` is a history variable:
the arenas whose growth was completed.

**SpanLog, SpanTable.** `SpanLog` is the 32-bit entry of the span table.
`SpanTable` is one arena with its allocator: `AllocCached`, `AllocCentral`,
`AllocFresh` and `AllocLarge` are the ways to a slot, `HeapBits`, `LogMeta`,
`PersistBits`, `FenceSpan` and `ReturnNoScan` the rest of `mallocgc` with its
flushes and its fence, `Flush`, `Sweep`, `SweepFree` and `FreePersist` the
sweeper, `PromoteAssign`, `PromoteStore` and `PromotePersist` the type
profiler, `RestoreTypes`, `ReconFree`, `ReconSpan` and `ReconEnd` the next
initialization. A promotion happens here at any time; when it really does is in
`TypeProfile`. Abstractions: an arena is a row of pages of `G` granules and
objects fill whole granules; the kind, size, ptrdata and gcdata words of a type
description are one store; which free pages a span gets is any choice (the page
allocator takes the first that fit); marking is the set of reachable objects; the tiny allocator's
blocks are objects without pointers; types with a GC program, for which logging throws
(`mbitmap.go` 1521-1523), are left out; raw type bits that are read as a type index
are taken for an index that no mcentral has. A fresh span may be taken while the
mcentral still has partial ones, since `cacheSpan` gives up after 100 spans. `lost` is a
history variable: the indices that were visible to `mallocgc`, and not durable, when
power failed.

**TypeProfile.** `Count`, `SetClass`, `Claim` and `Publish` are the atomic
operations of `typeIndex`, so that goroutines that allocate the first objects of a
type interleave; `Wake` to `ClearType` are the statements of
`typeProfileThread`. Counters are kept up to the first value beyond every
threshold that they are compared with. Neither `typeIndex` nor the thread checks an index
of `typMap`; where it is out of bounds the runtime throws (`PublishThrows`, `LoadThrows`)
and the process ends, as `thrown` says, until the next run.

**PmemInit.** Callers race on `initState`; every mapping step may succeed, in
the place of the previous run or elsewhere, or fail. Reconstructing and swizzling
are single steps here, and the persistent words are left to the other modules.
A collection starts in two steps, as in `gcStart`: the test of its trigger
(`AutoGC`, `GCStart`), then, with `startSema` held, the next cycle
(`BeginCycle`). `setGCPercent(-1)` and `GC` read `work.cycles` and wait for the
end of the cycle that they saw (`LoadCycles`, `WaitOnMark`, `GCLoad`). `raced`
remembers that `setGCPercent(-1)` looked between the two. The percentage that the
program starts with may be off (`GOGC=off`); `PmemInit` restores what it found.

**LogStore.** The compiler's part of a transaction, and then its result run.
`StoresOf` and `Lower` are how `gc/ssa.go` turns an assignment into stores and
which of them it marks; the `Pass` actions are `logStore`, value by value, with
the blocks that it splits off and the edges and phis that it rewires; the `Run`
actions execute the rewritten blocks between `Begin` and `End` of nested blocks,
with breaks and panics out of a block (`Leave`). Arrays of one element, which are
stored like their element, are left out, and what the compiler notes of an address (in
persistent or in volatile memory) holds for the statement that noted it, although the
code leaves the note on the SSA value, which a later statement may share. Each call under way keeps in `ran`
the stores and calls that it has made. The transaction library is not
in the repository: `level`, `undo` and what `Log3` records are external, modelled
from the calls that the compiler emits. `ProgramsAssumption` says which programs
there are: any functions of this shape, of any length, in which what the compiler notes
of an address is true (an address that it takes for volatile memory leads to no persistent
object) and which call function 2 only if there is one.

`MC*.tla` give instances. `PROJECT.json` maps each definition to its lines.

## 3. The runs

| run | instance | result |
|---|---|---|
| `undo_log` | 3 addresses, 2 values, the code's 2 entries; any number of crashes | `TypeOK`, `LogInv`, `CommitDurable`, `ImplementsDurableTx` hold |
| `swizzle` | 2 arenas, exchanged and overlapping addresses, 3 crashes, AppCallBack registered; and 1 arena that grows to 2, 2 stores by the application, 2 crashes; 396k states | pointers and root preserved, a pointer to volatile memory is dropped, also when an arena is mapped there later, the log never overflows, always recoverable, progress kept, initialization completes |
| `swizzle_resume` | an arena with a span whose tail is unused | violation, see finding 1 |
| `heap_file` | arenas of 16 pages, chunks of 4, 5 request sizes, file of 5 units, 3 crashes, truncations, failing mappings; 87k states | never wrongly rejected, truncation detected, grown arenas kept, layout sound, growth sufficient |
| `span_table` | 2 processors, 2 pages, classes of one and of two pages, 2 crashes; 0.5M states | reachable objects are found again with their types, the table always parses, memory is zero before the first restart |
| `span_types` | slices, two types for one index and a 5-page object share the pages, 1 crash, the two types interchangeable; 2.0M states | as above with optimized type bits and across the two forms of a span table entry; a crash may take the index back, and the other type get it: objects of a typed span have one type unless its index is such a one |
| `span_zero`, `span_benign` | 1 crash | violations, findings 2 and 3 |
| `pmem_init` | 2 callers, 1 caller of GC, up to 2 arenas, GC on or off; 26,880 states | one initialization, complete when announced, no automatic GC meanwhile but one already decided, every call returns, a collection follows |
| `init_collected` | 2 callers, automatic GC only | violation, finding 4 |
| `type_profile` | 2 goroutines, 3 types, 2 indices to give, `typMap` of 2, 1 crash; 468k states | `typMap` is left, and the process ends, only with the third type, the durable type map is a row without gaps or repetitions, an index that is durable keeps its type |
| `log_store` | 317 programs: every assignment on every kind of address, pairs around a branch, a call between blocks; 2 runs of each; 151k states | recovery restores every word that the log is meant to cover, stores keep their order, the handle matches the blocks |

Why the bounds are enough. Two arenas are the least in which one arena's new
range can overlap another's old one, and three crashes let a crash hit the
recovery of the recovery of a first crash. Two log entries are the code's own
bound. Two pages and a two-page class are the least in which a stale entry can
lie inside a later span; five pages are the least of a large object. The
requests of `heap_file` include exact multiples and off-by-one cases of the
chunk and the arena, so that every rounding of the layout is taken both ways; the
two header sizes are those of the code. `LogLimit` stands for 2^32 and is
smaller in the runs because TLC's integers have 31 bits; the proofs need only
that it exceeds the largest small value.

In `type_profile` there are more types than indices and one more than places in
`typMap`, so that the last place is used, the next one is missing, and the thread ends
with types left over, since a restored type needs no place; two goroutines are the least that can announce two types at once. `TotalCap` and
the capped counters lose nothing: the code only compares them. In `log_store` a
function has three statement lists around one branch, enough for a store that is
split off to have another before it in the same block, behind it in the same
block and in a successor whose predecessor changes; a block in a block is reached by the
call; the second run of a function has values that differ from those of the first.

Deadlock is checked where the system cannot stop. It is switched off for
`LogStore` (a program ends, or the compiler panics), for `TypeProfile` (a process that
threw, with no crashes left), for `SpanTable` (a full arena with everything reachable, or a process that panicked,
with no crashes left) and for `PmemInit` (all calls have returned or the process
has thrown).

Fairness. `Swizzle!FairSpec` assumes weak fairness of the goroutine that runs
`PmemInit` and of each swizzling goroutine: the Go scheduler runs every runnable
goroutine, and `dc` is an ordinary channel. Nothing is assumed of crashes (only
that there are finitely many, a bound) or of the application. `PmemInit!Spec`
assumes weak fairness of each caller, of the goroutine that `enableGC` starts,
and of mark termination, which the collector's own workers bring about. Callers
of `runtime.GC` and automatic collections are not assumed to happen. Fair, too, is
`BeginCycle`: whoever has passed the test of `gcStart` holds or waits for
`startSema` and goes on. `TypeProfile` and `LogStore` have safety properties only.

Each property has a mutant: a plausible bug (a dropped flush, a swapped order,
an off-by-one) in a definition translated from the code, with which TLC finds
the property violated.

## 4. The proofs

* `UndoLogProofs` (any address and value sets, any log size): `TypeCorrect`,
  `LogInvariant`, `Durability` and `Refinement`. The inductive invariant `LogInv`
  is `TypeOK`, `LogSafe` (a slot that counts in either view is durable; no
  address has two; a word differs from its durable copy only under a durable
  entry) and `AtStep` (what holds between the statements of each call).
  `WriteAhead` alone is not inductive: that commitLog may empty the log depends
  on what its loop has persisted so far (`AtCommit`), that a second crash during
  revertLog is harmless depends on what has been copied back (`AtRevert`). The
  refinement step shows that each action is a `Write`, a `Commit`, an `Abort` or
  a stutter: the commit is the instant at which the emptied count becomes
  durable, by `ResetPersist` or by an early write-back.
* `PmemInitProofs` (any number of callers, collectors and arenas): `TypeCorrect`,
  `InitInvariance`, `AtMostOneInit`, `CompleteWhenDone`, `OnlyRacedGC`. `InitInv`
  ties `initState` to where the callers are (`StateOfCallers`) and says for each
  statement what has been mapped by then (`Progress`); lemma `Alone` turns
  uniqueness into the fact that a step of one caller disturbs nobody's `Progress`.
  `NoAutoGC` needs two more parts: `SemaInv` (no cycle is under way while one is
  about to begin; a call of `GC` that knows of a cycle waits for its end) and `OffInv`
  (from the statement that sets the percentage to `initDone` it stays off, and what
  runs or is about to run was decided before, or is being waited for).
* `TypeProfileProofs` (any number of goroutines, types, places in `typMap`, indices
  and thresholds): `TypeCorrect`, `RoomSafe`, `RowSafe`, `IndexSafe`, from
  `Invariance`. `RoomInv` counts: places taken plus goroutines on the way to take
  one are the types seen. That only a type beyond the last place makes `typMap[num-1]`
  throw (`ThrowInv`) follows from it and from nothing weaker, since `numTypToCheck` alone
  says nothing of the goroutines between the first count and the claim. `TypeAssumption`
  asks only that there are finitely many types. `RowInv` says that the indices given are
  a row, recorded in both directions, of which only the last may be missing in the
  type map or in its durable copy, and at which statements.
* `LayoutProofs`: `MetadataFitsAlways`, `RoomForAskAlways`, `ChunksFitAlways`,
  for all header sizes, chunk sizes and arena sizes that satisfy the assumptions
  of `Layout` (whole pages, whole chunks).

* `HeapFileProofs` (any page, chunk and arena size, any number of units, requests,
  growths and crashes): `TypeCorrect`, `NeverRejectedAlways`,
  `TruncationDetectedAlways`, `ArenasKeptAlways`, `LayoutSoundAlways`,
  `GrowthSufficesAlways`, all from `RowAlways`. The invariant is that, unless the file
  was truncated, the arena headers up to `mappedSize` are a row: each starts where the
  one before it ends, and the last ends at `mappedSize`, in the file as the CPU sees it
  and in its durable image, with at most the growth under way beyond it (`HeadInv`,
  `GrowInv`). None of the properties is inductive without it: that `verifyMetadata`
  accepts a file needs the headers of all arenas, not only of the one that a step
  writes, and `mapArenas` finds the next header only because the sizes before it add
  up. The rest says how far the walk of `mapArenas` is (`WalkInv`, `MapInv`), that the
  file is long enough (`LenInv`), and what the page allocator has been given
  (`CurInv`, `ReachInv`, `GrownInv`). The arithmetic is that of `LayoutProofs`.
  Assumptions: `FirstPageAssumption` (the file header and the header of the first arena
  lie in the first page, as `verifyMetadata` takes for granted) and the types of the
  constants (`GrowthAssumption`), besides those of `Layout`.
* `SwizzleProofs` (any number of arenas, addresses, crashes and application stores, any
  layout of spans that is a `ResumableLayout`): `TypeCorrect`, `LogRoomAlways`,
  `PointersPreservedAlways`, `VolatileDroppedAlways`, `RootPreservedAlways`,
  `RecoverableAlways`, `CallBackBeforeSwizzleAlways` and the action property
  `ProgressKeptAlways`, all from `SwizzleInvariant`. The invariant `IInv` has two
  halves. `Sem` is about the words that the next run would recover (`Rec`: the durable
  words with the log reverted) and does not mention `pc`: every arena has an old and a
  new address, pointers below the recorded progress are relative to the new ones, the
  others to the old ones, and the addresses that are still needed to tell pointers
  apart do not overlap. A crash does not change `Rec`, so `Sem` survives it at
  any point (`CrashStep`). The other half says, for each statement of `swizzleArenas`
  and of the goroutines, which logs are empty or hold which word (`LogInv`, `SwInv`),
  that the tables lead from the old to the new addresses (`TableInv`), how far the
  progress is (`ProgressInv`), and that a word differs from its durable copy only
  while it is logged (`CopyInv`). `Recoverable` alone is not inductive: the commit of
  a pointer keeps it only because the words that the walk passed over since the last
  commit are the same at both addresses (`Settled`), and the tables of a resumed
  swizzle are right only because `mapAddr` and `delta` were changed together.
  Hypothesis: `ResumableLayout`, from every progress that can be recorded the walk
  finds all pointers that are left. It cannot be dropped: run `swizzle_resume`
  shows a pointer lost on a layout without it. Module `MCSwizzle` assumes it, so that
  TLC evaluates it on the layout of run `swizzle`. Of the constants: the code's two
  log entries at least, addresses above 0, objects inside an arena's heap, and files
  that were closed in an orderly way.

* `SpanTableProofs` (any arena, any number of processors, types and power failures):
  from `SpanTableInvariant` the theorems `TypeCorrect`, `NoOverlapAlways` and
  `ZeroBeforeRestartAlways`, and from `LiveInvariant` the theorems
  `LiveObjectsKeptAlways` and `SameTypeAlways`.
  `NoOverlap` speaks of the durable table only and is not inductive: that a new entry
  overlaps no old one follows from the pages that spans, the page allocator and the
  span being freed own, which are apart (`ApartInv`), and from both copies of the table
  describing these owners (`RunInv`; a durable entry may outlive its span until
  `logSpanFree` is written back, during which the pages are nobody else's). After
  a power failure the spans are gone and the table is all there is; `ReconInv` says that
  reconstruct has made a span of every entry in front of its cursor and given every
  other page to the page allocator, which brings back `RunInv` when it ends. `JobInv`
  gives objects under allocation slots of their own, and `ZeroInv` says where pages may
  be dirty: below `zeroedBase`, and only in allocated slots where a span does not ask
  for zeroing.
  `LInv` is about reachable objects. `LiveInv` says of each that both copies of its
  span's entry and of its type bits describe it, and that in memory, if reconstruct has
  passed it, its slot is allocated and its heap bits are its type's. That holds of the
  copies at every instant, so a power failure needs no argument of its own. An object
  gets there along the statements of `mallocgc`: `LogOk` says what has been written at
  each, and `CacheInv` that a cached span, whose entry `mallocgc` does not log again,
  already has a durable entry. `MapInv` limits indices to types that can be promoted.
  Assumptions: `ArenaAssumption` (entries are wide enough for the arena) and
  `TypeAssumption` (a span has room for an object of its class; large objects are above
  `maxSmallSize`). No theorem assumes how many types are promoted or which index each
  gets. An index that a power failure took back is in `lost`, and what `LiveInv` says of
  type bits and of the one type of a span excepts the spans of these indices, because it
  is not true of them (section 5); that they are in use, of the right class and with
  their slots allocated is shown for them as well. The module begins with `SpanLog`: `Decodable` (createSpan is
  a left inverse of spanLogValue on every span that can be logged) and
  `NeverLoggedAsFree`, on which the rest relies. Assumptions there: spans of the size of
  their class, large ones above `maxSmallSize` and small enough for the entry.
* `LogStoreProofs` (any program with statement lists of any length, any objects and words,
  any number of calls, any nesting): `RollbackCompleteAlways`, `StoresInOrderAlways`,
  `HandleMatchesBlocksAlways` and `TypeCorrect`, all from `PassAndRun`. The invariant
  `LogStoreInv` has four parts.
  * `PassInv`, while the compiler works and afterwards of every function. Each
    block has a place in one of the three statement lists and each of its values a position there
    (`PlaceOK`): the values between two inserted ones are those of the list, in order, and
    an edge leads on in the same list or from the end of one list to the start of a later
    one. A store that was marked in the list, and may be persistent, is still marked or
    its log is right before it, or it is the first of its block and every
    predecessor is either a block of nothing but its log or one whose inpmem test comes
    here only for volatile objects (`FirstOK`, `LogsFor`). Marks and blocks are counted
    together (`Bounded`): a mark goes when two blocks come. `CurOK` says that nothing
    marked is left behind the pass.
  * `StackInv`, for each call under way: it is at a position of a list, has made the stores
    and calls up to there (`RunAt`), and the log has the words of every marked store
    that it has passed or is about to make (`Recorded`).
  * `LevelInv` relates the level and the handle to the number of calls, also when blocks
    have been left.
  * `MemInv` is `RollbackComplete` with the types of the words.

  None of the properties is inductive alone. A store keeps `RollbackComplete` only because
  the log already has its words, which depends on the way by which the call got to the store,
  thus on all predecessors that later splits have rewired. `StoresInOrder` says nothing
  of what is still to run. From where the logs are to what they cover leads `CoveredSrc`: in every
  lowered list, a word of a store to persistent memory that `Uncovered` does not list is in the
  range of a marked store to the same object, at or before it.
  What `Lower`, `FieldOff` and `Recovered` compute is shown without the library's induction
  theorems: a function that satisfies the recursive definition up to n is extended to n + 1,
  and a least n for which a statement fails is refuted (`UpTo`).
  Assumptions: `ObjectAssumption`, `BoundsAssumption` (types) and `ProgramsAssumption`.

Only model-checked: all liveness (`InitCompletes`, `CallsReturn`,
`CollectedAfterInit`), which is out of the prover's reach. Every invariant and every
other action property that a passing run checks is a theorem.

## 5. Findings

1. `swizzle_resume`. A swizzle interrupted right after the last word of the last
   element of a span with an unused tail resumes at the limit of the span,
   takes it for a page without a span and skips a page from there, over pointers
   of the next span (`pmemHeap.go` 949), which keep addresses of the earlier run.
   `ResumableLayout` in `Swizzle` says for which layouts this cannot happen.
2. `span_zero`. After a restart `allocNeedsZero` (`mheap.go` 970) takes pages that
   an earlier run has written for zeros; `pnew` then returns an object that is not
   zero.
3. `span_benign`. A power failure between the write-back of a span table entry
   and that of the type description makes every later initialization fail
   (`pmemHeap.go` 744 divides by 0, or 477-482 reads an index that is none).
4. `init_collected`. A `PmemInit` on an existing file, after the program has been
   through a collection, throws "invalid free" (`mheap.go` 1500): the span that
   `freeSpan` makes for unused pages has an old `sweepgen`.

Seen while modelling, without a run of their own:

* The final state of swizzling is never set to `swizzleDone` (`pmemHeap.go` 884,
  a TODO; `swizzling.md` says it is). `Recoverable` and `PointersPreserved` show
  that this does no harm.
* AppCallBack is called after an interrupted swizzle of an earlier run has been
  completed; pointers have then been rewritten for that run, though not for this
  one (`CallBackBeforeSwizzle` states what does hold).
* `setGCPercent(-1)` is to return "with no GC running" (`mgc.go` 240-241), but a
  goroutine that has passed the test of `gcStart` (1265) and not yet `startSema`
  begins a cycle afterwards, while spans are reconstructed. `NoAutoGC` says
  that no other automatic collection is under way then; this one it exempts (`raced`).
* `typeProfileThread` makes a promotion visible (1131) before it is durable
  (1133-1134). After a crash in between, the index can be given to another type
  while a span logged with it survives. `pmemLog.go` 168-170 says of such a span that
  "All other objects in the span have the same type representation"; it then has objects
  of two types, of which one is scanned with the type bits of the other. In `SpanTable`:
  `PromoteAssign` for the first type, an object of it in a fresh span with the index
  (`AllocFresh` to `PersistBits`), `Crash` before `PromoteStore`, reconstruct, a `Sweep`
  that frees a slot, `PromoteAssign` for the second type, an object of it from the same
  span (`AllocCentral` to `PersistBits`). This refutes `OneTypeIn(Index)`; `SameType` and
  `LiveObjectsKept` show that no other span is affected.
* Every error return of `PmemInit` leaves `initState` at `initOngoing`, so that it
  cannot be tried again and `GC` throws, and the error return after `mapArenas` (248)
  leaves automatic GC off.
* `GetRoot` may return the root before `initDone` is stored (637-640).
* `unmapArenas` (372) unmaps the address of the previous run, also for an arena
  mapped elsewhere.
* `GC` checks `initState` once (`mgc.go` 1089); a caller already past the check
  may collect while spans are reconstructed.
* `typMap` has 100 places and `typeIndex` does not check (1176): a program with 101
  types that have no index panics. `TypMapRoom` says that nothing less makes it panic.
* A mapping in which `fallocate` fails leaves the file as long as `ftruncate` made it
  (`pmemMap.go` 128-135). The next attempt, in the next run, finds the file long
  enough and skips `fallocate`: the arena is mapped over a hole, and a store may fail
  later.
* `mapArenas` expects `mapFile` to fail when the old address is taken (`pmemHeap.go`
  322). `utilMap` uses `MAP_FIXED` (`pmemUtil.go` 67-69), which replaces what is
  mapped there.
* What the log of a `txn` block does not cover, stated as `Uncovered` in `LogStore`:
  the length of a string, all but one word of a small struct, the length of a
  reslice with a capacity, an append in place, and a slice header just made in volatile
  memory that is stored through a pointer just loaded. Zeroing a large variable inside a block
  makes the pass panic (`HasMemoryArg`).
* A break, a jump or a panic out of a `txn` block leaves `g.tx` and the level of the
  transaction as they were (`left` in `LogStore`; `HandleMatchesBlocks` says nothing after
  that), and `g.tx` is not cleared when a
  goroutine structure is used again (`runtime2.go` 493).
* Comments that no longer fit: `pmemHeap.go` 1094-1095 (a rate per second; the
  interval is 100 ms), `pmemMeta.go` 15-17 (`spc<<1`), `pmemHeap.go` 50
  (span class 135).

## 6. Not modelled

Device DAX detection, sysfs parsing, the flags of `open` and `mmap`
(`pmemMap.go`, `pmemUtil.go`, `pmemFile.go`) and the choice of flush instruction:
hardware and I/O. The address space of the process: which addresses are free is a
free choice in `PmemInit` and `Swizzle`. `CollectPtrs`, `InPmem`: queries. Parsing of
`txn`, inlining into a block and deferred calls in one; `pnew` and `pmake`, which
become calls of `mallocgc` (whose persistent path is in `SpanTable`). The volatile
allocator, the scheduler, marking, the rest of the compiler, the standard library and
the tools: upstream Go, by far the most of the repository, modelled only where the
persistent heap calls it.

## 7. Plan

Done, in this order: UndoLog with its refinement and proofs; Swizzle; SpanLog;
Layout and HeapFile; SpanTable; PmemInit; TypeProfile with its proofs; LogStore; the
two steps of `gcStart` in PmemInit with the proof of `NoAutoGC`; failing mappings in
HeapFile; the proofs of HeapFile, of Swizzle, of SpanTable and of LogStore.

Next: an abstract specification of the heap (a set of typed objects that survives
restarts) that `SpanTable` refines.
