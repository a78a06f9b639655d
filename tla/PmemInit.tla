------------------------------- MODULE PmemInit -------------------------------
(***************************************************************************)
(* The volatile side of PmemInit (src/src/runtime/pmemHeap.go): goroutines *)
(* that race to initialize persistent memory, the mapping of the header    *)
(* and of the arenas, which may fail at each point, and what garbage       *)
(* collection may do meanwhile (GC and setGCPercent in                     *)
(* src/src/runtime/mgc.go).                                                *)
(*                                                                         *)
(* What happens to the persistent words is in HeapFile, SpanTable and      *)
(* Swizzle; here reconstructing or swizzling is a step that takes time.    *)
(***************************************************************************)
EXTENDS Naturals

CONSTANTS Caller,     \* the goroutines that call PmemInit
          Collector,  \* the goroutines that call runtime.GC
          MaxArenas   \* bound: arenas in the file

ASSUME SizeAssumption == MaxArenas \in Nat

Spawned == "spawned"  \* the goroutine that enableGC starts

ASSUME SpawnedAssumption == Spawned \notin Collector

VARIABLES first,      \* no magic number in the file: nobody has initialized it
          narenas,    \* arenas in the file
          hasRoot,    \* pmemHeader.rootOffset # 0
          initState,  \* pmemInfo.initState
          pc,         \* the next statement of each caller
          header,     \* pmemHeader is mapped
          arenas,     \* how many arenas mapArenas has appended to its slice
          mapped,     \* the arena mappings of this process: arena and place
          root,       \* pmemInfo.root is set
          gcPercent,  \* "on", or "off" for -1
          gcp,        \* gcp of PmemInit
          col,        \* where each goroutine is in runtime.GC
          waiting,    \* who waits in gcWaitOnMark for the end of the cycle that was under way
          starting,   \* work.startSema: "auto" or "called" while gcStart has passed trigger.test
          marking,    \* gcphase is _GCmark
          collected,  \* h.sweepgen # 0: there has been a collection
          thrown,     \* throw: the process is gone
          raced       \* history: gcStart had passed its test when setGCPercent(-1) looked for a cycle

file == <<first, narenas, hasRoot>>
memory == <<header, arenas, mapped, root>>
gcvars == <<gcPercent, gcp, col, waiting, starting, marking, collected, raced>>
vars == <<file, initState, pc, memory, gcvars, thrown>>

Places == {"previous", "elsewhere"}  \* where the last run had the arena, or not

Label == {"start", "header", "firstInit", "verify", "gcOff", "gcLoad", "gcWait", "map", "reconstruct", "swizzle",
          "setRoot", "done", "enableGC", "ok", "error"}

\* Every variable of PmemInit stays in its range; the loop of mapArenas maps no
\* arena outside 1..MaxArenas.
TypeOK == /\ first \in BOOLEAN /\ hasRoot \in BOOLEAN
          /\ narenas \in 0..MaxArenas
          /\ initState \in {"initNotDone", "initOngoing", "initDone"}
          /\ pc \in [Caller -> Label]
          /\ header \in BOOLEAN
          /\ arenas \in 0..MaxArenas
          /\ mapped \subseteq (1..MaxArenas) \X Places
          /\ root \in BOOLEAN
          /\ gcPercent \in {"on", "off"} /\ gcp \in {"on", "off"}
          /\ col \in [Collector \cup {Spawned} -> {"none", "call", "checked", "loaded", "start"}]
          /\ waiting \subseteq Caller \cup Collector \cup {Spawned}
          /\ starting \in {"free", "auto", "called"} /\ raced \in BOOLEAN
          /\ marking \in BOOLEAN /\ collected \in BOOLEAN
          /\ thrown \in BOOLEAN

\* A new file has no arenas; a root is in an arena.  GOGC may be off.
Init == /\ first \in BOOLEAN /\ hasRoot \in BOOLEAN /\ narenas \in 0..MaxArenas
        /\ first => narenas = 0
        /\ hasRoot => narenas > 0
        /\ initState = "initNotDone"
        /\ pc = [c \in Caller |-> "start"]
        /\ header = FALSE
        /\ arenas = 0 /\ mapped = {}
        /\ root = FALSE
        /\ gcPercent \in {"on", "off"} /\ gcp = gcPercent
        /\ col = [k \in Collector \cup {Spawned} |-> IF k = Spawned THEN "none" ELSE "call"]
        /\ waiting = {} /\ starting = "free" /\ raced = FALSE
        /\ marking = FALSE /\ collected = FALSE
        /\ thrown = FALSE

At(c, label) == ~thrown /\ pc[c] = label
Goto(c, label) == pc' = [pc EXCEPT ![c] = label]

------------------------------------------------------------------------------
(* PmemInit.                                                               *)

\* Variant: the state is read and then written, whatever it was.
CasBlind(c) ==
  /\ At(c, "start")
  /\ initState' = "initOngoing"
  /\ Goto(c, "header")
  /\ UNCHANGED <<file, memory, gcvars, thrown>>

\* Variant: a caller that is late waits for its turn.
CasWaits(c) ==
  /\ At(c, "start")
  /\ initState = "initNotDone"
  /\ initState' = "initOngoing"
  /\ Goto(c, "header")
  /\ UNCHANGED <<file, memory, gcvars, thrown>>

\* Only the caller that finds initNotDone goes on.
Cas(c) ==
  /\ At(c, "start")
  /\ IF initState = "initNotDone"
     THEN initState' = "initOngoing" /\ Goto(c, "header")
     ELSE Goto(c, "error") /\ UNCHANGED initState
  /\ UNCHANGED <<file, memory, gcvars, thrown>>

MapHeader(c) ==
  /\ At(c, "header")
  /\ header' = TRUE
  /\ Goto(c, IF first THEN "firstInit" ELSE "verify")
  /\ UNCHANGED <<file, initState, arenas, mapped, root, gcvars, thrown>>

MapHeaderFails(c) ==
  /\ At(c, "header")
  /\ Goto(c, "error")
  /\ UNCHANGED <<file, initState, memory, gcvars, thrown>>

FirstInit(c) ==
  /\ At(c, "firstInit")
  /\ Goto(c, "done")
  /\ UNCHANGED <<file, initState, memory, gcvars, thrown>>

Verify(c) ==
  /\ At(c, "verify")
  /\ Goto(c, "gcOff")
  /\ UNCHANGED <<file, initState, memory, gcvars, thrown>>

VerifyFails(c) ==
  /\ At(c, "verify")
  /\ header' = FALSE
  /\ Goto(c, "error")
  /\ UNCHANGED <<file, initState, arenas, mapped, root, gcvars, thrown>>

\* setGCPercent(-1) sets the percentage ...
DisableGC(c) ==
  /\ At(c, "gcOff")
  /\ gcp' = gcPercent
  /\ gcPercent' = "off"
  /\ Goto(c, "gcLoad")
  /\ UNCHANGED <<file, initState, memory, col, waiting, starting, marking, collected, raced, thrown>>

\* ... and then waits for the end of the cycle that work.cycles names, if its mark
\* phase is under way.
LoadCycles(c) ==
  /\ At(c, "gcLoad")
  /\ waiting' = IF marking THEN waiting \cup {c} ELSE waiting
  /\ raced' = (starting = "auto")
  /\ Goto(c, "gcWait")
  /\ UNCHANGED <<file, initState, memory, gcPercent, gcp, col, starting, marking, collected, thrown>>

\* Variant: setGCPercent does not wait.
NoWaitOnMark(c) ==
  /\ At(c, "gcWait")
  /\ Goto(c, IF narenas = 0 THEN "done" ELSE "map")
  /\ UNCHANGED <<file, initState, memory, gcvars, thrown>>

\* mapArenas returns at once when the file has no arenas.
WaitOnMark(c) ==
  /\ At(c, "gcWait")
  /\ c \notin waiting
  /\ Goto(c, IF narenas = 0 THEN "done" ELSE "map")
  /\ UNCHANGED <<file, initState, memory, gcvars, thrown>>

\* Variant: counting from 0.
NextArenaFromZero == arenas

\* The arena at which the loop of mapArenas is.
NextArena == arenas + 1

\* Variant: the arena is mapped again although the first attempt succeeded.
MapArenaTwice(c) ==
  /\ At(c, "map")
  /\ NextArena <= narenas
  /\ mapped' = mapped \cup ({NextArena} \X Places)
  /\ Goto(c, "reconstruct")
  /\ UNCHANGED <<file, initState, header, arenas, root, gcvars, thrown>>

\* The next arena, where it was in the previous run or anywhere else.
MapArena(c) ==
  /\ At(c, "map")
  /\ NextArena <= narenas
  /\ \E where \in Places : mapped' = mapped \cup {<<NextArena, where>>}
  /\ Goto(c, "reconstruct")
  /\ UNCHANGED <<file, initState, header, arenas, root, gcvars, thrown>>

\* unmapArenas unmaps each arena where its header says that it is: until it
\* has been swizzled, that is where the previous run had it.
UnmapArenas == mapped \ ((1..arenas) \X {"previous"})

MapArenaFails(c) ==
  /\ At(c, "map")
  /\ NextArena <= narenas
  /\ mapped' = UnmapArenas
  /\ header' = FALSE
  /\ Goto(c, "error")
  /\ UNCHANGED <<file, initState, arenas, root, gcvars, thrown>>

\* reconstruct creates the spans of the arena; then it is in the slice.
Reconstruct(c) ==
  /\ At(c, "reconstruct")
  /\ arenas' = NextArena
  /\ Goto(c, IF NextArena = narenas THEN "swizzle" ELSE "map")
  /\ UNCHANGED <<file, initState, header, mapped, root, gcvars, thrown>>

\* For a row of free pages reconstruct makes a span and frees it.  The span keeps
\* the sweepgen of whatever it was last, 0 if it is a new one, and
\* freeSpanLocked throws "invalid free" unless that is h.sweepgen.
ReconstructThrows(c) ==
  /\ At(c, "reconstruct")
  /\ collected
  /\ thrown' = TRUE
  /\ UNCHANGED <<file, initState, pc, memory, gcvars>>

\* swizzleArenas up to the last step, which sets the root.
SwizzleArenas(c) ==
  /\ At(c, "swizzle")
  /\ Goto(c, IF hasRoot THEN "setRoot" ELSE "done")
  /\ UNCHANGED <<file, initState, memory, gcvars, thrown>>

SetRoot(c) ==
  /\ At(c, "setRoot")
  /\ root' = TRUE
  /\ Goto(c, "done")
  /\ UNCHANGED <<file, initState, header, arenas, mapped, gcvars, thrown>>

\* The offset of the root leads to no span.  By now the headers say where the
\* arenas are.
SetRootFails(c) ==
  /\ At(c, "setRoot")
  /\ mapped' = {}
  /\ header' = FALSE
  /\ Goto(c, "error")
  /\ UNCHANGED <<file, initState, arenas, root, gcvars, thrown>>

\* Variant: the header is unmapped on success too.
InitDoneUnmaps(c) ==
  /\ At(c, "done")
  /\ initState' = "initDone"
  /\ header' = FALSE
  /\ Goto(c, IF first THEN "ok" ELSE "enableGC")
  /\ UNCHANGED <<file, arenas, mapped, root, gcvars, thrown>>

InitDone(c) ==
  /\ At(c, "done")
  /\ initState' = "initDone"
  /\ Goto(c, IF first THEN "ok" ELSE "enableGC")
  /\ UNCHANGED <<file, memory, gcvars, thrown>>

\* Variant: the old percentage is not restored.
EnableGCOnly(c) ==
  /\ At(c, "enableGC")
  /\ Goto(c, "ok")
  /\ UNCHANGED <<file, initState, memory, gcvars, thrown>>

EnableGC(c) ==
  /\ At(c, "enableGC")
  /\ gcPercent' = gcp
  /\ col' = [col EXCEPT ![Spawned] = "call"]
  /\ Goto(c, "ok")
  /\ UNCHANGED <<file, initState, memory, gcp, waiting, starting, marking, collected, raced, thrown>>

------------------------------------------------------------------------------
(* Garbage collection.                                                     *)

\* GC looks at initState once, when it is called.
GC(k) ==
  /\ ~thrown /\ col[k] = "call"
  /\ IF initState = "initOngoing"
     THEN thrown' = TRUE /\ UNCHANGED col
     ELSE col' = [col EXCEPT ![k] = "checked"] /\ UNCHANGED thrown
  /\ UNCHANGED <<file, initState, pc, memory, gcPercent, gcp, waiting, starting, marking, collected, raced>>

\* It loads work.cycles and waits for the end of a mark phase that is under way.
GCLoad(k) ==
  /\ ~thrown /\ col[k] = "checked"
  /\ col' = [col EXCEPT ![k] = "loaded"]
  /\ waiting' = IF marking THEN waiting \cup {k} ELSE waiting
  /\ UNCHANGED <<file, initState, pc, memory, gcPercent, gcp, starting, marking, collected, raced, thrown>>

\* gcStart: no cycle has begun since, so the test succeeds whatever the percentage.
GCStart(k) ==
  /\ ~thrown /\ col[k] = "loaded"
  /\ k \notin waiting
  /\ starting = "free"
  /\ starting' = "called"
  /\ col' = [col EXCEPT ![k] = "start"]
  /\ UNCHANGED <<file, initState, pc, memory, gcPercent, gcp, waiting, marking, collected, raced, thrown>>

\* gcStart, called by the allocator or for sysmon: the test fails when the
\* percentage is negative.
AutoGC ==
  /\ ~thrown /\ ~marking
  /\ starting = "free"
  /\ gcPercent = "on"
  /\ starting' = "auto"
  /\ UNCHANGED <<file, initState, pc, memory, gcPercent, gcp, col, waiting, marking, collected, raced, thrown>>

\* The rest of gcStart, up to setGCPhase(_GCmark).  A call of GC that has loaded
\* work.cycles before needs no other cycle.
BeginCycle ==
  /\ ~thrown /\ starting # "free"
  /\ starting' = "free"
  /\ marking' = TRUE
  /\ col' = [k \in DOMAIN col |-> IF col[k] \in {"loaded", "start"} THEN "none" ELSE col[k]]
  /\ UNCHANGED <<file, initState, pc, memory, gcPercent, gcp, waiting, collected, raced, thrown>>

\* Mark termination wakes those who wait; gcSweep moves h.sweepgen on.
MarkTermination ==
  /\ ~thrown /\ marking
  /\ marking' = FALSE
  /\ waiting' = {}
  /\ collected' = TRUE
  /\ raced' = FALSE
  /\ UNCHANGED <<file, initState, pc, memory, gcPercent, gcp, col, starting, thrown>>

------------------------------------------------------------------------------

Step(c) == \/ Cas(c)
           \/ MapHeader(c) \/ MapHeaderFails(c)
           \/ FirstInit(c)
           \/ Verify(c) \/ VerifyFails(c)
           \/ DisableGC(c) \/ LoadCycles(c) \/ WaitOnMark(c)
           \/ MapArena(c) \/ MapArenaFails(c)
           \/ Reconstruct(c) \/ ReconstructThrows(c)
           \/ SwizzleArenas(c) \/ SetRoot(c) \/ SetRootFails(c)
           \/ InitDone(c) \/ EnableGC(c)

Collect(k) == GC(k) \/ GCLoad(k) \/ GCStart(k)

Next == \/ \E c \in Caller : Step(c)
        \/ \E k \in Collector \cup {Spawned} : Collect(k)
        \/ AutoGC
        \/ BeginCycle
        \/ MarkTermination

\* The scheduler runs every goroutine that can run, and a mark phase that has been
\* decided on begins and ends.
Fairness == /\ \A c \in Caller : WF_vars(Step(c))
            /\ WF_vars(Collect(Spawned))
            /\ WF_vars(BeginCycle)
            /\ WF_vars(MarkTermination)

Spec == Init /\ [][Next]_vars /\ Fairness

------------------------------------------------------------------------------
(* Properties.                                                             *)

Inside(c) == pc[c] \notin {"start", "ok", "error"}
Mapping(c) == pc[c] \in {"map", "reconstruct", "swizzle", "setRoot"}

Active(c) == Inside(c) \/ pc[c] = "ok"

\* Persistent memory is initialized once: no two callers are past the
\* compare-and-swap of PmemInit together, and none is once another has succeeded.
InitOnce == \A c, d \in Caller : Active(c) /\ Active(d) => c = d

\* The first n arenas, and no others, are mapped, each in one place.
MappedUpTo(n) == \A i \in 1..MaxArenas :
                    IF i <= n THEN <<i, "previous">> \in mapped <=> <<i, "elsewhere">> \notin mapped
                    ELSE \A where \in Places : <<i, where>> \notin mapped

\* When initState says initDone (which is what mallocgc looks at), the header
\* is mapped, every arena of the file is mapped in exactly one place and has
\* been reconstructed, and the root is there if the file has one.
DoneIsComplete ==
  initState = "initDone" => header /\ arenas = narenas /\ MappedUpTo(narenas) /\ root = hasRoot

\* With no call of runtime.GC, the only collection that can be under way while
\* spans are reconstructed and pointers rewritten is one whose start had been decided
\* when setGCPercent(-1) looked for a cycle to wait for; any other is over by then.
NoAutoGC == (\A k \in Collector : col[k] = "call") =>
               \A c \in Caller : Mapping(c) /\ marking => raced

\* Every call of PmemInit returns, unless the process is thrown away.
CallsReturn == \A c \in Caller : []<>(pc[c] \in {"ok", "error"} \/ thrown)

\* After a restart that succeeds, the percentage is what it was, and a collection
\* runs even with GOGC=off, which alone frees the slots that reconstruct marked as
\* in use.
CollectedAfterInit ==
  \A c \in Caller : (pc[c] = "enableGC") ~> ((gcPercent = gcp /\ marking) \/ thrown)

(* The inductive invariant behind InitOnce and DoneIsComplete.              *)

\* What initState says about the callers.
StateOfCallers ==
  /\ initState = "initNotDone" => /\ \A c \in Caller : ~Active(c)
                                  /\ ~header /\ arenas = 0 /\ mapped = {} /\ ~root
  /\ \A c \in Caller : pc[c] \in {"enableGC", "ok"} => initState = "initDone"
  /\ \A c \in Caller : Inside(c) /\ pc[c] # "enableGC" => initState = "initOngoing"

\* What has been mapped when a caller is at a statement.
Progress(c) ==
  /\ pc[c] = "header" => ~header /\ arenas = 0 /\ mapped = {} /\ ~root
  /\ pc[c] = "firstInit" => first
  /\ pc[c] \in {"firstInit", "verify", "gcOff", "gcLoad", "gcWait"} => header /\ arenas = 0 /\ mapped = {} /\ ~root
  /\ pc[c] = "map" => header /\ arenas < narenas /\ MappedUpTo(arenas) /\ ~root
  /\ pc[c] = "reconstruct" => header /\ arenas < narenas /\ MappedUpTo(arenas + 1) /\ ~root
  /\ pc[c] \in {"swizzle", "setRoot"} => header /\ arenas = narenas /\ MappedUpTo(narenas) /\ ~root
  /\ pc[c] = "setRoot" => hasRoot
  /\ pc[c] = "done" => header /\ arenas = narenas /\ MappedUpTo(narenas) /\ root = hasRoot

\* Whoever is inside PmemInit has mapped what the statements before say, and is
\* alone in it: so the state is complete when initDone is stored.
InitInv == /\ (first => narenas = 0) /\ (hasRoot => narenas > 0)
           /\ InitOnce
           /\ StateOfCallers
           /\ \A c \in Caller : Progress(c)
           /\ DoneIsComplete

------------------------------------------------------------------------------
(* What the documentation says.                                            *)

\* PmemInit "returns a pointer and an error.  The error indicates if persistent
\* memory initialization was successful": it does not throw the process away.
\* (Where the application calls GC itself, GC may also throw.)
ErrorsAreReturned == Collector = {} => ~thrown
==============================================================================
