------------------------------- MODULE Swizzle -------------------------------
(***************************************************************************)
(* Pointer swizzling: swizzleArenas and arenaInfo.swizzle of               *)
(* src/src/runtime/pmemHeap.go.  Arenas of the persistent memory file may  *)
(* be mapped at other addresses than in the previous run, so every pointer *)
(* stored in them is rewritten before the application sees the heap.  The  *)
(* process may crash at any point of this, any number of times.            *)
(*                                                                         *)
(* Persistent state: the words of every arena (its header fields mapAddr,  *)
(* delta, bytesSwizzled and its heap), the undo log of every arena, the    *)
(* swizzle state and the root offset of the common header.  pm is the      *)
(* arena as the CPU sees it, nvm as a power failure would leave it; the    *)
(* two differ only between a store and the PersistRange that follows it.   *)
(* The calls of the undo log are atomic here: module UndoLog shows that    *)
(* they behave so.                                                         *)
(*                                                                         *)
(* Addresses and offsets count 8-byte words.  The spans of an arena, as    *)
(* reconstruct() has rebuilt them, are a parameter.  The file header in    *)
(* front of the first arena is left out: SetRoot, computeRootAddr and the  *)
(* undo log count offsets from the arena header.                           *)
(***************************************************************************)
EXTENDS Integers, Sequences, FiniteSets

CONSTANTS MaxArenas,     \* bound: the arenas the heap may grow to
          PageSize,      \* words of a page (8192 bytes)
          AllocSize,     \* words managed by the allocator in each arena
          Spans,         \* for each arena, the set of its in-use spans
          MaxLogEntries, \* maxLogEntries
          MapAddrs,      \* addresses at which an arena may be mapped
          Files,         \* the files to start from
          TargetOff,     \* offsets of objects the application points to
          VolatileAddrs, \* addresses of volatile memory
          AppCallBackSet \* does the application register AppCallBack

Arena == 1..MaxArenas

\* Word offsets of the header fields that swizzling changes, the start of the
\* heap, and the size of an arena.
MapAddr       == 0
Delta         == 1
BytesSwizzled == 2
Mdata         == 3
Size          == Mdata + AllocSize
Word          == 0..(Size - 1)

\* The three swizzle states of the common header.
SwizzleDone    == 0
SwizzleSetup   == 1
SwizzleOngoing == 2

\* What a pointer word means to the application: nothing, volatile memory, or a
\* word of an arena.
Nil      == [arena |-> 0, off |-> 0]
Volatile == [arena |-> 0, off |-> 1]
Target   == {Nil, Volatile} \cup [arena : Arena, off : Word]

\* A span: base and npages, the size and number of its elements, whether it is
\* known to hold no pointers, and the heap words whose type bits say pointer.
SpanEnd(s) == s.base + s.npages * PageSize
Limit(s)   == s.base + s.elemsize * s.nelems

PtrWords(a) == UNION {s.ptrs : s \in {t \in Spans[a] : ~t.noscan}}

Disjoint(m, as) == \A a, b \in as : a # b => m[a] + Size <= m[b] \/ m[b] + Size <= m[a]

ASSUME SizeAssumption == /\ MaxArenas \in Nat \ {0}
                         /\ PageSize \in Nat \ {0}
                         /\ AllocSize \in Nat \ {0}
                         /\ MaxLogEntries \in Nat /\ MaxLogEntries >= 2
ASSUME AddrAssumption == /\ MapAddrs \subseteq Nat \ {0}
                         /\ VolatileAddrs \subseteq Nat \ {0}
                         /\ TargetOff \subseteq Mdata..(Size - 1)
ASSUME SpanAssumption == \A a \in Arena : PtrWords(a) \subseteq 0..(AllocSize - 1)

\* A file to start from: where its arenas are mapped, what every pointer word and
\* the root pointer lead to, and two bounds: the crashes and the application's
\* stores that follow.
ASSUME FileAssumption ==
  \A f \in Files :
    LET as == 1..Len(f.map)
    IN  /\ f.map \in Seq(MapAddrs) /\ Len(f.map) \in Arena
        /\ Disjoint(f.map, as)
        /\ f.root \in [arena : as, off : Mdata..(Size - 1)]
        /\ f.target \in [Arena -> [0..(AllocSize - 1) -> {Nil} \cup [arena : as, off : Word]]]
        /\ \A a \in Arena \ as : \A w \in 0..(AllocSize - 1) : f.target[a][w] = Nil
        /\ f.crashes \in Nat /\ f.stores \in Nat

VARIABLES
  pm, nvm,       \* the words of every arena
  log,           \* the undo log of every arena
  swizzleState,  \* pmemHeader.swizzleState
  rootOffset,    \* pmemHeader.rootOffset
  n,             \* the number of arenas in the file (mappedSize)
  pc, k,         \* where swizzleArenas is, and in which arena of a loop
  addr,          \* ar.mapAddr of every arena in this run
  offsetTable,   \* offsetTable
  rangeTable,    \* rangeTable[a].s (rangeTable[a].e is Size words higher)
  sw,            \* the goroutine that swizzles each arena
  root,          \* pmemInfo.root
  target,        \* what the application has stored in each pointer word
  rootTarget,    \* and as the root pointer
  crashes, stores \* what is left of the bounds

persistent == <<pm, nvm, log, swizzleState, rootOffset, n>>
tables     == <<offsetTable, rangeTable>>
app        == <<target, rootTarget, stores>>
vars == <<pm, nvm, log, swizzleState, rootOffset, n, pc, k, addr, offsetTable,
          rangeTable, sw, root, target, rootTarget, crashes, stores>>

Arenas == 1..n

------------------------------------------------------------------------------
(* Undo log and PersistRange, on the words of one arena.                   *)

LogEntry(a, off) == /\ Len(log[a]) < MaxLogEntries
                    /\ log' = [log EXCEPT ![a] = Append(@, [off |-> off, val |-> pm[a][off]])]

ResetLog(a) == log' = [log EXCEPT ![a] = <<>>]

LoggedIn(a) == {log[a][j].off : j \in 1..Len(log[a])}

\* The value that revertLog leaves in a logged word: entries are copied back in
\* the order in which they were logged, so the last one wins.
LoggedVal(a, off) ==
  log[a][CHOOSE j \in 1..Len(log[a]) :
           /\ log[a][j].off = off
           /\ \A i \in (j + 1)..Len(log[a]) : log[a][i].off # off].val

\* The words mem of arena a with the logged ones restored.
Restored(a, mem) == [w \in Word |-> IF w \in LoggedIn(a) THEN LoggedVal(a, w) ELSE mem[w]]

\* Variant: the data are persisted but the log is not emptied.
CommitNoReset(a) == /\ nvm' = [nvm EXCEPT ![a] =
                                 [w \in Word |-> IF w \in LoggedIn(a) THEN pm[a][w] ELSE nvm[a][w]]]
                    /\ UNCHANGED log

\* Persist every logged word, then empty the log.
CommitLog(a) == /\ nvm' = [nvm EXCEPT ![a] =
                             [w \in Word |-> IF w \in LoggedIn(a) THEN pm[a][w] ELSE nvm[a][w]]]
                /\ ResetLog(a)

\* A single store and the PersistRange that follows it.
StorePersist(a, off, v) == /\ pm' = [pm EXCEPT ![a][off] = v]
                           /\ nvm' = [nvm EXCEPT ![a][off] = v]

\* Variant: one iteration too many.
LoopTooFar(here, next) == IF k <= n THEN pc' = here /\ k' = k + 1
                                    ELSE pc' = next /\ k' = 1

\* The last statement of every loop over the arenas.
Loop(here, next) == IF k < n THEN pc' = here /\ k' = k + 1
                             ELSE pc' = next /\ k' = 1

------------------------------------------------------------------------------
(* Pointer arithmetic.                                                     *)

InRange(x, a) == rangeTable[a] <= x /\ x < rangeTable[a] + Size

\* Variant: a pointer into no arena is left alone.
SwizzleOrKeep(x) ==
  IF \E a \in Arenas : InRange(x, a)
  THEN LET ind == CHOOSE a \in Arenas : InRange(x, a) /\ \A b \in 1..(a - 1) : ~InRange(x, b)
       IN  x + offsetTable[ind]
  ELSE x

\* SwizzlePointer: the first arena whose range holds the pointer gives the
\* offset (findArenaIndex); a pointer into no arena becomes nil.
SwizzlePointer(x) ==
  IF \E a \in Arenas : InRange(x, a)
  THEN LET ind == CHOOSE a \in Arenas : InRange(x, a) /\ \A b \in 1..(a - 1) : ~InRange(x, b)
       IN  x + offsetTable[ind]
  ELSE 0

\* Variant: the sizes of the arenas before the one found are not subtracted.
RootAddrNoTotal(offset) ==
  LET a == CHOOSE b \in Arenas : (b - 1) * Size <= offset /\ offset < b * Size
  IN  addr[a] + offset

\* computeRootAddr: the arena that holds the file offset, and the address there.
ComputeRootAddr(offset) ==
  LET a == CHOOSE b \in Arenas : (b - 1) * Size <= offset /\ offset < b * Size
  IN  addr[a] + (offset - (a - 1) * Size)

\* SetRoot(x): the root of this run, and its persistent offset in the file.
SetRootTo(x) ==
  /\ root' = x
  /\ rootOffset' = LET a == CHOOSE b \in Arenas : addr[b] <= x /\ x < addr[b] + Size
                    IN  (a - 1) * Size + (x - addr[a])

------------------------------------------------------------------------------
(* The words that swizzle() inspects in arena a when it starts at offset d *)
(* of the heap.  spanOfHeap answers nil above the limit of a span as well  *)
(* as for a page that belongs to no span; in both cases the walk skips a   *)
(* page.                                                                   *)

SpanOfHeap(a, d) == {s \in Spans[a] : s.base <= d /\ d < Limit(s)}

Inspected(a, d0) ==
  LET walk[d \in 0..(AllocSize + PageSize)] ==
        IF d >= AllocSize THEN {}
        ELSE IF SpanOfHeap(a, d) = {} THEN walk[d + PageSize]
        ELSE LET s == CHOOSE t \in SpanOfHeap(a, d) : TRUE
             IN  (IF s.noscan THEN {} ELSE {w \in s.ptrs : w >= d}) \cup walk[SpanEnd(s)]
  IN  walk[d0]

\* The inspected words that are still ahead of goroutine a and that it will
\* rewrite: pointers that are not nil and change when swizzled.
Pending(a) == {w \in Inspected(a, sw[a].start) :
                 /\ w >= sw[a].next
                 /\ pm[a][Mdata + w] # 0
                 /\ SwizzlePointer(pm[a][Mdata + w]) # pm[a][Mdata + w]}

------------------------------------------------------------------------------
Idle0 == [pc |-> "off", start |-> 0, next |-> 0, w |-> 0]

NoMap   == [a \in Arena |-> 0]
NoTable == [a \in Arena |-> 0]

Value(t, m) == IF t.arena = 0 THEN 0 ELSE m[t.arena] + t.off

InitFrom(f) ==
  /\ pm = [a \in Arena |-> [w \in Word |->
             IF a \notin DOMAIN f.map THEN 0
             ELSE IF w = MapAddr THEN f.map[a]
             ELSE IF w < Mdata THEN 0
             ELSE Value(f.target[a][w - Mdata], f.map)]]
  /\ nvm = pm
  /\ log = [a \in Arena |-> <<>>]
  /\ swizzleState = SwizzleDone
  /\ rootOffset = (f.root.arena - 1) * Size + f.root.off
  /\ n = Len(f.map)
  /\ pc = "running"
  /\ k = 1
  /\ addr = [a \in Arena |-> IF a \in DOMAIN f.map THEN f.map[a] ELSE 0]
  /\ offsetTable = NoTable
  /\ rangeTable = NoTable
  /\ sw = [a \in Arena |-> Idle0]
  /\ root = f.map[f.root.arena] + f.root.off
  /\ target = f.target
  /\ rootTarget = f.root
  /\ crashes = f.crashes
  /\ stores = f.stores

Init == \E f \in Files : InitFrom(f)

------------------------------------------------------------------------------
(* A new run: mapArenas maps every arena, at its old address if it can, at *)
(* any address otherwise, and calls swizzleArenas.                         *)

MapArenas == /\ pc = "down"
             /\ \E m \in [Arenas -> MapAddrs] :
                   /\ Disjoint(m, Arenas)
                   /\ addr' = [a \in Arena |-> IF a \in Arenas THEN m[a] ELSE 0]
             /\ pc' = CASE swizzleState = SwizzleSetup   -> "revertSetup"
                        [] swizzleState = SwizzleOngoing -> "revertOngoing"
                        [] swizzleState = SwizzleDone    -> "prepare"
             /\ UNCHANGED <<persistent, k, tables, sw, root, app, crashes>>

\* The first half of revertLog: the logged values are stored back.
RevertStore == /\ pc \in {"revertSetup", "revertOngoing"}
               /\ pm' = [pm EXCEPT ![k] = Restored(k, pm[k])]
               /\ pc' = IF pc = "revertSetup" THEN "revertSetupReset" ELSE "revertOngoingReset"
               /\ UNCHANGED <<nvm, log, swizzleState, rootOffset, n, k, addr, tables, sw,
                              root, app, crashes>>

\* The second half, when a swizzle setup was interrupted.
RevertSetup == /\ pc = "revertSetupReset"
               /\ CommitLog(k)
               /\ Loop("revertSetup", "setDone")
               /\ UNCHANGED <<pm, swizzleState, rootOffset, n, addr, tables, sw, root,
                              app, crashes>>

\* Variant: the range is taken from mapAddr alone.
RevertOngoingNoDelta == /\ pc = "revertOngoingReset"
                        /\ CommitLog(k)
                        /\ offsetTable' = [offsetTable EXCEPT ![k] = pm[k][Delta]]
                        /\ rangeTable' = [rangeTable EXCEPT ![k] = pm[k][MapAddr]]
                        /\ Loop("revertOngoing", "complete")
                        /\ UNCHANGED <<pm, swizzleState, rootOffset, n, addr, sw, root, app, crashes>>

\* The second half, when swizzling was interrupted; the tables are those of the
\* interrupted operation.
RevertOngoing == /\ pc = "revertOngoingReset"
                 /\ CommitLog(k)
                 /\ offsetTable' = [offsetTable EXCEPT ![k] = pm[k][Delta]]
                 /\ rangeTable' = [rangeTable EXCEPT ![k] = pm[k][MapAddr] - pm[k][Delta]]
                 /\ Loop("revertOngoing", "complete")
                 /\ UNCHANGED <<pm, swizzleState, rootOffset, n, addr, sw, root, app, crashes>>

------------------------------------------------------------------------------
(* Completing the interrupted operation.                                   *)

\* Variant: the recorded progress is ignored.
SpawnFromStart == sw' = [a \in Arena |-> IF a \in Arenas THEN [Idle0 EXCEPT !.pc = "walk"]
                                                          ELSE sw[a]]

\* "go ar.swizzle(dc)" for every arena.
Spawn == sw' = [a \in Arena |-> IF a \in Arenas
                                THEN [Idle0 EXCEPT !.pc = "walk",
                                                   !.start = pm[a][BytesSwizzled],
                                                   !.next = pm[a][BytesSwizzled]]
                                ELSE sw[a]]

\* "<-dc" for every arena.
AllDone == \A a \in Arenas : sw[a].pc = "done"

Complete == /\ pc = "complete"
            /\ Spawn
            /\ pc' = "completing"
            /\ UNCHANGED <<persistent, k, addr, tables, root, app, crashes>>

Completed == /\ pc = "completing"
             /\ AllDone
             /\ sw' = [a \in Arena |-> Idle0]
             /\ pc' = "completeLog"
             /\ UNCHANGED <<persistent, k, addr, tables, root, app, crashes>>

CompleteLog == /\ pc = "completeLog"
               /\ LogEntry(k, Delta)
               /\ pc' = "completeDelta"
               /\ UNCHANGED <<pm, nvm, swizzleState, rootOffset, n, k, addr, tables, sw,
                              root, app, crashes>>

CompleteDelta == /\ pc = "completeDelta"
                 /\ StorePersist(k, Delta, 0)
                 /\ Loop("completeLog", "setDone")
                 /\ UNCHANGED <<log, swizzleState, rootOffset, n, addr, tables, sw, root,
                                app, crashes>>

SetDone == /\ pc = "setDone"
           /\ swizzleState' = SwizzleDone
           /\ pc' = "prepare"
           /\ UNCHANGED <<pm, nvm, log, rootOffset, n, k, addr, tables, sw, root, app, crashes>>

------------------------------------------------------------------------------
(* Swizzling for this run.                                                 *)

Prepare == /\ pc = "prepare"
           /\ StorePersist(k, BytesSwizzled, 0)
           /\ pc' = "prepareTables"
           /\ UNCHANGED <<log, swizzleState, rootOffset, n, k, addr, tables, sw, root,
                          app, crashes>>

\* Variant: a delta left by an interrupted setup is forgotten.
PrepareNoDelta == /\ pc = "prepareTables"
                  /\ ResetLog(k)
                  /\ offsetTable' = [offsetTable EXCEPT ![k] = addr[k] - pm[k][MapAddr]]
                  /\ rangeTable' = [rangeTable EXCEPT ![k] = pm[k][MapAddr]]
                  /\ Loop("prepare", "setSetup")
                  /\ UNCHANGED <<pm, nvm, swizzleState, rootOffset, n, addr, sw, root,
                                 app, crashes>>

PrepareTables == /\ pc = "prepareTables"
                 /\ ResetLog(k)
                 /\ offsetTable' = [offsetTable EXCEPT
                                      ![k] = addr[k] - (pm[k][MapAddr] - pm[k][Delta])]
                 /\ rangeTable' = [rangeTable EXCEPT ![k] = pm[k][MapAddr] - pm[k][Delta]]
                 /\ Loop("prepare", "setSetup")
                 /\ UNCHANGED <<pm, nvm, swizzleState, rootOffset, n, addr, sw, root,
                                app, crashes>>

SetSetup == /\ pc = "setSetup"
            /\ swizzleState' = SwizzleSetup
            /\ pc' = "setupLogMap"
            /\ UNCHANGED <<pm, nvm, log, rootOffset, n, k, addr, tables, sw, root, app, crashes>>

SetupLogMap == /\ pc = "setupLogMap"
               /\ LogEntry(k, MapAddr)
               /\ pc' = "setupLogDelta"
               /\ UNCHANGED <<pm, nvm, swizzleState, rootOffset, n, k, addr, tables, sw,
                              root, app, crashes>>

\* Variant: delta is changed without having been logged.
SetupNoLogDelta == /\ pc = "setupLogDelta"
                   /\ pc' = "setupStore"
                   /\ UNCHANGED <<persistent, k, addr, tables, sw, root, app, crashes>>

SetupLogDelta == /\ pc = "setupLogDelta"
                 /\ LogEntry(k, Delta)
                 /\ pc' = "setupStore"
                 /\ UNCHANGED <<pm, nvm, swizzleState, rootOffset, n, k, addr, tables, sw,
                                root, app, crashes>>

SetupStore == /\ pc = "setupStore"
              /\ pm' = [pm EXCEPT ![k][MapAddr] = addr[k], ![k][Delta] = offsetTable[k]]
              /\ pc' = "setupCommit"
              /\ UNCHANGED <<nvm, log, swizzleState, rootOffset, n, k, addr, tables, sw,
                             root, app, crashes>>

SetupCommit == /\ pc = "setupCommit"
               /\ CommitLog(k)
               /\ Loop("setupLogMap", "setOngoing")
               /\ UNCHANGED <<pm, swizzleState, rootOffset, n, addr, tables, sw, root,
                              app, crashes>>

SetOngoing == /\ pc = "setOngoing"
              /\ swizzleState' = SwizzleOngoing
              /\ pc' = IF AppCallBackSet THEN "callback" ELSE "start"
              /\ UNCHANGED <<pm, nvm, log, rootOffset, n, k, addr, tables, sw, root,
                             app, crashes>>

\* The application aborts its own undo log; what it does to the heap is its own
\* business (it stores pointers of the interrupted run).
CallBack == /\ pc = "callback"
            /\ pc' = "start"
            /\ UNCHANGED <<persistent, k, addr, tables, sw, root, app, crashes>>

Start == /\ pc = "start"
         /\ Spawn
         /\ pc' = "swizzling"
         /\ UNCHANGED <<persistent, k, addr, tables, root, app, crashes>>

Swizzled == /\ pc = "swizzling"
            /\ AllDone
            /\ sw' = [a \in Arena |-> Idle0]
            /\ pc' = "clearLog"
            /\ UNCHANGED <<persistent, k, addr, tables, root, app, crashes>>

ClearLog == /\ pc = "clearLog"
            /\ LogEntry(k, Delta)
            /\ pc' = "clearDelta"
            /\ UNCHANGED <<pm, nvm, swizzleState, rootOffset, n, k, addr, tables, sw, root,
                           app, crashes>>

ClearDelta == /\ pc = "clearDelta"
              /\ StorePersist(k, Delta, 0)
              /\ Loop("clearLog", "finalReset")
              /\ UNCHANGED <<log, swizzleState, rootOffset, n, addr, tables, sw, root,
                             app, crashes>>

\* "Set swizzle state as swizzleDone // TODO": the state is not changed here.
FinalReset == /\ pc = "finalReset"
              /\ ResetLog(k)
              /\ Loop("finalReset", "setRoot")
              /\ UNCHANGED <<pm, nvm, swizzleState, rootOffset, n, addr, tables, sw, root,
                             app, crashes>>

\* SetRoot(computeRootAddr(rootOffset)), and the return to the application.
SetRoot == /\ pc = "setRoot"
           /\ IF rootOffset # 0 THEN SetRootTo(ComputeRootAddr(rootOffset))
                               ELSE UNCHANGED <<root, rootOffset>>
           /\ pc' = "running"
           /\ offsetTable' = NoTable
           /\ rangeTable' = NoTable
           /\ UNCHANGED <<pm, nvm, log, swizzleState, n, k, addr, sw, app, crashes>>

------------------------------------------------------------------------------
(* The goroutine that swizzles arena a: for each pointer, log the progress *)
(* and the pointer, store both, commit.                                    *)

LogProgress(a) == /\ sw[a].pc = "walk"
                  /\ Pending(a) # {}
                  /\ LogEntry(a, BytesSwizzled)
                  /\ sw' = [sw EXCEPT ![a].pc = "logPtr",
                                      ![a].w = CHOOSE w \in Pending(a) : \A x \in Pending(a) : w <= x]
                  /\ UNCHANGED <<pm, nvm, swizzleState, rootOffset, n, pc, k, addr, tables,
                                 root, app, crashes>>

LogPtr(a) == /\ sw[a].pc = "logPtr"
             /\ LogEntry(a, Mdata + sw[a].w)
             /\ sw' = [sw EXCEPT ![a].pc = "store"]
             /\ UNCHANGED <<pm, nvm, swizzleState, rootOffset, n, pc, k, addr, tables, root,
                            app, crashes>>

StorePtr(a) == /\ sw[a].pc = "store"
               /\ LET p == Mdata + sw[a].w
                  IN  pm' = [pm EXCEPT ![a][BytesSwizzled] = sw[a].w + 1,
                                       ![a][p] = SwizzlePointer(pm[a][p])]
               /\ sw' = [sw EXCEPT ![a].pc = "commit"]
               /\ UNCHANGED <<nvm, log, swizzleState, rootOffset, n, pc, k, addr, tables,
                              root, app, crashes>>

CommitPtr(a) == /\ sw[a].pc = "commit"
                /\ CommitLog(a)
                /\ sw' = [sw EXCEPT ![a].pc = "walk", ![a].next = sw[a].w + 1, ![a].w = 0]
                /\ UNCHANGED <<pm, swizzleState, rootOffset, n, pc, k, addr, tables, root,
                               app, crashes>>

\* Variant: a goroutine with nothing to do returns without "dc <- true".
FinishNoSignal(a) == /\ sw[a].pc = "walk"
                     /\ Pending(a) = {}
                     /\ StorePersist(a, BytesSwizzled, AllocSize)
                     /\ sw' = [sw EXCEPT ![a].pc = IF sw[a].start = AllocSize THEN "off" ELSE "done"]
                     /\ UNCHANGED <<log, swizzleState, rootOffset, n, pc, k, addr, tables, root,
                                    app, crashes>>

Finish(a) == /\ sw[a].pc = "walk"
             /\ Pending(a) = {}
             /\ StorePersist(a, BytesSwizzled, AllocSize)
             /\ sw' = [sw EXCEPT ![a] = [Idle0 EXCEPT !.pc = "done"]]
             /\ UNCHANGED <<log, swizzleState, rootOffset, n, pc, k, addr, tables, root,
                            app, crashes>>

------------------------------------------------------------------------------
(* The application, once PmemInit has returned.                            *)

\* A pointer is stored (and persisted) in a word of a scanned span.
AppStore(a, w, t, v) == /\ pc = "running"
                        /\ stores > 0
                        /\ StorePersist(a, Mdata + w, v)
                        /\ target' = [target EXCEPT ![a][w] = t]
                        /\ stores' = stores - 1
                        /\ UNCHANGED <<log, swizzleState, rootOffset, n, pc, k, addr,
                                       tables, sw, root, rootTarget, crashes>>

StoreNil == \E a \in Arenas : \E w \in PtrWords(a) : AppStore(a, w, Nil, 0)

StorePointer == \E a, b \in Arenas, off \in TargetOff : \E w \in PtrWords(a) :
                  AppStore(a, w, [arena |-> b, off |-> off], addr[b] + off)

\* No arena is mapped where volatile memory is.
StoreVolatile == \E a \in Arenas, v \in VolatileAddrs : \E w \in PtrWords(a) :
                   /\ \A b \in Arenas : ~(addr[b] <= v /\ v < addr[b] + Size)
                   /\ AppStore(a, w, Volatile, v)

AppSetRoot == /\ pc = "running"
              /\ stores > 0
              /\ \E a \in Arenas, off \in TargetOff :
                    /\ SetRootTo(addr[a] + off)
                    /\ rootTarget' = [arena |-> a, off |-> off]
              /\ stores' = stores - 1
              /\ UNCHANGED <<pm, nvm, log, swizzleState, n, pc, k, addr, tables, sw,
                             target, crashes>>

\* The heap grows by an arena: its header is written, then mappedSize.  It is not
\* mapped over volatile memory that a word of the heap keeps alive.
Grow == /\ pc = "running"
        /\ n < MaxArenas
        /\ \E m \in MapAddrs :
              /\ Disjoint([addr EXCEPT ![n + 1] = m], 1..(n + 1))
              /\ \A a \in Arenas : \A w \in PtrWords(a) :
                    target[a][w] = Volatile => pm[a][Mdata + w] \notin m..(m + Size - 1)
              /\ addr' = [addr EXCEPT ![n + 1] = m]
              /\ StorePersist(n + 1, MapAddr, m)
        /\ n' = n + 1
        /\ UNCHANGED <<log, swizzleState, rootOffset, pc, k, tables, sw, root, app,
                       crashes>>

\* The application computes; it may also stop here for good.
Compute == /\ pc = "running"
           /\ UNCHANGED vars

------------------------------------------------------------------------------
\* The process or the machine crashes: of the words stored but not persisted,
\* any subset survives.
Crash == /\ crashes > 0
         /\ pc # "down"
         /\ crashes' = crashes - 1
         /\ \E kept \in SUBSET {aw \in Arena \X Word : pm[aw[1]][aw[2]] # nvm[aw[1]][aw[2]]} :
               /\ nvm' = [a \in Arena |-> [w \in Word |->
                            IF <<a, w>> \in kept THEN pm[a][w] ELSE nvm[a][w]]]
               /\ pm' = nvm'
         /\ pc' = "down"
         /\ k' = 1
         /\ addr' = NoMap
         /\ offsetTable' = NoTable
         /\ rangeTable' = NoTable
         /\ sw' = [a \in Arena |-> Idle0]
         /\ root' = 0
         /\ UNCHANGED <<log, swizzleState, rootOffset, n, app>>

------------------------------------------------------------------------------
Main == \/ MapArenas
        \/ RevertStore \/ RevertSetup \/ RevertOngoing
        \/ Complete \/ Completed \/ CompleteLog \/ CompleteDelta \/ SetDone
        \/ Prepare \/ PrepareTables \/ SetSetup
        \/ SetupLogMap \/ SetupLogDelta \/ SetupStore \/ SetupCommit
        \/ SetOngoing \/ CallBack \/ Start \/ Swizzled
        \/ ClearLog \/ ClearDelta \/ FinalReset \/ SetRoot

Swizzler(a) == \/ LogProgress(a) \/ LogPtr(a) \/ StorePtr(a) \/ CommitPtr(a)
               \/ Finish(a)

Application == StoreNil \/ StorePointer \/ StoreVolatile \/ AppSetRoot \/ Grow \/ Compute

Next == Main \/ (\E a \in Arenas : Swizzler(a)) \/ Application \/ Crash

Spec == Init /\ [][Next]_vars

\* The goroutine running PmemInit and the swizzling goroutines are scheduled as
\* long as they can run; nothing is assumed of the application or of crashes.
Fairness == WF_vars(Main) /\ \A a \in Arena : WF_vars(a \in Arenas /\ Swizzler(a))

FairSpec == Spec /\ Fairness

------------------------------------------------------------------------------
(* Properties.                                                             *)

PCs == {"down", "revertSetup", "revertSetupReset", "revertOngoing",
        "revertOngoingReset", "complete", "completing", "completeLog",
        "completeDelta", "setDone", "prepare", "prepareTables", "setSetup",
        "setupLogMap", "setupLogDelta", "setupStore", "setupCommit",
        "setOngoing", "callback", "start", "swizzling", "clearLog",
        "clearDelta", "finalReset", "setRoot", "running"}

SwizzlerState == [pc : {"off", "walk", "logPtr", "store", "commit", "done"},
                  start : 0..AllocSize, next : 0..AllocSize, w : 0..AllocSize]

\* Every word, table and program counter of swizzleArenas and swizzle stays in its
\* range; its loops over the arenas stay inside the arena slice.
TypeOK == /\ pm \in [Arena -> [Word -> Int]]
          /\ nvm \in [Arena -> [Word -> Int]]
          /\ log \in [Arena -> Seq([off : Word, val : Int])]
          /\ swizzleState \in {SwizzleDone, SwizzleSetup, SwizzleOngoing}
          /\ rootOffset \in Nat
          /\ n \in Arena
          /\ pc \in PCs
          /\ k \in Arenas
          /\ addr \in [Arena -> MapAddrs \cup {0}]
          /\ offsetTable \in [Arena -> Int]
          /\ rangeTable \in [Arena -> Int]
          /\ sw \in [Arena -> SwizzlerState]
          /\ root \in Nat
          /\ target \in [Arena -> [0..(AllocSize - 1) -> Target]]
          /\ rootTarget \in [arena : Arena, off : Word]
          /\ crashes \in Nat
          /\ stores \in Nat

\* logEntry never throws "No more space in the arena to log values": wherever it
\* is called (pmemHeap.go 816, 851, 852, 879, 1006, 1007) an entry is free.
LogRoom ==
  /\ pc \in {"completeLog", "setupLogMap", "setupLogDelta", "clearLog"}
       => Len(log[k]) < MaxLogEntries
  /\ \A a \in Arenas : sw[a].pc \in {"walk", "logPtr"} => Len(log[a]) < MaxLogEntries

\* The pointer value v, in arenas based at m, means t.
Denotes(v, t, m) ==
  IF t = Volatile THEN \A b \in Arenas : ~(m[b] <= v /\ v < m[b] + Size)
                  ELSE v = Value(t, m)

\* When PmemInit returns, and ever after, every pointer in the heap leads to the
\* object it led to when the application stored it, wherever the arenas are
\* mapped now and whatever crashed in between.
PointersPreserved ==
  pc = "running" => \A a \in Arenas : \A w \in PtrWords(a) :
                      Denotes(pm[a][Mdata + w], target[a][w], addr)

\* A pointer to volatile memory does not survive into the next run.
VolatileDropped ==
  pc = "setRoot" => \A a \in Arenas : \A w \in PtrWords(a) :
                      target[a][w] = Volatile => pm[a][Mdata + w] = 0

\* The application root returned by PmemInit is the object last given to
\* SetRoot.
RootPreserved ==
  pc = "running" => /\ root = Value(rootTarget, addr)
                    /\ ComputeRootAddr(rootOffset) = root

\* AppCallBack, in which the application aborts its own undo log, is called with
\* the root at its new address, and sees a heap that SwizzlePointer (which it
\* may call) still translates as a whole: however many interrupted runs were
\* completed before, no pointer has been rewritten for this run.
CallBackBeforeSwizzle ==
  pc = "callback" =>
    /\ ComputeRootAddr(rootOffset) = Value(rootTarget, addr)
    /\ \A a \in Arenas : \A w \in PtrWords(a) :
          LET v == pm[a][Mdata + w]
          IN  target[a][w] # Volatile =>
                (IF v = 0 THEN 0 ELSE SwizzlePointer(v)) = Value(target[a][w], addr)

\* The words of an arena as the next run will use them if the process crashes
\* now: the log is reverted, unless the state is swizzleDone, when the next run
\* discards it.
Recovered(a) == IF swizzleState = SwizzleDone THEN nvm[a] ELSE Restored(a, nvm[a])

OldBase == [a \in Arenas |-> Recovered(a)[MapAddr] - Recovered(a)[Delta]]
NewBase == [a \in Arenas |-> Recovered(a)[MapAddr]]

\* At every instant, whichever stores have reached persistent memory, what is
\* there suffices to finish the job: each pointer below the recorded progress
\* of a swizzle in progress is relative to mapAddr, every other pointer to
\* mapAddr - delta.
Recoverable ==
  \A a \in Arenas : \A w \in PtrWords(a) :
    Denotes(Recovered(a)[Mdata + w], target[a][w],
            IF swizzleState = SwizzleOngoing /\ w < Recovered(a)[BytesSwizzled]
            THEN NewBase ELSE OldBase)

\* The recorded progress of an arena never goes backwards while its swizzling
\* is in progress: no crash makes a later run redo a pointer.
ProgressKept ==
  [][swizzleState = SwizzleOngoing /\ swizzleState' = SwizzleOngoing
       => \A a \in Arenas : Recovered(a)'[BytesSwizzled] >= Recovered(a)[BytesSwizzled]]_vars

\* Initialization completes: once crashes stop, PmemInit returns and the
\* application runs.
InitCompletes == <>[](pc = "running")

\* For the layouts on which the walk can be resumed anywhere: from every word
\* that swizzle() may have recorded as its progress it reaches all pointers
\* from there on.
ResumePoints(a) == {0, AllocSize} \cup {w + 1 : w \in PtrWords(a)}
ResumableLayout == \A a \in Arena : \A d \in ResumePoints(a) :
                     Inspected(a, d) = {w \in PtrWords(a) : w >= d}

==============================================================================
