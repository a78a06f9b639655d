----------------------------- MODULE TypeProfile -----------------------------
(***************************************************************************)
(* Type profiling: typeIndex, which mallocgc calls for every small         *)
(* persistent object with pointers, counts the allocations of each type    *)
(* and announces a type to typeProfileThread on its first allocation.      *)
(* That goroutine wakes up every sleepInterval and gives the types that    *)
(* are allocated often an index of their own, kept in pmemHeader.typeMap.  *)
(* PmemInit restores the indices after a restart.                          *)
(*                                                                         *)
(* The counters are kept as far as their comparisons can tell: total is    *)
(* typProf up to the first value above every threshold, recent is          *)
(* typProf - prevAllocs up to the first value above FreqTarget.  typMap is *)
(* indexed from 0 as in the code.  Slices have index 1 without profiling   *)
(* and are left out.                                                       *)
(***************************************************************************)
EXTENDS Naturals, FiniteSets, FiniteSetsExt

CONSTANTS M,              \* the goroutines that allocate
          Type,           \* the types they allocate
          SizeClasses,    \* the size classes of their objects and arrays of objects
          ClassToObjects, \* class_to_objects, by size class; 0 for the class 0
          FreqTarget,     \* the allocations between two visits that do not yet count as many (100)
          TypMapSize,     \* the length of typMap (100)
          MaxCacheTypes,  \* maxCacheTypes
          TotalCap,       \* bound: typProf is counted up to this, above every class_to_objects
          MaxCrashes,     \* bound: power failures in a behaviour
          None

ASSUME ClassAssumption == /\ 0 \notin SizeClasses
                          /\ ClassToObjects \in [SizeClasses \cup {0} -> Nat]
                          /\ ClassToObjects[0] = 0
ASSUME BoundAssumption == /\ FreqTarget \in Nat /\ MaxCrashes \in Nat /\ TotalCap \in Nat
                          /\ \A c \in SizeClasses \cup {0} : ClassToObjects[c] < TotalCap
                          /\ TypMapSize \in Nat /\ MaxCacheTypes \in Nat \ {0, 1, 2}

\* A program has finitely many types, maybe more than typMap has places.
ASSUME TypeAssumption == IsFiniteSet(Type) /\ None \notin Type

Index == 2..(MaxCacheTypes - 1)

VARIABLES total,         \* typProf
          recent,        \* typProf - prevAllocs
          sizeclassMap,
          numTypToCheck,
          typMap,
          typAssigns,
          numAssigned,
          typeMap,       \* pmemHeader.typeMap, by the index that the code computes as i + 2
          dTypeMap,      \* what a power failure leaves of it
          g,             \* where each goroutine is in typeIndex
          th,            \* where typeProfileThread is
          thrown,        \* the process was ended by throw
          crashes

counters == <<total, recent, sizeclassMap>>
indices  == <<typAssigns, numAssigned, typeMap, dTypeMap>>
vars     == <<counters, numTypToCheck, typMap, indices, g, th, thrown, crashes>>

RecentCap == FreqTarget + 1
Up(n, cap) == IF n < cap THEN n + 1 ELSE cap

Away    == [pc |-> "away", typ |-> None, class |-> 0, num |-> 0]
Thread0 == [pc |-> "start", i |-> 0, typ |-> None, curr |-> 0, since |-> 0]

CallState   == [pc : {"away", "class", "xadd", "publish"}, typ : Type \cup {None},
                class : SizeClasses \cup {0}, num : Nat]
ThreadState == [pc : {"start", "sleep", "check", "judge", "store", "persist", "clear", "ended"},
                i : Nat, typ : Type \cup {None}, curr : 0..TotalCap, since : 0..RecentCap]

\* Indices stay below maxCacheTypes, since the mcaches, the mcentrals and the
\* type map have no room for more; the thread stops at the last one, and does not
\* start over when a restart has restored them all.
TypeOK == /\ total \in [Type -> 0..TotalCap]
          /\ recent \in [Type -> 0..RecentCap]
          /\ sizeclassMap \in [Type -> SizeClasses \cup {0}]
          /\ numTypToCheck \in Nat
          /\ typMap \in [0..(TypMapSize - 1) -> Type \cup {None}]
          /\ typAssigns \in [Type -> Index \cup {0}]
          /\ numAssigned \in Index \cup {1}
          /\ typeMap \in [Index -> Type \cup {None}] /\ dTypeMap \in [Index -> Type \cup {None}]
          /\ g \in [M -> CallState]
          /\ th \in ThreadState
          /\ thrown \in BOOLEAN
          /\ crashes \in 0..MaxCrashes

\* The volatile state of a new process.
Init == /\ total = [t \in Type |-> 0]
        /\ recent = total
        /\ sizeclassMap = [t \in Type |-> 0]
        /\ numTypToCheck = 0
        /\ typMap = [i \in 0..(TypMapSize - 1) |-> None]
        /\ typAssigns = [t \in Type |-> 0]
        /\ numAssigned = 1
        /\ typeMap = [n \in Index |-> None]
        /\ dTypeMap = typeMap
        /\ g = [m \in M |-> Away]
        /\ th = Thread0
        /\ thrown = FALSE
        /\ crashes = 0

------------------------------------------------------------------------------
(* typeIndex.                                                              *)

\* The allocations of a type since the thread read its counter.
Since(t) == IF th.typ = t /\ th.pc \in {"judge", "store", "persist", "clear"}
            THEN [th EXCEPT !.since = Up(@, RecentCap)] ELSE th

\* Variant: the first allocation is recognised by what the second one may not yet see.
CountUnseen(m, t, c) ==
  /\ g[m] = Away
  /\ typAssigns[t] = 0
  /\ total' = [total EXCEPT ![t] = Up(@, TotalCap)]
  /\ recent' = [recent EXCEPT ![t] = Up(@, RecentCap)]
  /\ th' = Since(t)
  /\ g' = IF sizeclassMap[t] = 0 THEN [g EXCEPT ![m] = [pc |-> "class", typ |-> t, class |-> c, num |-> 0]]
          ELSE g
  /\ UNCHANGED <<sizeclassMap, numTypToCheck, typMap, indices, crashes>>

\* The type has no index: count the allocation atomically.  The first one of a
\* type goes on to announce it.  With an index nothing is counted; a promotion
\* between the look at typAssigns and the count changes only a counter that nobody
\* reads again.
Count(m, t, c) ==
  /\ g[m] = Away
  /\ typAssigns[t] = 0
  /\ total' = [total EXCEPT ![t] = Up(@, TotalCap)]
  /\ recent' = [recent EXCEPT ![t] = Up(@, RecentCap)]
  /\ th' = Since(t)
  /\ g' = IF total[t] = 0 THEN [g EXCEPT ![m] = [pc |-> "class", typ |-> t, class |-> c, num |-> 0]]
          ELSE g
  /\ UNCHANGED <<sizeclassMap, numTypToCheck, typMap, indices, crashes>>

SetClass(m) ==
  /\ g[m].pc = "class"
  /\ sizeclassMap' = [sizeclassMap EXCEPT ![g[m].typ] = g[m].class]
  /\ g' = [g EXCEPT ![m].pc = "xadd"]
  /\ UNCHANGED <<total, recent, numTypToCheck, typMap, indices, th, crashes>>

Claim(m) ==
  /\ g[m].pc = "xadd"
  /\ numTypToCheck' = numTypToCheck + 1
  /\ g' = [g EXCEPT ![m] = [pc |-> "publish", typ |-> g[m].typ, class |-> g[m].class, num |-> numTypToCheck']]
  /\ UNCHANGED <<counters, typMap, indices, th, crashes>>

Publish(m) ==
  /\ g[m].pc = "publish"
  /\ g[m].num - 1 < TypMapSize
  /\ typMap' = [typMap EXCEPT ![g[m].num - 1] = g[m].typ]
  /\ g' = [g EXCEPT ![m] = Away]
  /\ UNCHANGED <<counters, numTypToCheck, indices, th, crashes>>

\* typMap[num-1] with no place left: panicIndex, called from the runtime, throws
\* and the process is over.
PublishThrows(m) ==
  /\ g[m].pc = "publish"
  /\ g[m].num - 1 >= TypMapSize
  /\ thrown' = TRUE
  /\ UNCHANGED <<counters, numTypToCheck, typMap, indices, g, th, crashes>>

------------------------------------------------------------------------------
(* typeProfileThread.                                                      *)

\* Variant: the thread starts although no index is left.
StartAlways ==
  /\ th.pc = "start"
  /\ th' = [th EXCEPT !.pc = "sleep"]
  /\ UNCHANGED <<counters, numTypToCheck, typMap, indices, g, crashes>>

StartThread ==
  /\ th.pc = "start"
  /\ th' = [th EXCEPT !.pc = IF numAssigned = MaxCacheTypes - 1 THEN "ended" ELSE "sleep"]
  /\ UNCHANGED <<counters, numTypToCheck, typMap, indices, g, crashes>>

\* timeSleep(sleepInterval), then the first iteration.
Wake ==
  /\ th.pc = "sleep"
  /\ th' = [Thread0 EXCEPT !.pc = "check"]
  /\ UNCHANGED <<counters, numTypToCheck, typMap, indices, g, crashes>>

NextType == [pc |-> "check", i |-> th.i + 1, typ |-> None, curr |-> 0, since |-> 0]

RoundEnd ==
  /\ th.pc = "check"
  /\ th.i >= numTypToCheck
  /\ th' = [th EXCEPT !.pc = "sleep"]
  /\ UNCHANGED <<counters, numTypToCheck, typMap, indices, g, crashes>>

\* A place that is claimed and not published yet, or of a type that has an index.
Skip ==
  /\ th.pc = "check"
  /\ th.i < numTypToCheck
  /\ th.i < TypMapSize
  /\ typMap[th.i] # None => typAssigns[typMap[th.i]] # 0
  /\ th' = NextType
  /\ UNCHANGED <<counters, numTypToCheck, typMap, indices, g, crashes>>

\* The place is claimed, its goroutine has not thrown yet, and typMap[i] does.
LoadThrows ==
  /\ th.pc = "check"
  /\ th.i < numTypToCheck
  /\ th.i >= TypMapSize
  /\ thrown' = TRUE
  /\ UNCHANGED <<counters, numTypToCheck, typMap, indices, g, th, crashes>>

\* Read the counter of the type once for the threshold.
ReadCount ==
  /\ th.pc = "check"
  /\ th.i < numTypToCheck
  /\ th.i < TypMapSize
  /\ typMap[th.i] # None /\ typAssigns[typMap[th.i]] = 0
  /\ th' = [pc |-> "judge", i |-> th.i, typ |-> typMap[th.i], curr |-> total[typMap[th.i]], since |-> 0]
  /\ UNCHANGED <<counters, numTypToCheck, typMap, indices, g, crashes>>

Frequent == /\ th.curr > ClassToObjects[sizeclassMap[th.typ]]
            /\ recent[th.typ] > FreqTarget

\* prevAllocs[off] = currAllocs
SetPrev == recent' = [recent EXCEPT ![th.typ] = th.since]

Judge ==
  /\ th.pc = "judge"
  /\ ~Frequent
  /\ SetPrev
  /\ th' = NextType
  /\ UNCHANGED <<total, sizeclassMap, numTypToCheck, typMap, indices, g, crashes>>

\* The type gets the next index, visible to typeIndex at once.
Promote ==
  /\ th.pc = "judge"
  /\ Frequent
  /\ numAssigned' = numAssigned + 1
  /\ typAssigns' = [typAssigns EXCEPT ![th.typ] = numAssigned']
  /\ th' = [th EXCEPT !.pc = "store"]
  /\ UNCHANGED <<counters, numTypToCheck, typMap, typeMap, dTypeMap, g, crashes>>

StoreType ==
  /\ th.pc = "store"
  /\ typeMap' = [typeMap EXCEPT ![numAssigned] = th.typ]
  /\ th' = [th EXCEPT !.pc = "persist"]
  /\ UNCHANGED <<counters, numTypToCheck, typMap, typAssigns, numAssigned, dTypeMap, g, crashes>>

\* Variant: the entry is not flushed.
TypeNotPersisted ==
  /\ th.pc = "persist"
  /\ th' = [th EXCEPT !.pc = "clear"]
  /\ UNCHANGED <<counters, numTypToCheck, typMap, indices, g, crashes>>

PersistType ==
  /\ th.pc = "persist"
  /\ dTypeMap' = [dTypeMap EXCEPT ![numAssigned] = typeMap[numAssigned]]
  /\ th' = [th EXCEPT !.pc = "clear"]
  /\ UNCHANGED <<counters, numTypToCheck, typMap, typAssigns, numAssigned, typeMap, g, crashes>>

\* The type needs no more checks; with the last index the thread returns.
ClearType ==
  /\ th.pc = "clear"
  /\ typMap' = [typMap EXCEPT ![th.i] = None]
  /\ IF numAssigned = MaxCacheTypes - 1
     THEN th' = [NextType EXCEPT !.pc = "ended"] /\ UNCHANGED recent
     ELSE th' = NextType /\ SetPrev
  /\ UNCHANGED <<total, sizeclassMap, numTypToCheck, indices, g, crashes>>

------------------------------------------------------------------------------
(* Power failures and restarts.                                            *)

EvictType(n) ==
  /\ dTypeMap[n] # typeMap[n]
  /\ dTypeMap' = [dTypeMap EXCEPT ![n] = typeMap[n]]
  /\ UNCHANGED <<counters, numTypToCheck, typMap, typAssigns, numAssigned, typeMap, g, th, thrown, crashes>>

\* The entries in front of the first free one.
Restorable == {n \in Index : \A k \in 2..n : dTypeMap[k] # None}

\* Variant: numAssigned is not counted up.
RestoreAssigns ==
  /\ typAssigns' = [t \in Type |-> Max({0} \cup {n \in Restorable : dTypeMap[n] = t})]
  /\ numAssigned' = 1

\* PmemInit: restore the type information.
RestoreTypes ==
  /\ typAssigns' = [t \in Type |-> Max({0} \cup {n \in Restorable : dTypeMap[n] = t})]
  /\ numAssigned' = 1 + Cardinality(Restorable)

\* A power failure, or the end of a process that has thrown; the next process initializes and starts the thread.
Crash ==
  /\ crashes < MaxCrashes
  /\ crashes' = crashes + 1
  /\ total' = [t \in Type |-> 0]
  /\ recent' = total'
  /\ sizeclassMap' = [t \in Type |-> 0]
  /\ numTypToCheck' = 0
  /\ typMap' = [i \in 0..(TypMapSize - 1) |-> None]
  /\ typeMap' = dTypeMap
  /\ RestoreTypes
  /\ g' = [m \in M |-> Away]
  /\ th' = Thread0
  /\ thrown' = FALSE
  /\ UNCHANGED dTypeMap

TypeIndex(m) == \/ \E t \in Type, c \in SizeClasses : Count(m, t, c)
                \/ SetClass(m) \/ Claim(m) \/ Publish(m)

TypeProfileThread == \/ StartThread \/ Wake \/ RoundEnd \/ Skip \/ ReadCount \/ Judge
                     \/ Promote \/ StoreType \/ PersistType \/ ClearType

Run   == ~thrown /\ UNCHANGED thrown /\ (TypeProfileThread \/ \E m \in M : TypeIndex(m))
Throw == ~thrown /\ (LoadThrows \/ \E m \in M : PublishThrows(m))

Next == \/ Run
        \/ Throw
        \/ \E n \in Index : EvictType(n)
        \/ Crash

Spec == Init /\ [][Next]_vars

------------------------------------------------------------------------------
(* Properties.                                                             *)

\* The types that were counted since the process started.
Seen == {t \in Type : total[t] # 0}

\* However many goroutines allocate the first objects of a type at once, each
\* type takes one place of typMap: typeIndex and typeProfileThread, which check no
\* bound, index typMap outside it and throw only in a process that has counted
\* more than TypMapSize types without a restored index.
TypMapRoom == thrown => Cardinality(Seen) > TypMapSize

\* What a power failure leaves of the type map is a row of different types
\* without a gap, so that PmemInit, which stops at the first free place, restores
\* every index that became durable and gives none of them away a second time.
TypeMapRow == \A n \in Index : dTypeMap[n] # None =>
                 \A k \in 2..(n - 1) : dTypeMap[k] # None /\ dTypeMap[k] # dTypeMap[n]

\* The type of an index never changes once it is durable, in this run or in any
\* later one: spans logged with the index stay spans of that type.
IndexKept == [][\A n \in Index : dTypeMap[n] # None => dTypeMap'[n] = dTypeMap[n]]_vars
==============================================================================
