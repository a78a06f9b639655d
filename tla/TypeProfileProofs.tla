-------------------------- MODULE TypeProfileProofs --------------------------
(***************************************************************************)
(* TypMapRoom, TypeMapRow and IndexKept hold for every number of           *)
(* goroutines, types, classes, indices and power failures.                 *)
(***************************************************************************)
EXTENDS TypeProfile, FiniteSetTheorems, TLAPS

\* The goroutines that have counted the first object of a type and not yet
\* claimed a place for it.
Announcing == {m \in M : g[m].pc \in {"class", "xadd"}}

\* Every type that was counted has a place or is about to get one.
RoomInv == /\ IsFiniteSet(Announcing)
           /\ numTypToCheck + Cardinality(Announcing) = Cardinality(Seen)
           /\ \A m \in M : g[m].pc = "publish" => g[m].num \in 1..numTypToCheck
           /\ \A m \in M : g[m].pc # "away" => g[m].typ \in Type

\* A process throws when more places are claimed than typMap has.
ThrowInv == thrown => numTypToCheck > TypMapSize

\* The indices that are given out are a row, recorded in both directions; only the
\* last one may be missing in the type map or in what is durable of it.
RowInv == /\ \A n \in Index : typeMap[n] # None <=> n <= numAssigned /\ ~(th.pc = "store" /\ n = numAssigned)
          /\ \A n \in Index : typeMap[n] # None => typAssigns[typeMap[n]] = n
          /\ \A n \in Index : dTypeMap[n] # typeMap[n] =>
                                 n = numAssigned /\ th.pc = "persist" /\ dTypeMap[n] = None
          /\ th.pc \in {"judge", "store", "persist", "clear"} => th.typ \in Type
          /\ th.pc = "judge" => typAssigns[th.typ] = 0
          /\ th.pc \in {"store", "persist", "clear"} => numAssigned >= 2 /\ th.i \in DOMAIN typMap
          /\ th.pc = "store" => typAssigns[th.typ] = numAssigned
          /\ th.pc = "judge" => th.i \in DOMAIN typMap
          /\ th.pc \in {"sleep", "check", "judge"} => numAssigned < MaxCacheTypes - 1
          /\ \A t \in Type : typAssigns[t] <= numAssigned

IInv == TypeOK /\ RoomInv /\ ThrowInv /\ RowInv

------------------------------------------------------------------------------
(* Helpers.                                                                *)

LEMMA UpType == ASSUME NEW cap \in Nat, NEW n \in 0..cap
                PROVE  Up(n, cap) \in 0..cap /\ (cap > 0 => Up(n, cap) > 0)
  BY DEF Up

LEMMA CapPositive == TotalCap \in Nat /\ TotalCap > 0
  BY ClassAssumption, BoundAssumption

LEMMA MaxOfZeroAnd == ASSUME NEW n \in Nat PROVE Max({0} \cup {n}) = n
  <1>1. \A x \in {0} \cup {n} : (\A y \in {0} \cup {n} : x >= y) => x = n
    OBVIOUS
  <1>2. n \in {0} \cup {n} /\ \A y \in {0} \cup {n} : n >= y
    OBVIOUS
  <1> QED BY <1>1, <1>2 DEF Max

LEMMA MaxOfZero == Max({0} \cup {}) = 0
  <1>1. {0} \cup {} = {0} \cup {0}
    OBVIOUS
  <1> QED BY <1>1, MaxOfZeroAnd

------------------------------------------------------------------------------
(* Initial states.                                                         *)

LEMMA InitIInv == Init => IInv
  <1> SUFFICES ASSUME Init PROVE IInv
    OBVIOUS
  <1> USE ClassAssumption, BoundAssumption, TypeAssumption DEF Init
  <1>0. thrown \in BOOLEAN
    OBVIOUS
  <1>1. TypeOK
    BY <1>0 DEF TypeOK, Away, Thread0, RecentCap, Index, CallState, ThreadState
  <1>2. RoomInv
    <2>1. Announcing = {} /\ Seen = {}
      BY DEF Announcing, Seen, Away
    <2> QED BY <2>1, FS_EmptySet DEF RoomInv, Away
  <1>3. RowInv
    BY DEF RowInv, Thread0, Index
  <1>4. ThrowInv
    BY DEF ThrowInv
  <1> QED BY <1>1, <1>2, <1>3, <1>4 DEF IInv

------------------------------------------------------------------------------
(* Types.                                                                  *)

LEMMA CallFields == ASSUME NEW r \in CallState
  PROVE  /\ r.typ \in Type \cup {None} /\ r.class \in SizeClasses \cup {0} /\ r.num \in Nat
         /\ r.pc \in {"away", "class", "xadd", "publish"}
  BY DEF CallState

LEMMA CallExcept == ASSUME NEW r \in CallState
  PROVE  /\ [r EXCEPT !.pc = "xadd"] \in CallState
         /\ [r EXCEPT !.pc = "xadd"].pc = "xadd"
         /\ [r EXCEPT !.pc = "xadd"].typ = r.typ
  <1>1. [r EXCEPT !.pc = "xadd"] \in CallState
    BY DEF CallState
  <1>2. [r EXCEPT !.pc = "xadd"].pc = "xadd"
    BY DEF CallState
  <1>3. [r EXCEPT !.pc = "xadd"].typ = r.typ
    BY DEF CallState
  <1> QED BY <1>1, <1>2, <1>3

PCs == {"start", "sleep", "check", "judge", "store", "persist", "clear", "ended"}

LEMMA ThreadFields == ASSUME NEW r \in ThreadState
  PROVE  /\ r.i \in Nat /\ r.typ \in Type \cup {None} /\ r.curr \in 0..TotalCap
         /\ r.since \in 0..RecentCap /\ r.pc \in PCs
  BY DEF ThreadState, PCs

LEMMA ThreadPc == ASSUME NEW r \in ThreadState, NEW pc \in PCs
  PROVE  /\ [r EXCEPT !.pc = pc] \in ThreadState
         /\ [r EXCEPT !.pc = pc] = [pc |-> pc, i |-> r.i, typ |-> r.typ, curr |-> r.curr, since |-> r.since]
  <1> USE DEF ThreadState, PCs
  <1>1. [r EXCEPT !.pc = pc] \in ThreadState
    OBVIOUS
  <1>2. [r EXCEPT !.pc = pc] = [pc |-> pc, i |-> r.i, typ |-> r.typ, curr |-> r.curr, since |-> r.since]
    OBVIOUS
  <1> QED BY <1>1, <1>2

LEMMA ThreadSince == ASSUME NEW r \in ThreadState, NEW since \in 0..RecentCap
  PROVE  /\ [r EXCEPT !.since = since] \in ThreadState
         /\ [r EXCEPT !.since = since] = [pc |-> r.pc, i |-> r.i, typ |-> r.typ, curr |-> r.curr, since |-> since]
  <1> USE DEF ThreadState
  <1>1. [r EXCEPT !.since = since] \in ThreadState
    OBVIOUS
  <1>2. [r EXCEPT !.since = since] = [pc |-> r.pc, i |-> r.i, typ |-> r.typ, curr |-> r.curr, since |-> since]
    OBVIOUS
  <1> QED BY <1>1, <1>2

LEMMA NextTypeType == ASSUME th \in ThreadState
                      PROVE  /\ NextType \in ThreadState
                             /\ [NextType EXCEPT !.pc = "ended"] \in ThreadState
                             /\ [NextType EXCEPT !.pc = "ended"].pc = "ended"
  <1>1. NextType \in ThreadState
    BY CapPositive, BoundAssumption DEF NextType, RecentCap, ThreadState
  <1>2. "ended" \in PCs
    BY DEF PCs
  <1>3. /\ [NextType EXCEPT !.pc = "ended"] \in ThreadState
        /\ [NextType EXCEPT !.pc = "ended"] = [pc |-> "ended", i |-> NextType.i, typ |-> NextType.typ,
                                               curr |-> NextType.curr, since |-> NextType.since]
    BY <1>1, <1>2, ThreadPc
  <1> QED BY <1>1, <1>3

LEMMA WakeType == /\ [Thread0 EXCEPT !.pc = "check"] \in ThreadState
                  /\ [Thread0 EXCEPT !.pc = "check"].pc = "check"
  <1>1. Thread0 \in ThreadState
    BY CapPositive, BoundAssumption DEF Thread0, RecentCap, ThreadState
  <1>2. "check" \in PCs
    BY DEF PCs
  <1>3. /\ [Thread0 EXCEPT !.pc = "check"] \in ThreadState
        /\ [Thread0 EXCEPT !.pc = "check"] = [pc |-> "check", i |-> Thread0.i, typ |-> Thread0.typ,
                                              curr |-> Thread0.curr, since |-> Thread0.since]
    BY <1>1, <1>2, ThreadPc
  <1> QED BY <1>3

\* What PmemInit restores: the durable row, whatever its last entry.
LEMMA RestoreRow ==
  ASSUME TypeOK, RowInv, RestoreTypes
  PROVE  /\ typAssigns' \in [Type -> Index \cup {0}]
         /\ numAssigned' \in Index \cup {1}
         /\ \A n \in Index : dTypeMap[n] # None <=> n <= numAssigned'
         /\ \A n \in Index : dTypeMap[n] # None => typAssigns'[dTypeMap[n]] = n
         /\ \A t \in Type : typAssigns'[t] <= numAssigned'
  <1> USE BoundAssumption, TypeAssumption DEF TypeOK, Index
  <1> DEFINE last == IF \E n \in Index : dTypeMap[n] # typeMap[n] \/ (typeMap[n] = None /\ n <= numAssigned)
                     THEN numAssigned - 1 ELSE numAssigned
  <1>1. \A n \in Index : dTypeMap[n] # None <=> n <= last
    BY DEF RowInv
  <1>2. last \in Index \cup {1}
    BY DEF RowInv
  <1> HIDE DEF last
  <1>3. Restorable = 2..last
    BY <1>1, <1>2 DEF Restorable
  <1>4. Cardinality(2..last) = last - 1
    BY <1>2, FS_Interval
  <1>5. numAssigned' = last
    BY <1>2, <1>3, <1>4 DEF RestoreTypes
  <1>6. ASSUME NEW n \in Index, dTypeMap[n] # None PROVE typeMap[n] = dTypeMap[n] /\ dTypeMap[n] \in Type
    BY <1>6 DEF RowInv
  <1>7. ASSUME NEW n \in Index, dTypeMap[n] # None PROVE typAssigns'[dTypeMap[n]] = n
    <2>1. dTypeMap[n] \in Type /\ n \in Restorable
      BY <1>1, <1>2, <1>3, <1>6, <1>7
    <2>2. {k \in Restorable : dTypeMap[k] = dTypeMap[n]} = {n}
      <3>1. ASSUME NEW k \in Restorable, dTypeMap[k] = dTypeMap[n] PROVE k = n
        BY <1>2, <1>3, <1>6, <1>7, <3>1 DEF RowInv
      <3> QED BY <2>1, <3>1
    <2>3. n \in Nat
      OBVIOUS
    <2> QED BY <2>1, <2>2, <2>3, MaxOfZeroAnd DEF RestoreTypes
  <1>8. ASSUME NEW t \in Type, \A n \in Index : dTypeMap[n] # t PROVE typAssigns'[t] = 0
    <2>1. {n \in Restorable : dTypeMap[n] = t} = {}
      BY <1>2, <1>3, <1>8
    <2> QED BY <2>1, MaxOfZero DEF RestoreTypes
  <1>9. ASSUME NEW t \in Type PROVE typAssigns'[t] \in Index \cup {0} /\ typAssigns'[t] <= last
    <2>1. CASE \E n \in Index : dTypeMap[n] = t
      BY <1>1, <1>2, <1>7, <2>1
    <2>2. CASE \A n \in Index : dTypeMap[n] # t
      BY <1>2, <1>8, <2>2
    <2> QED BY <2>1, <2>2
  <1>10. typAssigns' \in [Type -> Index \cup {0}]
    BY <1>9 DEF RestoreTypes
  <1> QED BY <1>1, <1>2, <1>5, <1>7, <1>9, <1>10

\* Every action keeps the types; the row of indices bounds numAssigned.
LEMMA TypeStep == IInv /\ [Next]_vars => TypeOK'
  <1> SUFFICES ASSUME TypeOK, RoomInv, RowInv, [Next]_vars PROVE TypeOK'
    BY DEF IInv
  <1>0. thrown' \in BOOLEAN
    BY DEF TypeOK, Next, Run, Throw, LoadThrows, PublishThrows, EvictType, Crash, vars
  <1> USE <1>0, ClassAssumption, BoundAssumption, CapPositive DEF TypeOK, Index, RecentCap
  <1>1. ASSUME NEW m \in M, NEW t \in Type, NEW c \in SizeClasses, Count(m, t, c) PROVE TypeOK'
    <2>1. Up(total[t], TotalCap) \in 0..TotalCap /\ Up(recent[t], RecentCap) \in 0..RecentCap
          /\ Up(th.since, RecentCap) \in 0..RecentCap
      <3>1. TotalCap \in Nat /\ RecentCap \in Nat /\ th.since \in 0..RecentCap
            /\ total[t] \in 0..TotalCap /\ recent[t] \in 0..RecentCap
        BY ThreadFields
      <3> QED BY <3>1, UpType
    <2>2. th' \in ThreadState
      BY <1>1, <2>1, ThreadSince DEF Count, Since
    <2>3. [pc |-> "class", typ |-> t, class |-> c, num |-> 0] \in CallState
      BY DEF CallState
    <2>4. g' \in [M -> CallState]
      BY <1>1, <2>3 DEF Count
    <2> QED BY <1>1, <2>1, <2>2, <2>4 DEF Count, indices
  <1>2. ASSUME NEW m \in M, SetClass(m) PROVE TypeOK'
    <2>1. [g[m] EXCEPT !.pc = "xadd"] \in CallState /\ g[m].class \in SizeClasses \cup {0}
      BY CallExcept, CallFields
    <2>2. g' \in [M -> CallState]
      BY <1>2, <2>1 DEF SetClass
    <2> QED BY <1>2, <2>1, <2>2 DEF SetClass, indices
  <1>3. ASSUME NEW m \in M, Claim(m) PROVE TypeOK'
    <2>1. [pc |-> "publish", typ |-> g[m].typ, class |-> g[m].class, num |-> numTypToCheck + 1] \in CallState
      <3>1. g[m] \in CallState /\ numTypToCheck + 1 \in Nat
        OBVIOUS
      <3> QED BY <3>1, CallFields DEF CallState
    <2>2. g' \in [M -> CallState]
      BY <1>3, <2>1 DEF Claim
    <2> QED BY <1>3, <2>2 DEF Claim, indices, counters
  <1>4. ASSUME NEW m \in M, Publish(m) PROVE TypeOK'
    <2>1. Away \in CallState /\ g[m].typ \in Type \cup {None} /\ g[m].num \in Nat
      BY DEF CallState, Away
    <2> QED BY <1>4, <2>1 DEF Publish, indices, counters
  <1>5. CASE StartThread
    <2>1. th' \in ThreadState
      BY <1>5, ThreadPc DEF StartThread, PCs
    <2> QED BY <1>5, <2>1 DEF StartThread, indices, counters
  <1>6. CASE Wake
    <2>1. th' \in ThreadState
      BY <1>6, WakeType DEF Wake
    <2> QED BY <1>6, <2>1 DEF Wake, indices, counters
  <1>7. CASE RoundEnd
    <2>1. th' \in ThreadState
      BY <1>7, ThreadPc DEF RoundEnd, PCs
    <2> QED BY <1>7, <2>1 DEF RoundEnd, indices, counters
  <1>8. CASE Skip
    BY <1>8, NextTypeType DEF Skip, indices, counters
  <1>9. CASE ReadCount
    <2>1. th.i \in 0..(TypMapSize - 1)
      BY <1>9 DEF ReadCount, ThreadState
    <2>2. typMap[th.i] \in Type /\ total[typMap[th.i]] \in 0..TotalCap
      BY <1>9, <2>1 DEF ReadCount
    <2>3. th' \in ThreadState
      <3>1. 0 \in 0..RecentCap /\ th.i \in Nat
        BY ThreadFields
      <3> QED BY <1>9, <2>2, <3>1 DEF ReadCount, ThreadState
    <2> QED BY <1>9, <2>3 DEF ReadCount, indices, counters
  <1>10. CASE Judge
    <2>1. th.since \in 0..RecentCap
      BY ThreadFields
    <2> QED BY <1>10, <2>1, NextTypeType DEF Judge, SetPrev, indices
  <1>11. CASE Promote
    <2>1. numAssigned' \in Index
      <3>1. numAssigned < MaxCacheTypes - 1 /\ numAssigned' = numAssigned + 1
        BY <1>11 DEF Promote, RowInv
      <3> QED BY <3>1
    <2>3. typAssigns' \in [Type -> Index \cup {0}]
      BY <1>11, <2>1 DEF Promote
    <2>2. th' \in ThreadState
      BY <1>11, ThreadPc DEF Promote, PCs
    <2> QED BY <1>11, <2>1, <2>2, <2>3 DEF Promote, counters
  <1>12. CASE StoreType
    <2>1. numAssigned \in Index /\ th.typ \in Type
      BY <1>12 DEF StoreType, RowInv
    <2>2. th' \in ThreadState
      BY <1>12, ThreadPc DEF StoreType, PCs
    <2> QED BY <1>12, <2>1, <2>2 DEF StoreType, counters
  <1>13. CASE PersistType
    <2>1. numAssigned \in Index
      BY <1>13 DEF PersistType, RowInv
    <2>2. th' \in ThreadState
      BY <1>13, ThreadPc DEF PersistType, PCs
    <2> QED BY <1>13, <2>1, <2>2 DEF PersistType, counters
  <1>14. CASE ClearType
    <2>1. th.since \in 0..RecentCap
      BY ThreadFields
    <2>2. th' \in ThreadState
      BY <1>14, NextTypeType DEF ClearType
    <2>3. recent' \in [Type -> 0..RecentCap]
      BY <1>14, <2>1 DEF ClearType, SetPrev
    <2>4. typMap' \in [0..(TypMapSize - 1) -> Type \cup {None}]
      BY <1>14 DEF ClearType
    <2> QED BY <1>14, <2>2, <2>3, <2>4 DEF ClearType, indices
  <1>15. ASSUME NEW n \in Index, EvictType(n) PROVE TypeOK'
    BY <1>15 DEF EvictType, counters
  <1>16. CASE UNCHANGED vars
    BY <1>16 DEF vars, indices, counters
  <1>17. ASSUME LoadThrows \/ \E m \in M : PublishThrows(m) PROVE TypeOK'
    BY <1>17 DEF LoadThrows, PublishThrows, indices, counters
  <1>18. CASE Crash
    <2>1. Thread0 \in ThreadState /\ Away \in CallState
      BY DEF Thread0, ThreadState, Away, CallState
    <2>2. typAssigns' \in [Type -> Index \cup {0}] /\ numAssigned' \in Index \cup {1}
      BY <1>18, RestoreRow DEF Crash
    <2> QED BY <1>18, <2>1, <2>2 DEF Crash
  <1> QED
    BY <1>1, <1>2, <1>3, <1>4, <1>5, <1>6, <1>7, <1>8, <1>9, <1>10, <1>11, <1>12, <1>13, <1>14,
       <1>15, <1>16, <1>17, <1>18 DEF Next, Run, Throw, TypeIndex, TypeProfileThread

------------------------------------------------------------------------------
(* The places in typMap.                                                   *)

LEMMA SeenFinite == TypeOK => IsFiniteSet(Seen) /\ Cardinality(Seen) \in Nat
  <1>1. Seen \in SUBSET Type
    BY DEF Seen
  <1> QED BY <1>1, TypeAssumption, FS_Subset, FS_CardinalityType

\* A type moves from not counted to announced, to claimed, to published: only the
\* first of these adds to Seen, and each of the others takes one goroutine along.
LEMMA RoomStep == IInv /\ [Next]_vars => RoomInv'
  <1> SUFFICES ASSUME TypeOK, RoomInv, [Next]_vars PROVE RoomInv'
    BY DEF IInv
  <1>0. /\ IsFiniteSet(Announcing) /\ Cardinality(Announcing) \in Nat
        /\ IsFiniteSet(Seen) /\ Cardinality(Seen) \in Nat /\ numTypToCheck \in Nat
    BY FS_CardinalityType, SeenFinite DEF RoomInv, TypeOK
  <1>1. ASSUME UNCHANGED <<total, g, numTypToCheck>> PROVE RoomInv'
    BY <1>1 DEF RoomInv, Announcing, Seen
  <1>2. ASSUME NEW m \in M, NEW t \in Type, NEW c \in SizeClasses, Count(m, t, c) PROVE RoomInv'
    <2>1. Up(total[t], TotalCap) > 0 /\ total[t] \in 0..TotalCap /\ Up(total[t], TotalCap) # 0
      BY UpType, CapPositive DEF TypeOK
    <2>2. numTypToCheck' = numTypToCheck
      BY <1>2 DEF Count
    <2>3. CASE total[t] = 0
      <3>1. Seen' = Seen \cup {t} /\ t \notin Seen
        BY <1>2, <2>1, <2>3 DEF Seen, Count, TypeOK
      <3>2. g' = [g EXCEPT ![m] = [pc |-> "class", typ |-> t, class |-> c, num |-> 0]] /\ g[m] = Away
        BY <1>2, <2>3 DEF Count
      <3>3. Announcing' = Announcing \cup {m} /\ m \notin Announcing
        BY <3>2 DEF Announcing, Away, TypeOK
      <3>4. Cardinality(Seen') = Cardinality(Seen) + 1
        BY <1>0, <3>1, FS_AddElement
      <3>5. Cardinality(Announcing') = Cardinality(Announcing) + 1 /\ IsFiniteSet(Announcing')
        BY <1>0, <3>3, FS_AddElement
      <3>6. \A k \in M : g'[k].pc = "publish" => g'[k].num \in 1..numTypToCheck'
        BY <2>2, <3>2 DEF RoomInv, TypeOK
      <3>7. \A k \in M : g'[k].pc # "away" => g'[k].typ \in Type
        BY <3>2 DEF RoomInv, TypeOK
      <3> QED BY <1>0, <2>2, <3>4, <3>5, <3>6, <3>7 DEF RoomInv
    <2>4. CASE total[t] # 0
      <3>1. Seen' = Seen
        BY <1>2, <2>1, <2>4 DEF Seen, Count, TypeOK
      <3>2. g' = g
        BY <1>2, <2>4 DEF Count
      <3> QED BY <2>2, <3>1, <3>2 DEF RoomInv, Announcing
    <2> QED BY <2>3, <2>4
  <1>3. ASSUME NEW m \in M, SetClass(m) PROVE RoomInv'
    <2>1. g' = [g EXCEPT ![m] = [g[m] EXCEPT !.pc = "xadd"]] /\ total' = total /\ numTypToCheck' = numTypToCheck
      BY <1>3 DEF SetClass
    <2>2. g[m] \in CallState /\ g[m].pc = "class"
      BY <1>3 DEF SetClass, TypeOK
    <2>3. \A k \in M : /\ k # m => g'[k] = g[k]
                       /\ k = m => g'[k].pc = "xadd" /\ g'[k].typ = g[m].typ
      BY <2>1, <2>2, CallExcept DEF TypeOK
    <2>4. Announcing' = Announcing
      BY <2>2, <2>3 DEF Announcing
    <2> QED BY <2>1, <2>2, <2>3, <2>4 DEF RoomInv, Seen
  <1>4. ASSUME NEW m \in M, Claim(m) PROVE RoomInv'
    <2>1. /\ numTypToCheck' = numTypToCheck + 1 /\ total' = total
          /\ g' = [g EXCEPT ![m] = [pc |-> "publish", typ |-> g[m].typ, class |-> g[m].class,
                                    num |-> numTypToCheck + 1]]
          /\ g[m].pc = "xadd"
      BY <1>4 DEF Claim, counters
    <2>2. Announcing' = Announcing \ {m} /\ m \in Announcing
      BY <2>1 DEF Announcing, TypeOK
    <2>3. Cardinality(Announcing') = Cardinality(Announcing) - 1 /\ IsFiniteSet(Announcing')
      BY <1>0, <2>2, FS_RemoveElement
    <2>4. Seen' = Seen
      BY <2>1 DEF Seen
    <2>5. \A k \in M : g'[k].pc = "publish" => g'[k].num \in 1..numTypToCheck'
      BY <1>0, <2>1 DEF RoomInv, TypeOK
    <2>6. \A k \in M : g'[k].pc # "away" => g'[k].typ \in Type
      BY <2>1 DEF RoomInv, TypeOK
    <2> QED BY <1>0, <2>1, <2>3, <2>4, <2>5, <2>6 DEF RoomInv
  <1>5. ASSUME NEW m \in M, Publish(m) PROVE RoomInv'
    <2>1. /\ g' = [g EXCEPT ![m] = Away] /\ g[m].pc = "publish"
          /\ total' = total /\ numTypToCheck' = numTypToCheck
      BY <1>5 DEF Publish, counters
    <2>2. Announcing' = Announcing
      BY <2>1 DEF Announcing, Away, TypeOK
    <2> QED BY <2>1, <2>2 DEF RoomInv, Seen, Away, TypeOK
  <1>6. ASSUME Crash PROVE RoomInv'
    <2>1. Announcing' = {} /\ Seen' = {}
      BY <1>6 DEF Crash, Announcing, Seen, Away
    <2> QED BY <1>6, <2>1, FS_EmptySet DEF Crash, RoomInv, Away
  <1>7. ASSUME TypeProfileThread \/ Throw \/ (\E n \in Index : EvictType(n)) \/ UNCHANGED vars PROVE RoomInv'
    <2>1. UNCHANGED <<total, g, numTypToCheck>>
      BY <1>7 DEF TypeProfileThread, StartThread, Wake, RoundEnd, Skip, ReadCount, Judge, Promote,
                  StoreType, PersistType, ClearType, Throw, LoadThrows, PublishThrows, EvictType, vars, counters
    <2> QED BY <1>1, <2>1
  <1> QED BY <1>2, <1>3, <1>4, <1>5, <1>6, <1>7 DEF Next, Run, TypeIndex

\* Nothing is claimed after a throw, and both throws are at a claimed place.
LEMMA ThrowStep == IInv /\ [Next]_vars => ThrowInv'
  <1> SUFFICES ASSUME TypeOK, RoomInv, ThrowInv, [Next]_vars PROVE ThrowInv'
    BY DEF IInv
  <1>1. CASE Run
    BY <1>1 DEF Run, ThrowInv
  <1>2. ASSUME LoadThrows PROVE ThrowInv'
    <2>1. th.i \in Nat /\ numTypToCheck \in Nat /\ th.i < numTypToCheck /\ th.i >= TypMapSize
      BY <1>2, ThreadFields DEF TypeOK, LoadThrows
    <2>2. numTypToCheck > TypMapSize
      BY <2>1, BoundAssumption
    <2> QED BY <1>2, <2>2 DEF LoadThrows, ThrowInv
  <1>3. ASSUME NEW m \in M, PublishThrows(m) PROVE ThrowInv'
    <2>1. numTypToCheck \in Nat /\ g[m].num \in 1..numTypToCheck /\ g[m].num - 1 >= TypMapSize
      BY <1>3 DEF TypeOK, RoomInv, PublishThrows
    <2>2. numTypToCheck > TypMapSize
      BY <2>1, BoundAssumption
    <2> QED BY <1>3, <2>2 DEF PublishThrows, ThrowInv
  <1>4. ASSUME Crash \/ (\E n \in Index : EvictType(n)) \/ UNCHANGED vars PROVE ThrowInv'
    BY <1>4 DEF Crash, EvictType, vars, ThrowInv
  <1> QED BY <1>1, <1>2, <1>3, <1>4 DEF Next, Throw

------------------------------------------------------------------------------
(* The row of indices.                                                     *)

\* Steps that change neither the indices nor what the row says of the thread.
LEMMA RowFrame ==
  ASSUME TypeOK, TypeOK', RowInv, UNCHANGED indices,
         th'.pc = th.pc, th'.typ = th.typ, th'.i = th.i
  PROVE  RowInv'
  <1>1. DOMAIN typMap' = DOMAIN typMap
    BY DEF TypeOK
  <1> QED BY <1>1 DEF RowInv, indices

\* Steps of the thread that end the visit of a type.
LEMMA RowVisitEnds ==
  ASSUME RowInv, UNCHANGED indices, th.pc \notin {"store", "persist"},
         th'.pc \in {"sleep", "check", "ended"},
         th'.pc \in {"sleep", "check"} => numAssigned < MaxCacheTypes - 1
  PROVE  RowInv'
  BY DEF RowInv, indices

LEMMA RowStep == IInv /\ [Next]_vars => RowInv'
  <1> SUFFICES ASSUME TypeOK, RoomInv, RowInv, [Next]_vars, TypeOK' PROVE RowInv'
    BY TypeStep DEF IInv
  <1>0. /\ th \in ThreadState /\ DOMAIN typMap = 0..(TypMapSize - 1) /\ DOMAIN typMap' = DOMAIN typMap
        /\ typeMap \in [Index -> Type \cup {None}] /\ dTypeMap \in [Index -> Type \cup {None}]
        /\ typAssigns \in [Type -> Index \cup {0}] /\ numAssigned \in Index \cup {1}
    BY DEF TypeOK
  <1>1. ASSUME NEW m \in M, NEW t \in Type, NEW c \in SizeClasses, Count(m, t, c) PROVE RowInv'
    <2>1. th.since \in 0..RecentCap /\ RecentCap \in Nat
      BY <1>0, ThreadFields, BoundAssumption DEF RecentCap
    <2>2. Up(th.since, RecentCap) \in 0..RecentCap
      BY <2>1, UpType
    <2>3. th'.pc = th.pc /\ th'.typ = th.typ /\ th'.i = th.i
      BY <1>0, <1>1, <2>2, ThreadSince DEF Count, Since
    <2>4. UNCHANGED indices
      BY <1>1 DEF Count
    <2> QED BY <2>3, <2>4, RowFrame
  <1>2. ASSUME NEW m \in M, SetClass(m) \/ Claim(m) \/ Publish(m) PROVE RowInv'
    <2>1. UNCHANGED indices /\ th' = th
      BY <1>2 DEF SetClass, Claim, Publish
    <2> QED BY <2>1, RowFrame
  <1>3. CASE StartThread
    <2>1. th'.pc = IF numAssigned = MaxCacheTypes - 1 THEN "ended" ELSE "sleep"
      BY <1>0, <1>3, ThreadPc DEF StartThread, PCs
    <2>2. UNCHANGED indices /\ th.pc = "start"
      BY <1>3 DEF StartThread
    <2>3. numAssigned # MaxCacheTypes - 1 => numAssigned < MaxCacheTypes - 1
      BY <1>0, BoundAssumption DEF Index
    <2> QED BY <2>1, <2>2, <2>3, RowVisitEnds
  <1>4. CASE Wake
    <2>1. th'.pc = "check" /\ UNCHANGED indices /\ th.pc = "sleep"
      BY <1>4, WakeType DEF Wake
    <2> QED BY <2>1, RowVisitEnds DEF RowInv
  <1>5. CASE RoundEnd
    <2>1. th'.pc = "sleep" /\ UNCHANGED indices /\ th.pc = "check"
      BY <1>0, <1>5, ThreadPc DEF RoundEnd, PCs
    <2> QED BY <2>1, RowVisitEnds DEF RowInv
  <1>6. CASE Skip
    <2>1. th'.pc = "check" /\ UNCHANGED indices /\ th.pc = "check"
      BY <1>6 DEF Skip, NextType
    <2> QED BY <2>1, RowVisitEnds DEF RowInv
  <1>7. CASE ReadCount
    <2>1. /\ th'.pc = "judge" /\ th'.i = th.i /\ th'.typ = typMap[th.i] /\ UNCHANGED indices
          /\ th.pc = "check" /\ th.i < TypMapSize
          /\ typMap[th.i] # None /\ typAssigns[typMap[th.i]] = 0
      BY <1>7 DEF ReadCount
    <2>2. th.i \in DOMAIN typMap
      BY <1>0, <2>1, ThreadFields, BoundAssumption
    <2>3. typMap[th.i] \in Type
      BY <2>1, <2>2 DEF TypeOK
    <2> QED BY <1>0, <2>1, <2>2, <2>3 DEF RowInv, indices
  <1>8. CASE Judge
    <2>1. th'.pc = "check" /\ UNCHANGED indices /\ th.pc = "judge"
      BY <1>8 DEF Judge, NextType
    <2> QED BY <2>1, RowVisitEnds DEF RowInv
  <1>9. CASE Promote
    <2>1. /\ th.pc = "judge" /\ numAssigned' = numAssigned + 1
          /\ typAssigns' = [typAssigns EXCEPT ![th.typ] = numAssigned + 1]
          /\ typeMap' = typeMap /\ dTypeMap' = dTypeMap
      BY <1>9 DEF Promote
    <2>2. th'.pc = "store" /\ th'.i = th.i /\ th'.typ = th.typ
      BY <1>0, <1>9, ThreadPc DEF Promote, PCs
    <2>3. th.typ \in Type /\ typAssigns[th.typ] = 0 /\ th.i \in DOMAIN typMap
      BY <2>1 DEF RowInv
    <2>4. \A n \in Index : typeMap[n] # None => typeMap[n] # th.typ
      BY <2>1, <2>3, BoundAssumption DEF RowInv, Index
    <2>5. \A n \in Index : typeMap'[n] # None => typAssigns'[typeMap'[n]] = n
      BY <1>0, <2>1, <2>3, <2>4 DEF RowInv
    <2>6. \A n \in Index : typeMap'[n] # None <=> n <= numAssigned' /\ ~(th'.pc = "store" /\ n = numAssigned')
      BY <1>0, <2>1, <2>2, BoundAssumption DEF RowInv, Index
    <2>7. \A t \in Type : typAssigns'[t] <= numAssigned'
      BY <1>0, <2>1, <2>3, BoundAssumption DEF RowInv, Index
    <2>8. typAssigns'[th'.typ] = numAssigned' /\ numAssigned' >= 2
      BY <1>0, <2>1, <2>2, <2>3, BoundAssumption DEF Index
    <2>9. \A n \in Index : dTypeMap'[n] = typeMap'[n]
      BY <2>1 DEF RowInv
    <2> QED BY <1>0, <2>2, <2>3, <2>5, <2>6, <2>7, <2>8, <2>9 DEF RowInv
  <1>10. CASE StoreType
    <2>1. /\ th.pc = "store" /\ typeMap' = [typeMap EXCEPT ![numAssigned] = th.typ]
          /\ numAssigned' = numAssigned /\ typAssigns' = typAssigns /\ dTypeMap' = dTypeMap
      BY <1>10 DEF StoreType
    <2>2. th'.pc = "persist" /\ th'.i = th.i /\ th'.typ = th.typ
      BY <1>0, <1>10, ThreadPc DEF StoreType, PCs
    <2>3. /\ th.typ \in Type /\ th.typ # None /\ th.i \in DOMAIN typMap /\ numAssigned \in Index
          /\ typAssigns[th.typ] = numAssigned /\ typeMap[numAssigned] = None /\ dTypeMap[numAssigned] = None
      BY <1>0, <2>1, TypeAssumption, BoundAssumption DEF RowInv, Index
    <2>4. \A n \in Index : typeMap'[n] = IF n = numAssigned THEN th.typ ELSE typeMap[n]
      BY <1>0, <2>1
    <2>5. \A n \in Index : typeMap'[n] # None <=> n <= numAssigned
      BY <2>1, <2>3, <2>4 DEF RowInv, Index
    <2>6. \A n \in Index : typeMap'[n] # None => typAssigns[typeMap'[n]] = n
      BY <2>3, <2>4 DEF RowInv
    <2>7. \A n \in Index : dTypeMap[n] # typeMap'[n] => n = numAssigned
      BY <2>1, <2>4 DEF RowInv
    <2>8. numAssigned >= 2 /\ \A t \in Type : typAssigns[t] <= numAssigned
      BY <2>1 DEF RowInv
    <2> QED BY <1>0, <2>1, <2>2, <2>3, <2>5, <2>6, <2>7, <2>8 DEF RowInv
  <1>11. CASE PersistType
    <2>1. /\ th.pc = "persist" /\ dTypeMap' = [dTypeMap EXCEPT ![numAssigned] = typeMap[numAssigned]]
          /\ numAssigned' = numAssigned /\ typAssigns' = typAssigns /\ typeMap' = typeMap
      BY <1>11 DEF PersistType
    <2>2. th'.pc = "clear" /\ th'.i = th.i /\ th'.typ = th.typ
      BY <1>0, <1>11, ThreadPc DEF PersistType, PCs
    <2>3. \A n \in Index : dTypeMap'[n] = typeMap[n]
      BY <1>0, <2>1 DEF RowInv
    <2> QED BY <1>0, <2>1, <2>2, <2>3 DEF RowInv
  <1>12. CASE ClearType
    <2>1. UNCHANGED indices /\ th.pc = "clear"
      BY <1>12 DEF ClearType
    <2>2. th'.pc = IF numAssigned = MaxCacheTypes - 1 THEN "ended" ELSE "check"
      BY <1>0, <1>12, NextTypeType DEF ClearType, NextType
    <2>3. numAssigned # MaxCacheTypes - 1 => numAssigned < MaxCacheTypes - 1
      BY <1>0, BoundAssumption DEF Index
    <2> QED BY <2>1, <2>2, <2>3, RowVisitEnds
  <1>13. ASSUME NEW n \in Index, EvictType(n) PROVE RowInv'
    <2>1. /\ dTypeMap' = [dTypeMap EXCEPT ![n] = typeMap[n]] /\ th' = th
          /\ numAssigned' = numAssigned /\ typAssigns' = typAssigns /\ typeMap' = typeMap
      BY <1>13 DEF EvictType
    <2>2. \A k \in Index : dTypeMap'[k] # typeMap[k] => dTypeMap'[k] = dTypeMap[k]
      BY <1>0, <2>1
    <2> QED BY <1>0, <2>1, <2>2 DEF RowInv
  <1>14. CASE Crash
    <2>1. /\ typeMap' = dTypeMap /\ dTypeMap' = dTypeMap /\ th'.pc = "start"
      BY <1>14 DEF Crash, Thread0
    <2>2. /\ numAssigned' \in Index \cup {1}
          /\ \A n \in Index : dTypeMap[n] # None <=> n <= numAssigned'
          /\ \A n \in Index : dTypeMap[n] # None => typAssigns'[dTypeMap[n]] = n
          /\ \A t \in Type : typAssigns'[t] <= numAssigned'
      BY <1>14, RestoreRow DEF Crash
    <2> QED BY <2>1, <2>2 DEF RowInv
  <1>15. CASE Throw \/ UNCHANGED vars
    <2>1. UNCHANGED indices /\ th' = th
      BY <1>15 DEF Throw, LoadThrows, PublishThrows, vars
    <2> QED BY <2>1, RowFrame
  <1> QED BY <1>1, <1>2, <1>3, <1>4, <1>5, <1>6, <1>7, <1>8, <1>9, <1>10, <1>11, <1>12, <1>13, <1>14, <1>15
          DEF Next, Run, TypeIndex, TypeProfileThread

------------------------------------------------------------------------------
(* The theorems.                                                           *)

\* Every goroutine, type and index is where the two invariants say, in every
\* reachable state of typeIndex, typeProfileThread and the restarts.
THEOREM Invariance == Spec => []IInv
  <1>1. IInv /\ [Next]_vars => IInv'
    BY TypeStep, RoomStep, ThrowStep, RowStep DEF IInv
  <1> QED BY InitIInv, <1>1, PTL DEF Spec

\* numAssigned, the indices in typAssigns and the entries of pmemHeader.typeMap
\* stay below maxCacheTypes, also after a restart that restored every index.
THEOREM TypeCorrect == Spec => []TypeOK
  <1>1. IInv => TypeOK
    BY DEF IInv
  <1> QED BY Invariance, <1>1, PTL

\* typeIndex and typeProfileThread, which check no bound of typMap, throw only
\* in a process that has counted more than TypMapSize types, however the first
\* allocations of a type race: each type has claimed one place.
THEOREM RoomSafe == Spec => []TypMapRoom
  <1>1. IInv => TypMapRoom
    <2> SUFFICES ASSUME TypeOK, RoomInv, numTypToCheck > TypMapSize PROVE Cardinality(Seen) > TypMapSize
      BY DEF IInv, ThrowInv, TypMapRoom
    <2>1. Cardinality(Announcing) \in Nat /\ numTypToCheck \in Nat /\ Cardinality(Seen) \in Nat
      BY FS_CardinalityType, SeenFinite DEF RoomInv, TypeOK
    <2>2. numTypToCheck + Cardinality(Announcing) = Cardinality(Seen)
      BY DEF RoomInv
    <2> QED BY <2>1, <2>2, BoundAssumption
  <1> QED BY Invariance, <1>1, PTL

\* The durable part of pmemHeader.typeMap is a row of different types without a
\* gap at every power failure, between any two steps of typeProfileThread.
THEOREM RowSafe == Spec => []TypeMapRow
  <1>1. IInv => TypeMapRow
    <2> SUFFICES ASSUME TypeOK, RowInv PROVE TypeMapRow
      BY DEF IInv
    <2> SUFFICES ASSUME NEW n \in Index, dTypeMap[n] # None, NEW k \in 2..(n - 1)
                 PROVE  dTypeMap[k] # None /\ dTypeMap[k] # dTypeMap[n]
      BY DEF TypeMapRow
    <2>1. k \in Index /\ k < n /\ n <= numAssigned /\ numAssigned \in Nat
      BY BoundAssumption DEF RowInv, Index, TypeOK
    <2>2. typeMap[n] = dTypeMap[n] /\ typeMap[k] = dTypeMap[k]
      BY <2>1 DEF RowInv, Index
    <2>3. typeMap[k] # None
      BY <2>1 DEF RowInv, Index
    <2>4. typAssigns[typeMap[k]] = k /\ typAssigns[typeMap[n]] = n
      BY <2>1, <2>2, <2>3 DEF RowInv
    <2> QED BY <2>1, <2>2, <2>3, <2>4 DEF Index
  <1> QED BY Invariance, <1>1, PTL

\* No step of typeProfileThread, no write-back and no restart changes an entry
\* of pmemHeader.typeMap that is durable.
THEOREM IndexSafe == Spec => IndexKept
  <1> DEFINE A == \A n \in Index : dTypeMap[n] # None => dTypeMap'[n] = dTypeMap[n]
  <1>1. IInv /\ [Next]_vars => [A]_vars
    <2> SUFFICES ASSUME TypeOK, RowInv, [Next]_vars, NEW n \in Index, dTypeMap[n] # None
                 PROVE  dTypeMap'[n] = dTypeMap[n]
      BY DEF IInv
    <2>1. dTypeMap \in [Index -> Type \cup {None}] /\ typeMap[n] = dTypeMap[n]
      BY DEF TypeOK, RowInv
    <2>2. CASE PersistType
      <3>1. dTypeMap' = [dTypeMap EXCEPT ![numAssigned] = typeMap[numAssigned]]
        BY <2>2 DEF PersistType
      <3> QED BY <2>1, <3>1
    <2>3. ASSUME NEW k \in Index, EvictType(k) PROVE dTypeMap'[n] = dTypeMap[n]
      <3>1. dTypeMap' = [dTypeMap EXCEPT ![k] = typeMap[k]]
        BY <2>3 DEF EvictType
      <3> QED BY <2>1, <3>1
    <2>4. CASE dTypeMap' = dTypeMap
      BY <2>4
    <2>5. ASSUME NEW m \in M, TypeIndex(m) PROVE dTypeMap' = dTypeMap
      BY <2>5 DEF TypeIndex, Count, SetClass, Claim, Publish, indices
    <2>6. ASSUME TypeProfileThread, ~PersistType PROVE dTypeMap' = dTypeMap
      BY <2>6 DEF TypeProfileThread, StartThread, Wake, RoundEnd, Skip, ReadCount, Judge, Promote,
                  StoreType, ClearType, indices
    <2>7. Throw \/ Crash \/ UNCHANGED vars => dTypeMap' = dTypeMap
      BY DEF Throw, LoadThrows, PublishThrows, Crash, vars, indices
    <2> QED BY <2>2, <2>3, <2>4, <2>5, <2>6, <2>7 DEF Next, Run
  <1> QED BY Invariance, <1>1, PTL DEF Spec, IndexKept
==============================================================================
