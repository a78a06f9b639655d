---------------------------- MODULE PmemInitProofs ----------------------------
(***************************************************************************)
(* For any number of callers, collectors and arenas: PmemInit initializes  *)
(* at most once, and what initDone announces is complete.                  *)
(***************************************************************************)
EXTENDS PmemInit, TLAPS

\* What every step preserves: the types of the variables and InitInv.
Inv == TypeOK /\ InitInv

\* The initial states satisfy it.
LEMMA InitEstablishes == Init => Inv
<1> SUFFICES ASSUME Init PROVE Inv
  OBVIOUS
<1>1. TypeOK
  <2>1. pc \in [Caller -> Label] /\ col \in [Collector \cup {Spawned} -> {"none", "call", "checked", "loaded", "start"}]
    BY DEF Init, Label
  <2>2. arenas \in 0..MaxArenas /\ mapped \subseteq (1..MaxArenas) \X Places
    BY SizeAssumption DEF Init
  <2>3. /\ header \in BOOLEAN /\ root \in BOOLEAN /\ marking \in BOOLEAN /\ collected \in BOOLEAN /\ thrown \in BOOLEAN
        /\ gcPercent \in {"on", "off"} /\ gcp \in {"on", "off"}
        /\ waiting \subseteq Caller \cup Collector \cup {Spawned}
        /\ starting \in {"free", "auto", "called"} /\ raced \in BOOLEAN
    BY DEF Init
  <2> QED
    BY <2>1, <2>2, <2>3 DEF Init, TypeOK
<1>2. \A c \in Caller : pc[c] = "start"
  BY DEF Init
<1>3. InitOnce /\ StateOfCallers
  BY <1>2 DEF Init, InitOnce, StateOfCallers, Active, Inside
<1>4. \A c \in Caller : Progress(c)
  BY <1>2 DEF Progress
<1>5. DoneIsComplete
  BY DEF Init, DoneIsComplete
<1> QED
  BY <1>1, <1>3, <1>4, <1>5 DEF Init, Inv, InitInv

\* A step that changes neither the memory, nor initState, nor any caller.
LEMMA Quiet ==
  ASSUME Inv, TypeOK', UNCHANGED <<file, initState, pc, memory>>
  PROVE  Inv'
  BY DEF Inv, InitInv, InitOnce, Active, Inside, StateOfCallers, Progress, DoneIsComplete, MappedUpTo,
     file, memory

\* A jump keeps the type of the program counters.
LEMMA GotoType ==
  ASSUME TypeOK, NEW c \in Caller, NEW label \in Label, Goto(c, label)
  PROVE  pc' \in [Caller -> Label]
  BY DEF TypeOK, Goto

\* The type of the new state, where the file and the collector are left alone.
LEMMA TypeFrame ==
  ASSUME TypeOK, UNCHANGED <<file, gcvars>>,
         pc' \in [Caller -> Label], initState' \in {"initNotDone", "initOngoing", "initDone"},
         header' \in BOOLEAN, arenas' \in 0..MaxArenas,
         mapped' \subseteq (1..MaxArenas) \X Places,
         root' \in BOOLEAN, thrown' \in BOOLEAN
  PROVE  TypeOK'
  BY DEF TypeOK, file, gcvars

\* Types are preserved by every step.
LEMMA TypeStep == Inv /\ [Next]_vars => TypeOK'
<1> SUFFICES ASSUME Inv, [Next]_vars PROVE TypeOK'
  OBVIOUS
<1> TypeOK
  BY DEF Inv
<1> USE DEF file, memory, gcvars
<1>1. ASSUME NEW c \in Caller, Cas(c)
      PROVE  TypeOK'
  <2>1. Goto(c, "header") \/ Goto(c, "error")
    BY <1>1 DEF Cas
  <2>2. pc' \in [Caller -> Label]
    BY <2>1, GotoType DEF Label
  <2>3. initState' \in {"initNotDone", "initOngoing", "initDone"}
    BY <1>1 DEF Cas, TypeOK
  <2> QED
    BY <1>1, <2>2, <2>3 DEF Cas, TypeOK
<1>2. ASSUME NEW c \in Caller, MapHeader(c)
      PROVE  TypeOK'
  <2>1. Goto(c, "firstInit") \/ Goto(c, "verify")
    BY <1>2 DEF MapHeader
  <2>2. pc' \in [Caller -> Label]
    BY <2>1, GotoType DEF Label
  <2>3. /\ initState' \in {"initNotDone", "initOngoing", "initDone"}
        /\ header' \in BOOLEAN /\ arenas' \in 0..MaxArenas
        /\ mapped' \subseteq (1..MaxArenas) \X Places
        /\ root' \in BOOLEAN /\ thrown' \in BOOLEAN
    BY <1>2 DEF MapHeader, TypeOK
  <2>4. UNCHANGED <<file, gcvars>>
    BY <1>2 DEF MapHeader
  <2> QED
    BY <2>2, <2>3, <2>4, TypeFrame
<1>3. ASSUME NEW c \in Caller, MapHeaderFails(c)
      PROVE  TypeOK'
  <2>1. Goto(c, "error")
    BY <1>3 DEF MapHeaderFails
  <2>2. pc' \in [Caller -> Label]
    BY <2>1, GotoType DEF Label
  <2>3. /\ initState' \in {"initNotDone", "initOngoing", "initDone"}
        /\ header' \in BOOLEAN /\ arenas' \in 0..MaxArenas
        /\ mapped' \subseteq (1..MaxArenas) \X Places
        /\ root' \in BOOLEAN /\ thrown' \in BOOLEAN
    BY <1>3 DEF MapHeaderFails, TypeOK
  <2>4. UNCHANGED <<file, gcvars>>
    BY <1>3 DEF MapHeaderFails
  <2> QED
    BY <2>2, <2>3, <2>4, TypeFrame
<1>4. ASSUME NEW c \in Caller, FirstInit(c)
      PROVE  TypeOK'
  <2>1. Goto(c, "done")
    BY <1>4 DEF FirstInit
  <2>2. pc' \in [Caller -> Label]
    BY <2>1, GotoType DEF Label
  <2>3. /\ initState' \in {"initNotDone", "initOngoing", "initDone"}
        /\ header' \in BOOLEAN /\ arenas' \in 0..MaxArenas
        /\ mapped' \subseteq (1..MaxArenas) \X Places
        /\ root' \in BOOLEAN /\ thrown' \in BOOLEAN
    BY <1>4 DEF FirstInit, TypeOK
  <2>4. UNCHANGED <<file, gcvars>>
    BY <1>4 DEF FirstInit
  <2> QED
    BY <2>2, <2>3, <2>4, TypeFrame
<1>5. ASSUME NEW c \in Caller, Verify(c)
      PROVE  TypeOK'
  <2>1. Goto(c, "gcOff")
    BY <1>5 DEF Verify
  <2>2. pc' \in [Caller -> Label]
    BY <2>1, GotoType DEF Label
  <2>3. /\ initState' \in {"initNotDone", "initOngoing", "initDone"}
        /\ header' \in BOOLEAN /\ arenas' \in 0..MaxArenas
        /\ mapped' \subseteq (1..MaxArenas) \X Places
        /\ root' \in BOOLEAN /\ thrown' \in BOOLEAN
    BY <1>5 DEF Verify, TypeOK
  <2>4. UNCHANGED <<file, gcvars>>
    BY <1>5 DEF Verify
  <2> QED
    BY <2>2, <2>3, <2>4, TypeFrame
<1>6. ASSUME NEW c \in Caller, VerifyFails(c)
      PROVE  TypeOK'
  <2>1. Goto(c, "error")
    BY <1>6 DEF VerifyFails
  <2>2. pc' \in [Caller -> Label]
    BY <2>1, GotoType DEF Label
  <2>3. /\ initState' \in {"initNotDone", "initOngoing", "initDone"}
        /\ header' \in BOOLEAN /\ arenas' \in 0..MaxArenas
        /\ mapped' \subseteq (1..MaxArenas) \X Places
        /\ root' \in BOOLEAN /\ thrown' \in BOOLEAN
    BY <1>6 DEF VerifyFails, TypeOK
  <2>4. UNCHANGED <<file, gcvars>>
    BY <1>6 DEF VerifyFails
  <2> QED
    BY <2>2, <2>3, <2>4, TypeFrame
<1>7. ASSUME NEW c \in Caller, DisableGC(c)
      PROVE  TypeOK'
  <2>1. Goto(c, "gcLoad")
    BY <1>7 DEF DisableGC
  <2>2. pc' \in [Caller -> Label]
    BY <2>1, GotoType DEF Label
  <2> QED
    BY <1>7, <2>2 DEF DisableGC, TypeOK
<1>7a. ASSUME NEW c \in Caller, LoadCycles(c)
      PROVE  TypeOK'
  <2>1. Goto(c, "gcWait")
    BY <1>7a DEF LoadCycles
  <2>2. pc' \in [Caller -> Label]
    BY <2>1, GotoType DEF Label
  <2>3. waiting' \subseteq Caller \cup Collector \cup {Spawned} /\ raced' \in BOOLEAN
    BY <1>7a DEF LoadCycles, TypeOK
  <2> QED
    BY <1>7a, <2>2, <2>3 DEF LoadCycles, TypeOK
<1>8. ASSUME NEW c \in Caller, WaitOnMark(c)
      PROVE  TypeOK'
  <2>1. Goto(c, "done") \/ Goto(c, "map")
    BY <1>8 DEF WaitOnMark
  <2>2. pc' \in [Caller -> Label]
    BY <2>1, GotoType DEF Label
  <2> QED
    BY <1>8, <2>2 DEF WaitOnMark, TypeOK
<1>9. ASSUME NEW c \in Caller, MapArena(c)
      PROVE  TypeOK'
  <2>1. pc' \in [Caller -> Label]
    BY <1>9, GotoType DEF MapArena, Label
  <2>2. NextArena \in 1..MaxArenas
    BY <1>9, SizeAssumption DEF MapArena, NextArena, TypeOK
  <2>3. mapped' \subseteq (1..MaxArenas) \X Places
    BY <1>9, <2>2 DEF MapArena, TypeOK
  <2> QED
    BY <1>9, <2>1, <2>3 DEF MapArena, TypeOK
<1>10. ASSUME NEW c \in Caller, MapArenaFails(c)
      PROVE  TypeOK'
  <2>1. Goto(c, "error")
    BY <1>10 DEF MapArenaFails
  <2>2. pc' \in [Caller -> Label]
    BY <2>1, GotoType DEF Label
  <2>3. /\ initState' \in {"initNotDone", "initOngoing", "initDone"}
        /\ header' \in BOOLEAN /\ arenas' \in 0..MaxArenas
        /\ mapped' \subseteq (1..MaxArenas) \X Places
        /\ root' \in BOOLEAN /\ thrown' \in BOOLEAN
    BY <1>10 DEF MapArenaFails, TypeOK, UnmapArenas
  <2>4. UNCHANGED <<file, gcvars>>
    BY <1>10 DEF MapArenaFails
  <2> QED
    BY <2>2, <2>3, <2>4, TypeFrame
<1>11. ASSUME NEW c \in Caller, Reconstruct(c)
      PROVE  TypeOK'
  <2>1. Goto(c, "swizzle") \/ Goto(c, "map")
    BY <1>11 DEF Reconstruct
  <2>2. pc' \in [Caller -> Label]
    BY <2>1, GotoType DEF Label
  <2>3. arenas < narenas
    BY <1>11 DEF Reconstruct, At, Inv, InitInv, Progress
  <2>4. arenas' \in 0..MaxArenas
    BY <1>11, <2>3, SizeAssumption DEF Reconstruct, NextArena, TypeOK
  <2> QED
    BY <1>11, <2>2, <2>4 DEF Reconstruct, TypeOK
<1>12. ASSUME NEW c \in Caller, ReconstructThrows(c)
      PROVE  TypeOK'
  BY <1>12 DEF ReconstructThrows, TypeOK
<1>13. ASSUME NEW c \in Caller, SwizzleArenas(c)
      PROVE  TypeOK'
  <2>1. Goto(c, "setRoot") \/ Goto(c, "done")
    BY <1>13 DEF SwizzleArenas
  <2>2. pc' \in [Caller -> Label]
    BY <2>1, GotoType DEF Label
  <2>3. /\ initState' \in {"initNotDone", "initOngoing", "initDone"}
        /\ header' \in BOOLEAN /\ arenas' \in 0..MaxArenas
        /\ mapped' \subseteq (1..MaxArenas) \X Places
        /\ root' \in BOOLEAN /\ thrown' \in BOOLEAN
    BY <1>13 DEF SwizzleArenas, TypeOK
  <2>4. UNCHANGED <<file, gcvars>>
    BY <1>13 DEF SwizzleArenas
  <2> QED
    BY <2>2, <2>3, <2>4, TypeFrame
<1>14. ASSUME NEW c \in Caller, SetRoot(c)
      PROVE  TypeOK'
  <2>1. Goto(c, "done")
    BY <1>14 DEF SetRoot
  <2>2. pc' \in [Caller -> Label]
    BY <2>1, GotoType DEF Label
  <2>3. /\ initState' \in {"initNotDone", "initOngoing", "initDone"}
        /\ header' \in BOOLEAN /\ arenas' \in 0..MaxArenas
        /\ mapped' \subseteq (1..MaxArenas) \X Places
        /\ root' \in BOOLEAN /\ thrown' \in BOOLEAN
    BY <1>14 DEF SetRoot, TypeOK
  <2>4. UNCHANGED <<file, gcvars>>
    BY <1>14 DEF SetRoot
  <2> QED
    BY <2>2, <2>3, <2>4, TypeFrame
<1>15. ASSUME NEW c \in Caller, SetRootFails(c)
      PROVE  TypeOK'
  <2>1. Goto(c, "error")
    BY <1>15 DEF SetRootFails
  <2>2. pc' \in [Caller -> Label]
    BY <2>1, GotoType DEF Label
  <2>3. /\ initState' \in {"initNotDone", "initOngoing", "initDone"}
        /\ header' \in BOOLEAN /\ arenas' \in 0..MaxArenas
        /\ mapped' \subseteq (1..MaxArenas) \X Places
        /\ root' \in BOOLEAN /\ thrown' \in BOOLEAN
    BY <1>15 DEF SetRootFails, TypeOK
  <2>4. UNCHANGED <<file, gcvars>>
    BY <1>15 DEF SetRootFails
  <2> QED
    BY <2>2, <2>3, <2>4, TypeFrame
<1>16. ASSUME NEW c \in Caller, InitDone(c)
      PROVE  TypeOK'
  <2>1. Goto(c, "ok") \/ Goto(c, "enableGC")
    BY <1>16 DEF InitDone
  <2>2. pc' \in [Caller -> Label]
    BY <2>1, GotoType DEF Label
  <2>3. /\ initState' \in {"initNotDone", "initOngoing", "initDone"}
        /\ header' \in BOOLEAN /\ arenas' \in 0..MaxArenas
        /\ mapped' \subseteq (1..MaxArenas) \X Places
        /\ root' \in BOOLEAN /\ thrown' \in BOOLEAN
    BY <1>16 DEF InitDone, TypeOK
  <2>4. UNCHANGED <<file, gcvars>>
    BY <1>16 DEF InitDone
  <2> QED
    BY <2>2, <2>3, <2>4, TypeFrame
<1>17. ASSUME NEW c \in Caller, EnableGC(c)
      PROVE  TypeOK'
  <2>1. pc' \in [Caller -> Label]
    BY <1>17, GotoType DEF EnableGC, Label
  <2>2. col' \in [Collector \cup {Spawned} -> {"none", "call", "checked", "loaded", "start"}]
    BY <1>17 DEF EnableGC, TypeOK
  <2> QED
    BY <1>17, <2>1, <2>2 DEF EnableGC, TypeOK
<1>18. ASSUME NEW k \in Collector \cup {Spawned}, GC(k)
      PROVE  TypeOK'
  <2>1. col' \in [Collector \cup {Spawned} -> {"none", "call", "checked", "loaded", "start"}] /\ thrown' \in BOOLEAN
    BY <1>18 DEF GC, TypeOK
  <2> QED
    BY <1>18, <2>1 DEF GC, TypeOK
<1>19. ASSUME NEW k \in Collector \cup {Spawned}, GCStart(k)
      PROVE  TypeOK'
  <2>1. col' \in [Collector \cup {Spawned} -> {"none", "call", "checked", "loaded", "start"}] /\ thrown' \in BOOLEAN
    BY <1>19 DEF GCStart, TypeOK
  <2> QED
    BY <1>19, <2>1 DEF GCStart, TypeOK
<1>19a. ASSUME NEW k \in Collector \cup {Spawned}, GCLoad(k)
      PROVE  TypeOK'
  <2>1. col' \in [Collector \cup {Spawned} -> {"none", "call", "checked", "loaded", "start"}]
    BY <1>19a DEF GCLoad, TypeOK
  <2>2. waiting' \subseteq Caller \cup Collector \cup {Spawned}
    BY <1>19a DEF GCLoad, TypeOK
  <2> QED
    BY <1>19a, <2>1, <2>2 DEF GCLoad, TypeOK
<1>20. CASE AutoGC
  BY <1>20 DEF AutoGC, TypeOK
<1>20a. CASE BeginCycle
  <2>1. col' \in [Collector \cup {Spawned} -> {"none", "call", "checked", "loaded", "start"}]
    BY <1>20a DEF BeginCycle, TypeOK
  <2> QED
    BY <1>20a, <2>1 DEF BeginCycle, TypeOK
<1>21. CASE MarkTermination
  BY <1>21 DEF MarkTermination, TypeOK
<1>22. CASE UNCHANGED vars
  BY <1>22 DEF vars, TypeOK
<1> QED
  BY <1>1, <1>2, <1>3, <1>4, <1>5, <1>6, <1>7, <1>8, <1>9, <1>10, <1>11, <1>12,
     <1>13, <1>14, <1>15, <1>16, <1>17, <1>18, <1>19, <1>20, <1>21, <1>22, <1>7a, <1>19a, <1>20a DEF Next, Step, Collect

------------------------------------------------------------------------------
(* The steps of a caller.  No other caller is active then, so only what is *)
(* true of this one has to be shown.                                       *)

\* The constant parts of the invariant, and who else is active.
LEMMA Alone ==
  ASSUME Inv, NEW c \in Caller, Active(c)
  PROVE  \A d \in Caller : d # c => pc[d] \in {"start", "error"}
  BY DEF Inv, InitInv, InitOnce, Active, Inside

\* A step of an active caller keeps the invariant if it keeps the types and the
\* constants, leads to a place that initState allows, and has done there what
\* Progress asks for.
LEMMA CallerStep ==
  ASSUME Inv, TypeOK', UNCHANGED file,
         NEW c \in Caller, Active(c), NEW label, label # "start", Goto(c, label),
         Progress(c)', DoneIsComplete',
         initState' # "initNotDone",
         label \in {"enableGC", "ok"} => initState' = "initDone",
         label \notin {"enableGC", "ok", "error"} => initState' = "initOngoing"
  PROVE  Inv'
<1>1. \A d \in Caller : d # c => pc'[d] \in {"start", "error"}
  BY Alone DEF Goto, Inv, TypeOK
<1>2. pc'[c] = label
  BY DEF Goto, Inv, TypeOK
<1>3. InitOnce'
  BY <1>1 DEF InitOnce, Active, Inside
<1>4. StateOfCallers'
  BY <1>1, <1>2 DEF StateOfCallers, Active, Inside
<1>5. \A d \in Caller : Progress(d)'
  BY <1>1 DEF Progress
<1> QED
  BY <1>3, <1>4, <1>5 DEF Inv, InitInv, file

------------------------------------------------------------------------------

\* Every step keeps the invariant.
LEMMA InvStep == Inv /\ [Next]_vars => Inv'
<1> SUFFICES ASSUME Inv, [Next]_vars, TypeOK' PROVE Inv'
  BY TypeStep
<1>1. ASSUME NEW c \in Caller, Cas(c)
      PROVE  Inv'
  <2>1. CASE initState = "initNotDone"
    <3>1. /\ \A d \in Caller : d # c => pc'[d] \in {"start", "error"}
          /\ pc'[c] = "header" /\ initState' = "initOngoing"
      BY <1>1, <2>1 DEF Cas, Goto, Inv, TypeOK, InitInv, StateOfCallers, Active, Inside, Label
    <3>2. ~header /\ arenas = 0 /\ mapped = {} /\ ~root /\ UNCHANGED <<file, memory>>
      BY <1>1, <2>1 DEF Cas, Inv, InitInv, StateOfCallers
    <3>3. InitOnce' /\ StateOfCallers' /\ DoneIsComplete'
      BY <3>1 DEF InitOnce, StateOfCallers, DoneIsComplete, Active, Inside
    <3>4. \A d \in Caller : Progress(d)'
      BY <3>1, <3>2 DEF Progress, memory
    <3> QED
      BY <3>2, <3>3, <3>4 DEF Inv, InitInv, file
  <2>2. CASE initState # "initNotDone"
    <3>1. /\ \A d \in Caller : d # c => pc'[d] = pc[d]
          /\ pc'[c] = "error" /\ UNCHANGED <<file, initState, memory>>
      BY <1>1, <2>2 DEF Cas, Goto, Inv, TypeOK
    <3>2. InitOnce' /\ StateOfCallers' /\ DoneIsComplete'
      BY <2>2, <3>1 DEF Inv, InitInv, InitOnce, StateOfCallers, DoneIsComplete, MappedUpTo, Active, Inside, file, memory
    <3>3. \A d \in Caller : Progress(d)'
      BY <3>1 DEF Inv, InitInv, Progress, MappedUpTo, file, memory
    <3> QED
      BY <3>1, <3>2, <3>3 DEF Inv, InitInv, file
  <2> QED
    BY <2>1, <2>2
<1>2. ASSUME NEW c \in Caller, MapHeader(c)
      PROVE  Inv'
  <2> DEFINE label == IF first THEN "firstInit" ELSE "verify"
  <2>1. pc[c] = "header" /\ Active(c) /\ pc'[c] = label /\ label \notin {"start", "enableGC", "ok"}
    BY <1>2 DEF MapHeader, At, Goto, Active, Inside, Inv, TypeOK
  <2>2. initState = "initOngoing" /\ initState' = "initOngoing" /\ UNCHANGED file /\ Goto(c, label)
    BY <1>2, <2>1 DEF MapHeader, Inv, InitInv, StateOfCallers, Inside
  <2>3. Progress(c)
    BY DEF Inv, InitInv
  <2>4. Progress(c)'
    BY <1>2, <2>1, <2>3 DEF MapHeader, Progress, MappedUpTo, Inv, InitInv, file, memory
  <2>5. DoneIsComplete'
    BY <2>2 DEF DoneIsComplete
  <2> HIDE DEF label
  <2> QED
    BY <2>1, <2>2, <2>4, <2>5, CallerStep
<1>3. ASSUME NEW c \in Caller, MapHeaderFails(c)
      PROVE  Inv'
  <2> DEFINE label == "error"
  <2>1. pc[c] = "header" /\ Active(c) /\ pc'[c] = label /\ label \notin {"start", "enableGC", "ok"}
    BY <1>3 DEF MapHeaderFails, At, Goto, Active, Inside, Inv, TypeOK
  <2>2. initState = "initOngoing" /\ initState' = "initOngoing" /\ UNCHANGED file /\ Goto(c, label)
    BY <1>3, <2>1 DEF MapHeaderFails, Inv, InitInv, StateOfCallers, Inside
  <2>3. Progress(c)
    BY DEF Inv, InitInv
  <2>4. Progress(c)'
    BY <1>3, <2>1, <2>3 DEF MapHeaderFails, Progress, MappedUpTo, Inv, InitInv, file, memory
  <2>5. DoneIsComplete'
    BY <2>2 DEF DoneIsComplete
  <2> HIDE DEF label
  <2> QED
    BY <2>1, <2>2, <2>4, <2>5, CallerStep
<1>4. ASSUME NEW c \in Caller, FirstInit(c)
      PROVE  Inv'
  <2> DEFINE label == "done"
  <2>1. pc[c] = "firstInit" /\ Active(c) /\ pc'[c] = label /\ label \notin {"start", "enableGC", "ok"}
    BY <1>4 DEF FirstInit, At, Goto, Active, Inside, Inv, TypeOK
  <2>2. initState = "initOngoing" /\ initState' = "initOngoing" /\ UNCHANGED file /\ Goto(c, label)
    BY <1>4, <2>1 DEF FirstInit, Inv, InitInv, StateOfCallers, Inside
  <2>3. Progress(c)
    BY DEF Inv, InitInv
  <2>4. Progress(c)'
    BY <1>4, <2>1, <2>3 DEF FirstInit, TypeOK, Progress, MappedUpTo, Inv, InitInv, file, memory
  <2>5. DoneIsComplete'
    BY <2>2 DEF DoneIsComplete
  <2> HIDE DEF label
  <2> QED
    BY <2>1, <2>2, <2>4, <2>5, CallerStep
<1>5. ASSUME NEW c \in Caller, Verify(c)
      PROVE  Inv'
  <2> DEFINE label == "gcOff"
  <2>1. pc[c] = "verify" /\ Active(c) /\ pc'[c] = label /\ label \notin {"start", "enableGC", "ok"}
    BY <1>5 DEF Verify, At, Goto, Active, Inside, Inv, TypeOK
  <2>2. initState = "initOngoing" /\ initState' = "initOngoing" /\ UNCHANGED file /\ Goto(c, label)
    BY <1>5, <2>1 DEF Verify, Inv, InitInv, StateOfCallers, Inside
  <2>3. Progress(c)
    BY DEF Inv, InitInv
  <2>4. Progress(c)'
    BY <1>5, <2>1, <2>3 DEF Verify, Progress, MappedUpTo, Inv, InitInv, file, memory
  <2>5. DoneIsComplete'
    BY <2>2 DEF DoneIsComplete
  <2> HIDE DEF label
  <2> QED
    BY <2>1, <2>2, <2>4, <2>5, CallerStep
<1>6. ASSUME NEW c \in Caller, VerifyFails(c)
      PROVE  Inv'
  <2> DEFINE label == "error"
  <2>1. pc[c] = "verify" /\ Active(c) /\ pc'[c] = label /\ label \notin {"start", "enableGC", "ok"}
    BY <1>6 DEF VerifyFails, At, Goto, Active, Inside, Inv, TypeOK
  <2>2. initState = "initOngoing" /\ initState' = "initOngoing" /\ UNCHANGED file /\ Goto(c, label)
    BY <1>6, <2>1 DEF VerifyFails, Inv, InitInv, StateOfCallers, Inside
  <2>3. Progress(c)
    BY DEF Inv, InitInv
  <2>4. Progress(c)'
    BY <1>6, <2>1, <2>3 DEF VerifyFails, Progress, MappedUpTo, Inv, InitInv, file, memory
  <2>5. DoneIsComplete'
    BY <2>2 DEF DoneIsComplete
  <2> HIDE DEF label
  <2> QED
    BY <2>1, <2>2, <2>4, <2>5, CallerStep
<1>7. ASSUME NEW c \in Caller, DisableGC(c)
      PROVE  Inv'
  <2> DEFINE label == "gcLoad"
  <2>1. pc[c] = "gcOff" /\ Active(c) /\ pc'[c] = label /\ label \notin {"start", "enableGC", "ok"}
    BY <1>7 DEF DisableGC, At, Goto, Active, Inside, Inv, TypeOK
  <2>2. initState = "initOngoing" /\ initState' = "initOngoing" /\ UNCHANGED file /\ Goto(c, label)
    BY <1>7, <2>1 DEF DisableGC, Inv, InitInv, StateOfCallers, Inside
  <2>3. Progress(c)
    BY DEF Inv, InitInv
  <2>4. Progress(c)'
    BY <1>7, <2>1, <2>3 DEF DisableGC, Progress, MappedUpTo, Inv, InitInv, file, memory
  <2>5. DoneIsComplete'
    BY <2>2 DEF DoneIsComplete
  <2> HIDE DEF label
  <2> QED
    BY <2>1, <2>2, <2>4, <2>5, CallerStep
<1>7a. ASSUME NEW c \in Caller, LoadCycles(c)
      PROVE  Inv'
  <2> DEFINE label == "gcWait"
  <2>1. pc[c] = "gcLoad" /\ Active(c) /\ pc'[c] = label /\ label \notin {"start", "enableGC", "ok"}
    BY <1>7a DEF LoadCycles, At, Goto, Active, Inside, Inv, TypeOK
  <2>2. initState = "initOngoing" /\ initState' = "initOngoing" /\ UNCHANGED file /\ Goto(c, label)
    BY <1>7a, <2>1 DEF LoadCycles, Inv, InitInv, StateOfCallers, Inside
  <2>3. Progress(c)
    BY DEF Inv, InitInv
  <2>4. Progress(c)'
    BY <1>7a, <2>1, <2>3 DEF LoadCycles, Progress, MappedUpTo, Inv, InitInv, file, memory
  <2>5. DoneIsComplete'
    BY <2>2 DEF DoneIsComplete
  <2> HIDE DEF label
  <2> QED
    BY <2>1, <2>2, <2>4, <2>5, CallerStep
<1>8. ASSUME NEW c \in Caller, WaitOnMark(c)
      PROVE  Inv'
  <2> DEFINE label == IF narenas = 0 THEN "done" ELSE "map"
  <2>1. pc[c] = "gcWait" /\ Active(c) /\ pc'[c] = label /\ label \notin {"start", "enableGC", "ok"}
    BY <1>8 DEF WaitOnMark, At, Goto, Active, Inside, Inv, TypeOK
  <2>2. initState = "initOngoing" /\ initState' = "initOngoing" /\ UNCHANGED file /\ Goto(c, label)
    BY <1>8, <2>1 DEF WaitOnMark, Inv, InitInv, StateOfCallers, Inside
  <2>3. Progress(c)
    BY DEF Inv, InitInv
  <2>4. Progress(c)'
    BY <1>8, <2>1, <2>3 DEF WaitOnMark, TypeOK, Progress, MappedUpTo, Inv, InitInv, file, memory
  <2>5. DoneIsComplete'
    BY <2>2 DEF DoneIsComplete
  <2> HIDE DEF label
  <2> QED
    BY <2>1, <2>2, <2>4, <2>5, CallerStep
<1>9. ASSUME NEW c \in Caller, MapArena(c)
      PROVE  Inv'
  <2> DEFINE label == "reconstruct"
  <2>1. pc[c] = "map" /\ Active(c) /\ pc'[c] = label /\ label \notin {"start", "enableGC", "ok"}
    BY <1>9 DEF MapArena, At, Goto, Active, Inside, Inv, TypeOK
  <2>2. initState = "initOngoing" /\ initState' = "initOngoing" /\ UNCHANGED file /\ Goto(c, label)
    BY <1>9, <2>1 DEF MapArena, Inv, InitInv, StateOfCallers, Inside
  <2>3. Progress(c)
    BY DEF Inv, InitInv
  <2>4. Progress(c)'
    BY <1>9, <2>1, <2>3 DEF MapArena, NextArena, Places, TypeOK, Progress, MappedUpTo, Inv, InitInv, file, memory
  <2>5. DoneIsComplete'
    BY <2>2 DEF DoneIsComplete
  <2> HIDE DEF label
  <2> QED
    BY <2>1, <2>2, <2>4, <2>5, CallerStep
<1>10. ASSUME NEW c \in Caller, MapArenaFails(c)
      PROVE  Inv'
  <2> DEFINE label == "error"
  <2>1. pc[c] = "map" /\ Active(c) /\ pc'[c] = label /\ label \notin {"start", "enableGC", "ok"}
    BY <1>10 DEF MapArenaFails, At, Goto, Active, Inside, Inv, TypeOK
  <2>2. initState = "initOngoing" /\ initState' = "initOngoing" /\ UNCHANGED file /\ Goto(c, label)
    BY <1>10, <2>1 DEF MapArenaFails, Inv, InitInv, StateOfCallers, Inside
  <2>3. Progress(c)
    BY DEF Inv, InitInv
  <2>4. Progress(c)'
    BY <1>10, <2>1, <2>3 DEF MapArenaFails, Progress, MappedUpTo, Inv, InitInv, file, memory
  <2>5. DoneIsComplete'
    BY <2>2 DEF DoneIsComplete
  <2> HIDE DEF label
  <2> QED
    BY <2>1, <2>2, <2>4, <2>5, CallerStep
<1>11. ASSUME NEW c \in Caller, Reconstruct(c)
      PROVE  Inv'
  <2> DEFINE label == IF NextArena = narenas THEN "swizzle" ELSE "map"
  <2>1. pc[c] = "reconstruct" /\ Active(c) /\ pc'[c] = label /\ label \notin {"start", "enableGC", "ok"}
    BY <1>11 DEF Reconstruct, At, Goto, Active, Inside, Inv, TypeOK
  <2>2. initState = "initOngoing" /\ initState' = "initOngoing" /\ UNCHANGED file /\ Goto(c, label)
    BY <1>11, <2>1 DEF Reconstruct, Inv, InitInv, StateOfCallers, Inside
  <2>3. Progress(c)
    BY DEF Inv, InitInv
  <2>4. Progress(c)'
    BY <1>11, <2>1, <2>3 DEF Reconstruct, NextArena, TypeOK, Progress, MappedUpTo, Inv, InitInv, file, memory
  <2>5. DoneIsComplete'
    BY <2>2 DEF DoneIsComplete
  <2> HIDE DEF label
  <2> QED
    BY <2>1, <2>2, <2>4, <2>5, CallerStep
<1>12. ASSUME NEW c \in Caller, SwizzleArenas(c)
      PROVE  Inv'
  <2> DEFINE label == IF hasRoot THEN "setRoot" ELSE "done"
  <2>1. pc[c] = "swizzle" /\ Active(c) /\ pc'[c] = label /\ label \notin {"start", "enableGC", "ok"}
    BY <1>12 DEF SwizzleArenas, At, Goto, Active, Inside, Inv, TypeOK
  <2>2. initState = "initOngoing" /\ initState' = "initOngoing" /\ UNCHANGED file /\ Goto(c, label)
    BY <1>12, <2>1 DEF SwizzleArenas, Inv, InitInv, StateOfCallers, Inside
  <2>3. Progress(c)
    BY DEF Inv, InitInv
  <2>4. Progress(c)'
    BY <1>12, <2>1, <2>3 DEF SwizzleArenas, TypeOK, Progress, MappedUpTo, Inv, InitInv, file, memory
  <2>5. DoneIsComplete'
    BY <2>2 DEF DoneIsComplete
  <2> HIDE DEF label
  <2> QED
    BY <2>1, <2>2, <2>4, <2>5, CallerStep
<1>13. ASSUME NEW c \in Caller, SetRoot(c)
      PROVE  Inv'
  <2> DEFINE label == "done"
  <2>1. pc[c] = "setRoot" /\ Active(c) /\ pc'[c] = label /\ label \notin {"start", "enableGC", "ok"}
    BY <1>13 DEF SetRoot, At, Goto, Active, Inside, Inv, TypeOK
  <2>2. initState = "initOngoing" /\ initState' = "initOngoing" /\ UNCHANGED file /\ Goto(c, label)
    BY <1>13, <2>1 DEF SetRoot, Inv, InitInv, StateOfCallers, Inside
  <2>3. Progress(c)
    BY DEF Inv, InitInv
  <2>4. Progress(c)'
    BY <1>13, <2>1, <2>3 DEF SetRoot, TypeOK, Progress, MappedUpTo, Inv, InitInv, file, memory
  <2>5. DoneIsComplete'
    BY <2>2 DEF DoneIsComplete
  <2> HIDE DEF label
  <2> QED
    BY <2>1, <2>2, <2>4, <2>5, CallerStep
<1>14. ASSUME NEW c \in Caller, SetRootFails(c)
      PROVE  Inv'
  <2> DEFINE label == "error"
  <2>1. pc[c] = "setRoot" /\ Active(c) /\ pc'[c] = label /\ label \notin {"start", "enableGC", "ok"}
    BY <1>14 DEF SetRootFails, At, Goto, Active, Inside, Inv, TypeOK
  <2>2. initState = "initOngoing" /\ initState' = "initOngoing" /\ UNCHANGED file /\ Goto(c, label)
    BY <1>14, <2>1 DEF SetRootFails, Inv, InitInv, StateOfCallers, Inside
  <2>3. Progress(c)
    BY DEF Inv, InitInv
  <2>4. Progress(c)'
    BY <1>14, <2>1, <2>3 DEF SetRootFails, Progress, MappedUpTo, Inv, InitInv, file, memory
  <2>5. DoneIsComplete'
    BY <2>2 DEF DoneIsComplete
  <2> HIDE DEF label
  <2> QED
    BY <2>1, <2>2, <2>4, <2>5, CallerStep
<1>15. ASSUME NEW c \in Caller, InitDone(c)
      PROVE  Inv'
  <2> DEFINE label == IF first THEN "ok" ELSE "enableGC"
  <2>1. pc[c] = "done" /\ Active(c) /\ pc'[c] = label /\ label \in {"enableGC", "ok"}
    BY <1>15 DEF InitDone, At, Goto, Active, Inside, Inv, TypeOK
  <2>2. initState' = "initDone" /\ UNCHANGED <<file, memory>> /\ Goto(c, label)
    BY <1>15 DEF InitDone
  <2>3. Progress(c)' /\ DoneIsComplete'
    BY <2>1, <2>2 DEF Inv, InitInv, Progress, DoneIsComplete, MappedUpTo, file, memory
  <2> HIDE DEF label
  <2> QED
    BY <2>1, <2>2, <2>3, CallerStep
<1>16. ASSUME NEW c \in Caller, EnableGC(c)
      PROVE  Inv'
  <2>1. pc[c] = "enableGC" /\ Active(c) /\ pc'[c] = "ok"
    BY <1>16 DEF EnableGC, At, Goto, Active, Inside, Inv, TypeOK
  <2>2. initState = "initDone" /\ UNCHANGED <<file, initState, memory>> /\ Goto(c, "ok")
    BY <1>16, <2>1 DEF EnableGC, Inv, InitInv, StateOfCallers
  <2>3. Progress(c)' /\ DoneIsComplete'
    BY <2>1, <2>2 DEF Inv, InitInv, Progress, DoneIsComplete, MappedUpTo, file, memory
  <2> QED
    BY <2>1, <2>2, <2>3, CallerStep
<1>17. ASSUME NEW k \in Collector \cup {Spawned}, Collect(k)
      PROVE  Inv'
  BY <1>17, Quiet DEF Collect, GC, GCLoad, GCStart
<1>18. CASE AutoGC \/ BeginCycle \/ MarkTermination
  BY <1>18, Quiet DEF AutoGC, BeginCycle, MarkTermination
<1>19. CASE UNCHANGED vars
  BY <1>19, Quiet DEF vars
<1>20. ASSUME NEW c \in Caller, ReconstructThrows(c)
      PROVE  Inv'
  BY <1>20, Quiet DEF ReconstructThrows
<1> QED
  BY <1>1, <1>2, <1>3, <1>4, <1>5, <1>6, <1>7, <1>8, <1>9, <1>10, <1>11, <1>12, <1>13, <1>14, <1>15, <1>16, <1>17, <1>18, <1>19, <1>20, <1>7a DEF Next, Step

\* In every behaviour the variables keep their types (the loop of mapArenas
\* stays inside the file's arenas).
THEOREM TypeCorrect == Spec => []TypeOK
<1>1. Inv => TypeOK
  BY DEF Inv
<1> QED
  BY InitEstablishes, InvStep, <1>1, PTL DEF Spec

\* However many goroutines call PmemInit, at most one of them gets past the
\* compare-and-swap on initState.
THEOREM AtMostOneInit == Spec => []InitOnce
<1>1. Inv => InitOnce
  BY DEF Inv, InitInv
<1> QED
  BY InitEstablishes, InvStep, <1>1, PTL DEF Spec

\* initState always tells where the callers are, and whoever initializes has
\* mapped, at each statement of PmemInit and mapArenas, exactly what the
\* statements before it map.
THEOREM InitInvariance == Spec => []InitInv
<1>1. Inv => InitInv
  BY DEF Inv
<1> QED
  BY InitEstablishes, InvStep, <1>1, PTL DEF Spec

\* Whenever initState is initDone, the header and all arenas of the file are
\* mapped, once each, and the root is set if the file has one: no path on which a
\* mapping step failed leads there.
THEOREM CompleteWhenDone == Spec => []DoneIsComplete
<1>1. Inv => DoneIsComplete
  BY DEF Inv, InitInv
<1> QED
  BY InitEstablishes, InvStep, <1>1, PTL DEF Spec

------------------------------------------------------------------------------
(* Collections while PmemInit runs.                                        *)

\* The statements of PmemInit between setting the percentage and initDone.
Off == {"gcLoad", "gcWait", "map", "reconstruct", "swizzle", "setRoot"}

\* startSema: a cycle that is about to begin was asked for by somebody, and
\* none is under way then; a call of GC that knows of a cycle waits for its end.
SemaInv == /\ starting = "called" => \E k \in Collector \cup {Spawned} : col[k] = "start"
           /\ starting # "free" => ~marking
           /\ \A k \in Collector \cup {Spawned} : col[k] = "loaded" /\ marking => k \in waiting
           /\ col[Spawned] # "none" => \E c \in Caller : pc[c] = "ok"

\* What setGCPercent(-1) achieves: no new start, and a cycle that goes on is
\* either waited for or was missed because it had not begun.
OffInv(c) == /\ pc[c] \in Off => gcPercent = "off"
             /\ pc[c] = "gcWait" /\ marking => c \in waiting \/ raced
             /\ pc[c] \in Off \ {"gcLoad"} /\ starting = "auto" => raced
             /\ Mapping(c) /\ marking => raced

NotCalled == \A k \in Collector : col[k] = "call"
GCInv == SemaInv /\ (NotCalled => \A c \in Caller : OffInv(c))

\* Nobody goes back to the place before a call of GC.
LEMMA NotCalledBefore == ASSUME TypeOK, [Next]_vars, NotCalled' PROVE NotCalled
<1> SUFFICES ASSUME NEW k \in Collector PROVE col[k] = "call"
  BY DEF NotCalled
<1>0. col'[k] = "call" /\ k # Spawned /\ k \in Collector \cup {Spawned}
      /\ col \in [Collector \cup {Spawned} -> {"none", "call", "checked", "loaded", "start"}]
  BY SpawnedAssumption DEF NotCalled, TypeOK
<1>1. CASE col' = col
  BY <1>0, <1>1
<1>2. ASSUME NEW c \in Caller, EnableGC(c) PROVE col[k] = "call"
  BY <1>0, <1>2 DEF EnableGC
<1>3. ASSUME NEW c \in Caller, Step(c), ~EnableGC(c) PROVE col' = col
  BY <1>3 DEF Step, Cas, MapHeader, MapHeaderFails, FirstInit, Verify, VerifyFails, DisableGC, LoadCycles, WaitOnMark,
     MapArena, MapArenaFails, Reconstruct, ReconstructThrows, SwizzleArenas, SetRoot, SetRootFails, InitDone, gcvars
<1>4. ASSUME NEW j \in Collector \cup {Spawned}, Collect(j) PROVE col[k] = "call"
  BY <1>0, <1>4 DEF Collect, GC, GCLoad, GCStart
<1>5. CASE AutoGC \/ BeginCycle \/ MarkTermination
  BY <1>0, <1>5 DEF AutoGC, BeginCycle, MarkTermination
<1>6. CASE UNCHANGED vars
  BY <1>1, <1>6 DEF vars, gcvars
<1> QED
  BY <1>1, <1>2, <1>3, <1>4, <1>5, <1>6 DEF Next

\* A caller that has returned stays where it is.
LEMMA OkStays == ASSUME TypeOK, [Next]_vars, NEW d \in Caller, pc[d] = "ok" PROVE pc'[d] = "ok"
<1>0. pc \in [Caller -> Label]
  BY DEF TypeOK
<1>1. ASSUME NEW c \in Caller, Step(c) PROVE pc'[d] = "ok"
  <2>1. pc' = pc \/ (pc[c] # "ok" /\ \E label : pc' = [pc EXCEPT ![c] = label])
    BY <1>1 DEF Step, Cas, MapHeader, MapHeaderFails, FirstInit, Verify, VerifyFails, DisableGC, LoadCycles,
       WaitOnMark, MapArena, MapArenaFails, Reconstruct, ReconstructThrows, SwizzleArenas, SetRoot, SetRootFails,
       InitDone, EnableGC, At, Goto
  <2> QED
    BY <1>0, <2>1
<1>2. CASE \A c \in Caller : ~Step(c)
  <2>1. pc' = pc
    BY <1>2 DEF Next, Collect, GC, GCLoad, GCStart, AutoGC, BeginCycle, MarkTermination, vars
  <2> QED
    BY <2>1
<1> QED
  BY <1>1, <1>2

\* The semaphore, and who is behind a cycle that is about to begin.
LEMMA SemaStep == ASSUME Inv, SemaInv, [Next]_vars PROVE SemaInv'
<1>0. /\ col \in [Collector \cup {Spawned} -> {"none", "call", "checked", "loaded", "start"}]
      /\ Spawned \in Collector \cup {Spawned} /\ starting \in {"free", "auto", "called"} /\ marking \in BOOLEAN
      /\ TypeOK
  BY DEF Inv, TypeOK
<1>1. (\E c \in Caller : pc[c] = "ok") => \E c \in Caller : pc'[c] = "ok"
  BY <1>0, OkStays
<1>2. ASSUME UNCHANGED <<col, starting, marking, waiting>> PROVE SemaInv'
  BY <1>1, <1>2 DEF SemaInv
<1>3. ASSUME NEW c \in Caller, EnableGC(c) PROVE SemaInv'
  <2>1. pc'[c] = "ok"
    BY <1>0, <1>3 DEF EnableGC, Goto, TypeOK
  <2>2. pc[c] = "enableGC" /\ Active(c)
    BY <1>3 DEF EnableGC, At, Active, Inside
  <2>3. col[Spawned] = "none"
    BY <2>2, Alone DEF SemaInv
  <2>4. \A k \in Collector \cup {Spawned} : col'[k] = IF k = Spawned THEN "call" ELSE col[k]
    BY <1>0, <1>3 DEF EnableGC
  <2>5. starting' = starting /\ marking' = marking /\ waiting' = waiting
    BY <1>3 DEF EnableGC
  <2> QED
    BY <2>1, <2>3, <2>4, <2>5 DEF SemaInv
<1>4. ASSUME NEW c \in Caller, LoadCycles(c) PROVE SemaInv'
  <2>1. UNCHANGED <<col, starting, marking>> /\ waiting \subseteq waiting'
    BY <1>4 DEF LoadCycles
  <2> QED
    BY <1>1, <2>1 DEF SemaInv
<1>5. ASSUME NEW c \in Caller, Step(c), ~EnableGC(c), ~LoadCycles(c) PROVE UNCHANGED <<col, starting, marking, waiting>>
  BY <1>5 DEF Step, Cas, MapHeader, MapHeaderFails, FirstInit, Verify, VerifyFails, DisableGC, WaitOnMark,
     MapArena, MapArenaFails, Reconstruct, ReconstructThrows, SwizzleArenas, SetRoot, SetRootFails, InitDone, gcvars
<1>6. ASSUME NEW k \in Collector \cup {Spawned}, GC(k) PROVE SemaInv'
  <2>1. \A j \in Collector \cup {Spawned} : col'[j] = col[j] \/ (j = k /\ col[k] = "call" /\ col'[k] = "checked")
    BY <1>0, <1>6 DEF GC
  <2>2. UNCHANGED <<starting, marking, waiting>>
    BY <1>6 DEF GC
  <2> QED
    BY <1>0, <1>1, <2>1, <2>2 DEF SemaInv
<1>7. ASSUME NEW k \in Collector \cup {Spawned}, GCLoad(k) PROVE SemaInv'
  <2>1. \A j \in Collector \cup {Spawned} : col'[j] = IF j = k THEN "loaded" ELSE col[j]
    BY <1>0, <1>7 DEF GCLoad
  <2>2. UNCHANGED <<starting, marking>> /\ waiting \subseteq waiting' /\ (marking => k \in waiting') /\ col[k] = "checked"
    BY <1>7 DEF GCLoad
  <2> QED
    BY <1>0, <1>1, <2>1, <2>2 DEF SemaInv
<1>8. ASSUME NEW k \in Collector \cup {Spawned}, GCStart(k) PROVE SemaInv'
  <2>1. \A j \in Collector \cup {Spawned} : col'[j] = IF j = k THEN "start" ELSE col[j]
    BY <1>0, <1>8 DEF GCStart
  <2>2. UNCHANGED <<waiting, marking>> /\ starting' = "called" /\ ~marking /\ col[k] = "loaded"
    BY <1>8 DEF GCStart, SemaInv
  <2> QED
    BY <1>0, <1>1, <2>1, <2>2 DEF SemaInv
<1>9. CASE AutoGC
  BY <1>1, <1>9 DEF AutoGC, SemaInv
<1>10. CASE BeginCycle
  <2>1. \A j \in Collector \cup {Spawned} : col'[j] = IF col[j] \in {"loaded", "start"} THEN "none" ELSE col[j]
    BY <1>0, <1>10 DEF BeginCycle
  <2>2. starting' = "free" /\ waiting' = waiting
    BY <1>10 DEF BeginCycle
  <2> QED
    BY <1>0, <1>1, <2>1, <2>2 DEF SemaInv
<1>11. CASE MarkTermination
  BY <1>1, <1>11 DEF MarkTermination, SemaInv
<1>12. CASE UNCHANGED vars
  BY <1>2, <1>12 DEF vars, gcvars
<1> QED
  BY <1>2, <1>3, <1>4, <1>5, <1>6, <1>7, <1>8, <1>9, <1>10, <1>11, <1>12 DEF Next, Collect

\* What a caller's jump does to OffInv when it leaves the collector alone.
LEMMA OffJump ==
  ASSUME TypeOK, NEW d \in Caller, OffInv(d), UNCHANGED gcvars,
         NEW c \in Caller, NEW label, Goto(c, label),
         \/ label \notin Off
         \/ label # "gcWait" /\ pc[c] \in Off \ {"gcLoad"} /\ (marking => raced)
  PROVE  OffInv(d)'
<1>1. pc'[d] = IF d = c THEN label ELSE pc[d]
  BY DEF TypeOK, Goto
<1>2. CASE d # c
  BY <1>1, <1>2 DEF OffInv, gcvars, Mapping
<1>3. CASE d = c /\ label \notin Off
  BY <1>1, <1>3 DEF OffInv, Off, Mapping
<1>4. CASE d = c /\ label # "gcWait" /\ pc[c] \in Off \ {"gcLoad"} /\ (marking => raced)
  BY <1>1, <1>4 DEF OffInv, gcvars, Mapping
<1> QED
  BY <1>2, <1>3, <1>4

\* Whoever is between setGCPercent(-1) and initDone is alone, so the percentage
\* stays and only the cycle that was missed can begin.
LEMMA OffStep == ASSUME Inv, GCInv, [Next]_vars, NotCalled', NEW d \in Caller PROVE OffInv(d)'
<1>0. /\ TypeOK /\ NotCalled /\ \A c \in Caller : OffInv(c)
      /\ pc \in [Caller -> Label] /\ marking \in BOOLEAN /\ raced \in BOOLEAN
  BY NotCalledBefore DEF Inv, GCInv, TypeOK
<1>1. ASSUME NEW c \in Caller, \/ Cas(c) \/ MapHeader(c) \/ MapHeaderFails(c) \/ FirstInit(c) \/ Verify(c)
                               \/ VerifyFails(c) \/ MapArenaFails(c) \/ SetRoot(c) \/ SetRootFails(c) \/ InitDone(c)
      PROVE  OffInv(d)'
  <2>1. UNCHANGED gcvars /\ \E label : Goto(c, label) /\ label \notin Off
    BY <1>1 DEF Cas, MapHeader, MapHeaderFails, FirstInit, Verify, VerifyFails, MapArenaFails, SetRoot, SetRootFails,
       InitDone, Off
  <2> QED
    BY <1>0, <2>1, OffJump
<1>2. ASSUME NEW c \in Caller, MapArena(c) \/ Reconstruct(c) \/ SwizzleArenas(c) PROVE OffInv(d)'
  <2>1. pc[c] \in Off \ {"gcLoad"} /\ Mapping(c) /\ UNCHANGED gcvars
    BY <1>2 DEF MapArena, Reconstruct, SwizzleArenas, At, Off, Mapping
  <2>2. \E label : Goto(c, label) /\ label # "gcWait"
    BY <1>2 DEF MapArena, Reconstruct, SwizzleArenas
  <2>3. marking => raced
    BY <1>0, <2>1 DEF OffInv
  <2> QED
    BY <1>0, <2>1, <2>2, <2>3, OffJump
<1>3. ASSUME NEW c \in Caller, WaitOnMark(c) PROVE OffInv(d)'
  <2>1. pc[c] = "gcWait" /\ c \notin waiting /\ UNCHANGED gcvars
    BY <1>3 DEF WaitOnMark, At
  <2>2. \E label : Goto(c, label) /\ label # "gcWait"
    BY <1>3 DEF WaitOnMark
  <2>3. (marking => raced) /\ pc[c] \in Off \ {"gcLoad"}
    BY <1>0, <2>1 DEF OffInv, Off
  <2> QED
    BY <1>0, <2>1, <2>2, <2>3, OffJump
<1>4. ASSUME NEW c \in Caller, DisableGC(c) PROVE OffInv(d)'
  <2>1. gcPercent' = "off" /\ UNCHANGED <<waiting, starting, marking, raced>>
    BY <1>4 DEF DisableGC
  <2>2. pc'[d] = IF d = c THEN "gcLoad" ELSE pc[d]
    BY <1>0, <1>4 DEF DisableGC, Goto
  <2> QED
    BY <1>0, <2>1, <2>2 DEF OffInv, Mapping
<1>5. ASSUME NEW c \in Caller, LoadCycles(c) PROVE OffInv(d)'
  <2>1. pc[c] = "gcLoad" /\ Active(c) /\ gcPercent' = gcPercent /\ starting' = starting /\ marking' = marking
        /\ (marking => c \in waiting') /\ (starting = "auto" => raced')
    BY <1>5 DEF LoadCycles, At, Active, Inside
  <2>2. pc'[d] = IF d = c THEN "gcWait" ELSE pc[d]
    BY <1>0, <1>5 DEF LoadCycles, Goto
  <2>3. d # c => pc'[d] \in {"start", "error"}
    BY <2>1, <2>2, Alone
  <2>4. gcPercent = "off"
    BY <1>0, <2>1 DEF OffInv, Off
  <2> QED
    BY <2>1, <2>2, <2>3, <2>4 DEF OffInv, Off, Mapping
<1>6. ASSUME NEW c \in Caller, EnableGC(c) PROVE OffInv(d)'
  <2>1. pc[c] = "enableGC" /\ Active(c)
    BY <1>6 DEF EnableGC, At, Active, Inside
  <2>2. pc'[d] = IF d = c THEN "ok" ELSE pc[d]
    BY <1>0, <1>6 DEF EnableGC, Goto
  <2>3. pc'[d] \in {"start", "error", "ok"}
    BY <2>1, <2>2, Alone
  <2> QED
    BY <2>3 DEF OffInv, Off, Mapping
<1>7. ASSUME NEW k \in Collector \cup {Spawned}, Collect(k) PROVE OffInv(d)'
  <2>1. UNCHANGED <<pc, gcPercent, marking, raced>> /\ waiting \subseteq waiting'
        /\ (starting' = starting \/ starting' = "called")
    BY <1>7 DEF Collect, GC, GCLoad, GCStart
  <2> QED
    BY <1>0, <2>1 DEF OffInv, Mapping
<1>8. CASE AutoGC
  <2>1. gcPercent = "on" /\ pc' = pc
    BY <1>8 DEF AutoGC
  <2>2. pc'[d] \notin Off
    BY <1>0, <2>1 DEF OffInv
  <2> QED
    BY <2>2 DEF OffInv, Off, Mapping
<1>9. CASE BeginCycle
  <2>1. UNCHANGED <<pc, gcPercent, raced>> /\ starting' = "free" /\ starting # "free"
    BY <1>9 DEF BeginCycle
  <2>2. CASE pc[d] \in Off
    <3>1. initState = "initOngoing"
      BY <2>2 DEF Off, Inv, InitInv, StateOfCallers, Inside
    <3>2. col[Spawned] = "none"
      BY <3>1 DEF GCInv, SemaInv, Inv, InitInv, StateOfCallers
    <3>3. starting # "called"
      BY <1>0, <3>2 DEF GCInv, SemaInv, NotCalled
    <3>4. starting = "auto"
      BY <1>0, <2>1, <3>3 DEF TypeOK
    <3>5. pc[d] # "gcLoad" => raced
      BY <1>0, <2>2, <3>4 DEF OffInv
    <3> QED
      BY <1>0, <2>1, <3>5 DEF OffInv, Mapping
  <2>3. CASE pc[d] \notin Off
    BY <2>1, <2>3 DEF OffInv, Off, Mapping
  <2> QED
    BY <2>2, <2>3
<1>10. CASE MarkTermination
  <2>1. UNCHANGED <<pc, gcPercent, starting>> /\ ~marking' /\ marking
    BY <1>10 DEF MarkTermination
  <2>2. starting = "free"
    BY <2>1 DEF GCInv, SemaInv
  <2> QED
    BY <1>0, <2>1, <2>2 DEF OffInv
<1>11. CASE UNCHANGED vars
  BY <1>0, <1>11 DEF vars, gcvars, OffInv, Mapping
<1>12. ASSUME NEW c \in Caller, ReconstructThrows(c) PROVE OffInv(d)'
  BY <1>0, <1>12 DEF ReconstructThrows, gcvars, OffInv, Mapping
<1> QED
  BY <1>1, <1>2, <1>3, <1>4, <1>5, <1>6, <1>7, <1>8, <1>9, <1>10, <1>11, <1>12 DEF Next, Step

\* For any number of callers and arenas: setGCPercent(-1) in PmemInit keeps every
\* automatic collection away from reconstruct and swizzleArenas, except one whose
\* gcStart had passed its test and not yet begun when it looked.
THEOREM OnlyRacedGC == Spec => []NoAutoGC
<1>1. Init => GCInv
  <2> SUFFICES ASSUME Init PROVE GCInv
    OBVIOUS
  <2>1. \A k \in Collector \cup {Spawned} : col[k] \in {"none", "call"}
    BY DEF Init
  <2>2. col[Spawned] = "none" /\ starting = "free" /\ ~marking /\ \A c \in Caller : pc[c] = "start"
    BY DEF Init
  <2> QED
    BY <2>1, <2>2 DEF GCInv, SemaInv, OffInv, Off, Mapping
<1>2. Inv /\ GCInv /\ [Next]_vars => GCInv'
  BY SemaStep, OffStep DEF GCInv
<1>3. GCInv => NoAutoGC
  BY DEF GCInv, OffInv, NotCalled, NoAutoGC
<1> QED
  BY InitEstablishes, InvStep, <1>1, <1>2, <1>3, PTL DEF Spec
==============================================================================
