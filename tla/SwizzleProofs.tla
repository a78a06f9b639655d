---------------------------- MODULE SwizzleProofs ----------------------------
(***************************************************************************)
(* Swizzling is safe against crashes at any point, for every number of     *)
(* arenas, every set of addresses and every layout of the heap on which    *)
(* the walk of swizzle() can be resumed (ResumableLayout).                 *)
(***************************************************************************)
EXTENDS Swizzle, WellFoundedInduction, TLAPS

------------------------------------------------------------------------------
(* The log of an arena, and the words that the next run will use.          *)

\* An entry of the log: the word, and the value it had.
Entry == [off : Word, val : Int]
\* The contents of an arena.
Words == [Word -> Int]
\* The words of the heap.
HeapWord == 0..(AllocSize - 1)

\* The words that the log l holds.
In(l) == {l[j].off : j \in 1..Len(l)}

\* No word is logged twice.
Distinct(l) == \A i, j \in 1..Len(l) : l[i].off = l[j].off => i = j

\* The value that reverting l leaves in the word off.
LastVal(l, off) == l[CHOOSE j \in 1..Len(l) : /\ l[j].off = off
                                              /\ \A i \in (j + 1)..Len(l) : l[i].off # off].val

\* The words mem after l is reverted.
Rest(l, mem) == [w \in Word |-> IF w \in In(l) THEN LastVal(l, w) ELSE mem[w]]

\* Recovered, of all arenas.
Rec == [a \in Arena |-> IF swizzleState = SwizzleDone THEN nvm[a] ELSE Rest(log[a], nvm[a])]

------------------------------------------------------------------------------
(* What the recovered words mean, whatever swizzleArenas is doing.         *)

\* The addresses to which pointers are rewritten, in the words r of the arenas.
New(r) == [a \in Arena |-> r[a][MapAddr]]
\* The addresses to which pointers that are not rewritten yet are relative.
Old(r) == [a \in Arena |-> r[a][MapAddr] - r[a][Delta]]

\* The pointer value v, in num arenas based at m, means t.
Means(v, t, m, num) ==
  IF t = Volatile THEN \A b \in 1..num : ~(m[b] <= v /\ v < m[b] + Size)
                  ELSE v = Value(t, m)

\* What a pointer may mean in a heap of num arenas.
TargetIn(num) == {Nil, Volatile} \cup [arena : 1..num, off : Word]

\* Every arena was mapped at one of the addresses, and its pointers were relative to
\* one of them.
BaseSem(r, num) == \A a \in 1..num : New(r)[a] \in MapAddrs /\ Old(r)[a] \in MapAddrs

\* The addresses that are still needed to tell the pointers apart do not overlap.
ApartSem(r, num, st) ==
  /\ st # SwizzleOngoing => Disjoint(Old(r), 1..num)
  /\ st = SwizzleOngoing => /\ Disjoint(New(r), 1..num)
                            /\ \/ Disjoint(Old(r), 1..num)
                               \/ \A a \in 1..num : r[a][BytesSwizzled] = AllocSize

\* The recorded progress is one that swizzle() can resume from.
ProgressSem(r, num, st) ==
  st = SwizzleOngoing => \A a \in 1..num : r[a][BytesSwizzled] \in ResumePoints(a)

\* Every pointer is relative to the new address of its arena if it lies below the
\* progress, to the old one otherwise.
PointerSem(r, num, st, tgt) ==
  \A a \in 1..num : \A w \in PtrWords(a) :
    /\ tgt[a][w] \in TargetIn(num)
    /\ Means(r[a][Mdata + w], tgt[a][w],
             IF st = SwizzleOngoing /\ w < r[a][BytesSwizzled] THEN New(r) ELSE Old(r), num)

\* The four together.
Sem(r, num, st, tgt) == /\ BaseSem(r, num)
                        /\ ApartSem(r, num, st)
                        /\ ProgressSem(r, num, st)
                        /\ PointerSem(r, num, st, tgt)

------------------------------------------------------------------------------
(* How far swizzleArenas is.                                               *)

\* The log of arena a is empty.
Clean(a) == log[a] = <<>>

\* The delta of arena a is logged and has been cleared.
Cleared(a) == In(log[a]) = {Delta} /\ nvm[a][Delta] = 0 /\ pm[a][Delta] = 0

\* The loops of swizzleArenas: setting up mapAddr and delta, clearing delta, and waiting
\* for the goroutines.
Setup    == {"setupLogMap", "setupLogDelta", "setupStore", "setupCommit"}
Clearing == {"completeLog", "completeDelta", "clearLog", "clearDelta"}
Walking  == {"completing", "swizzling"}

\* A word may differ from its durable copy only while it is logged.
CopyInv == \A a \in Arena : /\ Distinct(log[a])
                            /\ \A w \in Word : pm[a][w] # nvm[a][w] =>
                                 w \in In(log[a]) /\ swizzleState # SwizzleDone

\* Arenas that the file does not have yet.
BeyondInv == \A a \in Arena \ Arenas : /\ Clean(a)
                                       /\ pm[a] = [w \in Word |-> 0]
                                       /\ \A w \in HeapWord : target[a][w] = Nil
                                       /\ sw[a] = Idle0

\* The swizzle state that each part of swizzleArenas works under; no two arenas overlap.
StateInv ==
  /\ pc \in {"revertSetup", "revertSetupReset", "setOngoing"} \cup Setup
       => swizzleState = SwizzleSetup
  /\ pc \in {"prepare", "prepareTables", "setSetup"} => swizzleState = SwizzleDone
  /\ pc \in {"revertOngoing", "revertOngoingReset", "complete", "callback", "start", "finalReset",
             "setRoot"} \cup Clearing \cup Walking
       => swizzleState = SwizzleOngoing
  /\ pc = "setDone" => swizzleState # SwizzleDone
  /\ pc = "running" => swizzleState # SwizzleSetup
  /\ pc \in {"down", "complete", "setDone", "setSetup", "setOngoing", "callback", "start", "setRoot",
             "running"} \cup Walking
       => k = 1
  /\ pc \notin Walking => sw = [a \in Arena |-> Idle0]
  /\ pc # "down" => Disjoint(addr, Arenas) /\ \A a \in Arenas : addr[a] \in MapAddrs

\* Which logs are empty, and what the others hold.
LogInv ==
  /\ pc \in {"revertSetup", "revertSetupReset", "revertOngoing", "revertOngoingReset", "prepare",
             "prepareTables", "finalReset"}
       => \A b \in 1..(k - 1) : Clean(b)
  /\ pc \in {"revertSetupReset", "revertOngoingReset"} => pm[k] = Rec[k]
  /\ pc \in {"complete", "setSetup", "setupLogMap", "setOngoing", "callback", "start", "setRoot",
             "running"}
       => \A b \in Arenas : Clean(b)
  /\ pc = "setDone" /\ swizzleState = SwizzleSetup => \A b \in Arenas : Clean(b)
  /\ pc = "setDone" /\ swizzleState = SwizzleOngoing => \A b \in Arenas : Cleared(b)
  /\ pc \in Clearing => /\ \A b \in 1..(k - 1) : Cleared(b)
                        /\ \A b \in (k + 1)..n : Clean(b)
  /\ pc \in {"completeLog", "clearLog"} => Clean(k)
  /\ pc \in {"completeDelta", "clearDelta"} => In(log[k]) = {Delta}
  /\ pc = "finalReset" => /\ \A b \in k..n : Cleared(b)
                          /\ \A b \in 1..(k - 1) : nvm[b][Delta] = 0
  /\ pc \in {"setRoot", "running"} => \A b \in Arenas : nvm[b][Delta] = 0
  /\ pc \in Setup => \A b \in Arenas \ {k} : Clean(b)
  /\ pc = "setupLogDelta" => In(log[k]) = {MapAddr} /\ pm[k] = nvm[k]
  /\ pc \in {"setupStore", "setupCommit"} => In(log[k]) = {MapAddr, Delta}
  /\ pc = "setupStore" => pm[k] = nvm[k]
  /\ pc = "setupCommit" =>
       pm[k] = [nvm[k] EXCEPT ![MapAddr] = addr[k], ![Delta] = offsetTable[k]]
  /\ pc \in Setup => Rec[k] = nvm[k]

\* The tables describe the step from the old addresses to the new ones.
TableInv ==
  /\ pc \in {"revertOngoing", "revertOngoingReset"} =>
       \A b \in 1..(k - 1) : rangeTable[b] = Old(Rec)[b] /\ offsetTable[b] = Rec[b][Delta]
  /\ pc \in {"complete", "callback", "start"} \cup Walking =>
       \A b \in Arenas : rangeTable[b] = Old(Rec)[b] /\ offsetTable[b] = Rec[b][Delta]
  /\ pc \in {"prepare", "prepareTables"} =>
       \A b \in 1..(k - 1) : rangeTable[b] = Old(Rec)[b] /\ offsetTable[b] = addr[b] - Old(Rec)[b]
  /\ pc \in {"setSetup", "setOngoing"} \cup Setup =>
       \A b \in Arenas : rangeTable[b] = Old(Rec)[b] /\ offsetTable[b] = addr[b] - Old(Rec)[b]
  /\ pc \in Setup => \A b \in 1..(k - 1) : New(Rec)[b] = addr[b]
  /\ pc \in {"setOngoing", "callback", "start", "swizzling", "clearLog", "clearDelta", "finalReset",
             "setRoot", "running"} => \A b \in Arenas : New(Rec)[b] = addr[b]

\* The recorded progress, and pointers to volatile memory that have been dropped.
ProgressInv ==
  /\ pc \in {"prepare", "prepareTables"} => \A b \in 1..(k - 1) : Rec[b][BytesSwizzled] = 0
  /\ pc = "prepareTables" => Rec[k][BytesSwizzled] = 0
  /\ pc \in {"setSetup", "setOngoing", "callback", "start"} \cup Setup =>
       \A b \in Arenas : Rec[b][BytesSwizzled] = 0
  /\ pc \in {"finalReset", "setRoot"} \cup Clearing =>
       \A b \in Arenas : Rec[b][BytesSwizzled] = AllocSize
  /\ pc = "setDone" /\ swizzleState = SwizzleOngoing =>
       \A b \in Arenas : Rec[b][BytesSwizzled] = AllocSize
  /\ pc \in {"swizzling", "clearLog", "clearDelta", "finalReset", "setRoot"} =>
       \A a \in Arenas : \A w \in PtrWords(a) :
         target[a][w] = Volatile /\ w < Rec[a][BytesSwizzled] => Rec[a][Mdata + w] = 0

\* SwizzlePointer, for the ranges rt and offsets ot of num arenas.
Translate(rt, ot, num, x) ==
  IF \E a \in 1..num : rt[a] <= x /\ x < rt[a] + Size
  THEN LET ind == CHOOSE a \in 1..num : /\ rt[a] <= x /\ x < rt[a] + Size
                                        /\ \A b \in 1..(a - 1) : ~(rt[b] <= x /\ x < rt[b] + Size)
       IN  x + ot[ind]
  ELSE 0

\* swizzle() leaves a word with the value v alone.
Settled(rt, ot, num, v) == v = 0 \/ Translate(rt, ot, num, v) = v

\* The goroutine that swizzles arena a.
SwInv(a) ==
  /\ sw[a].pc # "off"
  /\ Rec[a] = nvm[a]
  /\ sw[a].pc \in {"walk", "done"} => Clean(a)
  /\ sw[a].pc = "done" => Rec[a][BytesSwizzled] = AllocSize
  /\ sw[a].pc # "done" => /\ sw[a].next = Rec[a][BytesSwizzled]
                          /\ sw[a].start \in ResumePoints(a) /\ sw[a].start <= sw[a].next
  /\ sw[a].pc \in {"logPtr", "store", "commit"} =>
       /\ sw[a].w \in PtrWords(a) /\ sw[a].next <= sw[a].w
       /\ \A x \in PtrWords(a) : sw[a].next <= x /\ x < sw[a].w =>
            Settled(rangeTable, offsetTable, n, Rec[a][Mdata + x])
  /\ sw[a].pc = "logPtr" => In(log[a]) = {BytesSwizzled}
  /\ sw[a].pc \in {"store", "commit"} => In(log[a]) = {BytesSwizzled, Mdata + sw[a].w}
  /\ sw[a].pc \in {"logPtr", "store"} => pm[a] = nvm[a]
  /\ sw[a].pc = "commit" =>
       pm[a] = [nvm[a] EXCEPT ![BytesSwizzled] = sw[a].w + 1,
                              ![Mdata + sw[a].w] =
                                 Translate(rangeTable, offsetTable, n, Rec[a][Mdata + sw[a].w])]

\* The goroutines run while swizzleArenas waits for them.
WalkInv == pc \in Walking => \A a \in Arenas : SwInv(a)

\* The root offset stands for the object last given to SetRoot.
RootInv == /\ rootTarget.arena \in Arenas /\ rootTarget.off > 0
           /\ rootOffset = (rootTarget.arena - 1) * Size + rootTarget.off
           /\ pc = "running" => root = addr[rootTarget.arena] + rootTarget.off

\* The inductive invariant.
IInv == /\ TypeOK /\ CopyInv /\ BeyondInv
        /\ Sem(Rec, n, swizzleState, target)
        /\ StateInv /\ LogInv /\ TableInv /\ ProgressInv /\ WalkInv /\ RootInv

------------------------------------------------------------------------------
(* Constants.                                                              *)

\* The header fields are words of their own, before the heap.
LEMMA Consts ==
  /\ MaxArenas \in Nat \ {0} /\ AllocSize \in Nat \ {0}
  /\ Size \in Nat /\ Size = AllocSize + 3
  /\ MapAddr \in Word /\ Delta \in Word /\ BytesSwizzled \in Word
  /\ MapAddr # Delta /\ MapAddr # BytesSwizzled /\ Delta # BytesSwizzled
  /\ Word \subseteq Nat
  /\ MapAddrs \subseteq Nat \ {0}
  /\ SwizzleDone # SwizzleSetup /\ SwizzleDone # SwizzleOngoing /\ SwizzleSetup # SwizzleOngoing
BY SizeAssumption, AddrAssumption
   DEF Size, Word, MapAddr, Delta, BytesSwizzled, Mdata, SwizzleDone, SwizzleSetup, SwizzleOngoing

\* Arenas are mapped above address zero.
LEMMA AddrNat ==
  \A x \in MapAddrs \cup {0} : x \in Nat /\ (x \in MapAddrs => x > 0)
<1>1. \A x \in MapAddrs : x \in Nat \ {0}
  BY AddrAssumption
<1>2. QED
  BY <1>1

\* A pointer word is a word of the heap.
LEMMA PtrWord ==
  ASSUME NEW a \in Arena, NEW w \in PtrWords(a)
  PROVE  w \in HeapWord
BY SpanAssumption DEF HeapWord

\* The word of the arena that holds word w of the heap.
LEMMA HeapWords ==
  ASSUME NEW w \in HeapWord
  PROVE  /\ w \in Nat /\ w < AllocSize
         /\ Mdata + w \in Word
         /\ Mdata + w \notin {MapAddr, Delta, BytesSwizzled}
         /\ \A x \in HeapWord : Mdata + w = Mdata + x => w = x
BY SizeAssumption DEF HeapWord, Size, Word, Mdata, MapAddr, Delta, BytesSwizzled

\* Progress is recorded as a word of the heap, or its end.
LEMMA Resume ==
  ASSUME NEW a \in Arena, NEW d \in ResumePoints(a)
  PROVE  d \in 0..AllocSize
<1>1. PtrWords(a) \subseteq HeapWord
  BY PtrWord
<1>2. CASE d \in {0, AllocSize}
  BY <1>2, Consts
<1>3. CASE d \in {w + 1 : w \in PtrWords(a)}
  BY <1>1, <1>3, Consts DEF HeapWord
<1>4. QED
  BY <1>2, <1>3 DEF ResumePoints

------------------------------------------------------------------------------
(* The undo log.                                                           *)

\* An empty log restores nothing.
LEMMA EmptyLog ==
  ASSUME NEW mem \in Words
  PROVE  In(<<>>) = {} /\ Distinct(<<>>) /\ Rest(<<>>, mem) = mem
<1>1. In(<<>>) = {} /\ Distinct(<<>>)
  BY DEF In, Distinct
<1>2. QED
  BY <1>1 DEF Rest, Words

\* The value restored to a word that is logged once.
LEMMA LastValOf ==
  ASSUME NEW l \in Seq(Entry), Distinct(l), NEW j \in 1..Len(l)
  PROVE  LastVal(l, l[j].off) = l[j].val
<1>1. /\ l[j].off = l[j].off
      /\ \A i \in (j + 1)..Len(l) : l[i].off # l[j].off
  BY DEF Distinct
<1>2. \A i \in 1..Len(l) : l[i].off = l[j].off => i = j
  BY DEF Distinct
<1>3. (CHOOSE i \in 1..Len(l) : /\ l[i].off = l[j].off
                                /\ \A x \in (i + 1)..Len(l) : l[x].off # l[j].off) = j
  BY <1>1, <1>2
<1>4. QED
  BY <1>3 DEF LastVal

\* Reverting the log sets every logged word to its logged value and leaves the others.
LEMMA RestOf ==
  ASSUME NEW l \in Seq(Entry), Distinct(l), NEW mem \in Words, NEW w \in Word
  PROVE  /\ \A j \in 1..Len(l) : l[j].off = w => Rest(l, mem)[w] = l[j].val
         /\ w \notin In(l) => Rest(l, mem)[w] = mem[w]
<1>1. ASSUME NEW j \in 1..Len(l), l[j].off = w
      PROVE  Rest(l, mem)[w] = l[j].val
  <2>1. w \in In(l)
    BY <1>1 DEF In
  <2>2. LastVal(l, w) = l[j].val
    BY <1>1, LastValOf
  <2>3. QED
    BY <2>1, <2>2 DEF Rest
<1>2. QED
  BY <1>1 DEF Rest

\* What is restored are words of an arena.
LEMMA RestType ==
  ASSUME NEW l \in Seq(Entry), Distinct(l), NEW mem \in Words
  PROVE  Rest(l, mem) \in Words
<1>1. ASSUME NEW w \in Word
      PROVE  Rest(l, mem)[w] \in Int
  <2>1. CASE w \in In(l)
    <3>1. PICK j \in 1..Len(l) : l[j].off = w
      BY <2>1 DEF In
    <3>2. l[j] \in Entry
      OBVIOUS
    <3>3. QED
      BY <3>1, <3>2, RestOf DEF Entry
  <2>2. CASE w \notin In(l)
    BY <2>2, RestOf DEF Words
  <2>3. QED
    BY <2>1, <2>2
<1>2. Rest(l, mem) = [w \in Word |-> Rest(l, mem)[w]]
  BY DEF Rest
<1>3. QED
  BY <1>1, <1>2 DEF Words

\* What is restored depends only on the words that are not logged.
LEMMA RestOver ==
  ASSUME NEW l \in Seq(Entry), NEW m1 \in Words, NEW m2 \in Words,
         \A w \in Word : w \notin In(l) => m1[w] = m2[w]
  PROVE  Rest(l, m1) = Rest(l, m2)
BY DEF Rest

\* A new entry holds the current value of a word that was not logged.
LEMMA Push ==
  ASSUME NEW l \in Seq(Entry), Distinct(l), NEW mem \in Words, NEW off \in Word, off \notin In(l)
  PROVE  LET e == [off |-> off, val |-> mem[off]]
         IN  /\ Append(l, e) \in Seq(Entry)
             /\ Distinct(Append(l, e))
             /\ In(Append(l, e)) = In(l) \cup {off}
             /\ Rest(Append(l, e), mem) = Rest(l, mem)
<1> DEFINE e == [off |-> off, val |-> mem[off]]
           m == Append(l, e)
<1>1. e \in Entry /\ e.off = off /\ e.val = mem[off]
  BY DEF Entry, Words
<1> HIDE DEF e
<1>2. /\ m \in Seq(Entry) /\ Len(l) \in Nat /\ Len(m) = Len(l) + 1
      /\ m[Len(l) + 1] = e
      /\ \A j \in 1..Len(l) : m[j] = l[j]
  BY <1>1
<1> HIDE DEF m
<1>3. In(m) = In(l) \cup {off}
  <2>1. ASSUME NEW w \in In(m)
        PROVE  w \in In(l) \cup {off}
    <3>1. PICK j \in 1..Len(m) : m[j].off = w
      BY DEF In
    <3>2. CASE j = Len(l) + 1
      BY <3>1, <3>2, <1>1, <1>2
    <3>3. CASE j # Len(l) + 1
      <4>1. j \in 1..Len(l)
        BY <3>3, <1>2
      <4>2. QED
        BY <4>1, <3>1, <1>2 DEF In
    <3>4. QED
      BY <3>2, <3>3
  <2>2. ASSUME NEW w \in In(l)
        PROVE  w \in In(m)
    <3>1. PICK j \in 1..Len(l) : l[j].off = w
      BY DEF In
    <3>2. j \in 1..Len(m) /\ m[j].off = w
      BY <3>1, <1>2
    <3>3. QED
      BY <3>2 DEF In
  <2>3. off \in In(m)
    <3>1. Len(l) + 1 \in 1..Len(m) /\ m[Len(l) + 1].off = off
      BY <1>1, <1>2
    <3>2. QED
      BY <3>1 DEF In
  <2>4. QED
    BY <2>1, <2>2, <2>3
<1>4. Distinct(m)
  <2> SUFFICES ASSUME NEW i \in 1..Len(m), NEW j \in 1..Len(m), m[i].off = m[j].off
               PROVE  i = j
    BY DEF Distinct
  <2>1. \A x \in 1..Len(l) : l[x].off # off
    BY DEF In
  <2>2. CASE i \in 1..Len(l) /\ j \in 1..Len(l)
    BY <2>2, <1>2 DEF Distinct
  <2>3. CASE i = Len(l) + 1 /\ j = Len(l) + 1
    BY <2>3
  <2>4. CASE i \in 1..Len(l) /\ j = Len(l) + 1
    BY <2>4, <2>1, <1>1, <1>2
  <2>5. CASE i = Len(l) + 1 /\ j \in 1..Len(l)
    BY <2>5, <2>1, <1>1, <1>2
  <2>6. QED
    BY <2>2, <2>3, <2>4, <2>5, <1>2
<1>5. Rest(m, mem) = Rest(l, mem)
  <2>1. ASSUME NEW w \in Word
        PROVE  Rest(m, mem)[w] = Rest(l, mem)[w]
    <3>1. CASE w = off
      <4>1. Len(l) + 1 \in 1..Len(m) /\ m[Len(l) + 1].off = w
        BY <3>1, <1>1, <1>2
      <4>2. Rest(m, mem)[w] = m[Len(l) + 1].val
        BY <4>1, <1>2, <1>4, RestOf
      <4>3. Rest(l, mem)[w] = mem[w]
        BY <3>1, RestOf
      <4>4. QED
        BY <4>2, <4>3, <3>1, <1>1, <1>2
    <3>2. CASE w # off /\ w \notin In(l)
      BY <3>2, <1>3, <1>2, <1>4, RestOf
    <3>3. CASE w \in In(l)
      <4>1. PICK j \in 1..Len(l) : l[j].off = w
        BY <3>3 DEF In
      <4>2. j \in 1..Len(m) /\ m[j] = l[j]
        BY <1>2
      <4>3. Rest(l, mem)[w] = l[j].val
        BY <4>1, RestOf
      <4>4. Rest(m, mem)[w] = m[j].val
        BY <4>1, <4>2, <1>2, <1>4, RestOf
      <4>5. QED
        BY <4>2, <4>3, <4>4
    <3>4. QED
      BY <3>1, <3>2, <3>3
  <2>2. QED
    BY <2>1 DEF Rest
<1>6. QED
  BY <1>2, <1>3, <1>4, <1>5 DEF m, e

\* A log that holds no more than one word has one entry.
LEMMA OneEntry ==
  ASSUME NEW l \in Seq(Entry), Distinct(l), NEW off, In(l) \subseteq {off}
  PROVE  Len(l) < MaxLogEntries
<1>1. Len(l) \in Nat /\ \A j \in 1..Len(l) : l[j].off = off
  <2>1. \A j \in 1..Len(l) : l[j].off \in In(l)
    BY DEF In
  <2>2. QED
    BY <2>1
<1>2. Len(l) <= 1
  <2>1. ASSUME Len(l) >= 2
        PROVE  FALSE
    <3>1. 1 \in 1..Len(l) /\ 2 \in 1..Len(l)
      BY <1>1, <2>1
    <3>2. l[1].off = l[2].off
      BY <1>1, <3>1
    <3>3. QED
      BY <3>1, <3>2 DEF Distinct
  <2>2. QED
    BY <2>1, <1>1
<1>3. QED
  BY <1>1, <1>2, SizeAssumption

------------------------------------------------------------------------------
(* What the operations on the log do to the recovered words.               *)

\* A word that is not logged is recovered as it is in memory.
LEMMA RecType ==
  ASSUME TypeOK, CopyInv
  PROVE  /\ Rec \in [Arena -> Words]
         /\ \A a \in Arena : Clean(a) \/ swizzleState = SwizzleDone => Rec[a] = nvm[a] /\ pm[a] = nvm[a]
         /\ \A a \in Arena : \A w \in Word : w \notin In(log[a]) => Rec[a][w] = nvm[a][w] /\ pm[a][w] = nvm[a][w]
<1>1. ASSUME NEW a \in Arena
      PROVE  /\ log[a] \in Seq(Entry) /\ nvm[a] \in Words /\ pm[a] \in Words
             /\ Distinct(log[a])
             /\ Rec[a] = IF swizzleState = SwizzleDone THEN nvm[a] ELSE Rest(log[a], nvm[a])
  BY DEF TypeOK, CopyInv, Rec, Entry, Words
<1>2. ASSUME NEW a \in Arena
      PROVE  Rec[a] \in Words
  BY <1>1, RestType
<1>3. ASSUME NEW a \in Arena, NEW w \in Word, w \notin In(log[a])
      PROVE  Rec[a][w] = nvm[a][w] /\ pm[a][w] = nvm[a][w]
  BY <1>1, <1>3, RestOf DEF CopyInv
<1>4. ASSUME NEW a \in Arena, Clean(a) \/ swizzleState = SwizzleDone
      PROVE  Rec[a] = nvm[a] /\ pm[a] = nvm[a]
  <2>1. Rec[a] = nvm[a]
    BY <1>1, <1>4, EmptyLog DEF Clean
  <2>2. \A w \in Word : pm[a][w] = nvm[a][w]
    BY <1>4, EmptyLog, <1>1 DEF CopyInv, Clean
  <2>3. QED
    BY <2>1, <2>2, <1>1 DEF Words
<1>5. QED
  BY <1>2, <1>3, <1>4 DEF Rec

\* logEntry of a word that is not in the log changes nothing that a next run uses.
LEMMA LogStep ==
  ASSUME TypeOK, CopyInv, NEW a \in Arena, NEW off \in Word, off \notin In(log[a]),
         LogEntry(a, off), UNCHANGED <<pm, nvm, swizzleState>>
  PROVE  /\ log' \in [Arena -> Seq([off : Word, val : Int])]
         /\ CopyInv'
         /\ Rec' = Rec
         /\ In(log'[a]) = In(log[a]) \cup {off}
         /\ \A b \in Arena : b # a => log'[b] = log[b]
<1>1. /\ log[a] \in Seq(Entry) /\ nvm[a] \in Words /\ pm[a] \in Words
      /\ Distinct(log[a]) /\ log \in [Arena -> Seq(Entry)]
  BY DEF TypeOK, CopyInv, Entry, Words
<1>2. pm[a][off] = nvm[a][off]
  BY RecType
<1> DEFINE e == [off |-> off, val |-> nvm[a][off]]
<1>3. log' = [log EXCEPT ![a] = Append(log[a], e)]
  BY <1>2 DEF LogEntry
<1>4. /\ Append(log[a], e) \in Seq(Entry)
      /\ Distinct(Append(log[a], e))
      /\ In(Append(log[a], e)) = In(log[a]) \cup {off}
      /\ Rest(Append(log[a], e), nvm[a]) = Rest(log[a], nvm[a])
  BY <1>1, Push
<1> HIDE DEF e
<1>5. /\ log' \in [Arena -> Seq(Entry)]
      /\ log'[a] = Append(log[a], e)
      /\ \A b \in Arena : b # a => log'[b] = log[b]
  BY <1>1, <1>3, <1>4
<1>6. CopyInv'
  BY <1>4, <1>5 DEF CopyInv
<1>7. Rec' = Rec
  <2>1. \A b \in Arena : Rest(log'[b], nvm[b]) = Rest(log[b], nvm[b])
    BY <1>4, <1>5
  <2>2. QED
    BY <2>1 DEF Rec
<1>8. QED
  BY <1>4, <1>5, <1>6, <1>7 DEF Entry

\* The end of a logged operation: what the CPU sees becomes durable.
LEMMA CommitStep ==
  ASSUME TypeOK, CopyInv, NEW a \in Arena, CommitLog(a), UNCHANGED <<pm, swizzleState>>,
         swizzleState # SwizzleDone
  PROVE  /\ log' \in [Arena -> Seq([off : Word, val : Int])]
         /\ nvm' \in [Arena -> [Word -> Int]]
         /\ CopyInv'
         /\ Rec' = [Rec EXCEPT ![a] = pm[a]]
         /\ nvm' = [nvm EXCEPT ![a] = pm[a]]
         /\ log'[a] = <<>>
         /\ \A b \in Arena : b # a => log'[b] = log[b]
<1>1. /\ log[a] \in Seq(Entry) /\ nvm[a] \in Words /\ pm[a] \in Words
      /\ Distinct(log[a]) /\ log \in [Arena -> Seq(Entry)] /\ nvm \in [Arena -> Words]
  BY DEF TypeOK, CopyInv, Entry, Words
<1>2. [w \in Word |-> IF w \in LoggedIn(a) THEN pm[a][w] ELSE nvm[a][w]] = pm[a]
  <2>1. LoggedIn(a) = In(log[a])
    BY DEF LoggedIn, In
  <2>2. \A w \in Word : w \notin In(log[a]) => pm[a][w] = nvm[a][w]
    BY RecType
  <2>3. QED
    BY <2>1, <2>2, <1>1 DEF Words
<1>3. nvm' = [nvm EXCEPT ![a] = pm[a]]
  BY <1>2 DEF CommitLog
<1>4. /\ log' = [log EXCEPT ![a] = <<>>]
      /\ log' \in [Arena -> Seq(Entry)]
  BY <1>1 DEF CommitLog, ResetLog
<1>5. CopyInv'
  <2>1. Distinct(<<>>)
    BY <1>1, EmptyLog
  <2>2. ASSUME NEW b \in Arena
        PROVE  /\ Distinct(log'[b])
               /\ \A w \in Word : pm'[b][w] # nvm'[b][w] => w \in In(log'[b]) /\ swizzleState' # SwizzleDone
    <3>1. CASE b = a
      <4>1. log'[b] = <<>> /\ nvm'[b] = pm'[b]
        BY <3>1, <1>1, <1>3, <1>4
      <4>2. QED
        BY <4>1, <2>1
    <3>2. CASE b # a
      <4>1. log'[b] = log[b] /\ nvm'[b] = nvm[b] /\ pm'[b] = pm[b]
        BY <3>2, <1>1, <1>3, <1>4
      <4>2. QED
        BY <4>1 DEF CopyInv
    <3>3. QED
      BY <3>1, <3>2
  <2>3. QED
    BY <2>2 DEF CopyInv
<1>6. Rec' = [Rec EXCEPT ![a] = pm[a]]
  <2>1. Rest(<<>>, pm[a]) = pm[a]
    BY <1>1, EmptyLog
  <2>2. ASSUME NEW b \in Arena
        PROVE  Rest(log'[b], nvm'[b]) = IF b = a THEN pm[a] ELSE Rest(log[b], nvm[b])
    BY <2>1, <1>1, <1>3, <1>4
  <2>3. QED
    BY <2>2 DEF Rec
<1>7. QED
  BY <1>1, <1>3, <1>4, <1>5, <1>6 DEF Entry, Words

\* PersistRange of a word that is in the log.
LEMMA StoreLogged ==
  ASSUME TypeOK, CopyInv, NEW a \in Arena, NEW off \in In(log[a]) \cap Word, NEW v \in Int,
         StorePersist(a, off, v), UNCHANGED <<log, swizzleState>>,
         swizzleState # SwizzleDone
  PROVE  /\ pm' \in [Arena -> [Word -> Int]]
         /\ nvm' \in [Arena -> [Word -> Int]]
         /\ CopyInv'
         /\ Rec' = Rec
         /\ pm'[a] = [pm[a] EXCEPT ![off] = v] /\ nvm'[a] = [nvm[a] EXCEPT ![off] = v]
         /\ \A b \in Arena : b # a => pm'[b] = pm[b] /\ nvm'[b] = nvm[b]
<1>1. /\ pm \in [Arena -> Words] /\ nvm \in [Arena -> Words] /\ log \in [Arena -> Seq(Entry)]
      /\ \A b \in Arena : Distinct(log[b])
  BY DEF TypeOK, CopyInv, Entry, Words
<1>2. /\ pm' = [pm EXCEPT ![a] = [pm[a] EXCEPT ![off] = v]]
      /\ nvm' = [nvm EXCEPT ![a] = [nvm[a] EXCEPT ![off] = v]]
  BY <1>1 DEF StorePersist
<1>3. [pm[a] EXCEPT ![off] = v] \in Words /\ [nvm[a] EXCEPT ![off] = v] \in Words
  BY <1>1 DEF Words
<1>4. /\ pm' \in [Arena -> Words] /\ nvm' \in [Arena -> Words]
      /\ pm'[a] = [pm[a] EXCEPT ![off] = v] /\ nvm'[a] = [nvm[a] EXCEPT ![off] = v]
      /\ \A b \in Arena : b # a => pm'[b] = pm[b] /\ nvm'[b] = nvm[b]
  BY <1>1, <1>2, <1>3
<1>5. CopyInv'
  <2>1. ASSUME NEW b \in Arena, NEW w \in Word, pm'[b][w] # nvm'[b][w]
        PROVE  w \in In(log[b])
    <3>1. CASE b = a
      <4>1. pm[a] \in Words /\ nvm[a] \in Words
        BY <1>1
      <4>2. w # off
        BY <1>4, <2>1, <3>1, <4>1 DEF Words
      <4>3. pm[a][w] # nvm[a][w]
        BY <1>4, <2>1, <3>1, <4>1, <4>2 DEF Words
      <4>4. QED
        BY <3>1, <4>3 DEF CopyInv
    <3>2. CASE b # a
      BY <3>2, <1>4, <2>1 DEF CopyInv
    <3>3. QED
      BY <3>1, <3>2
  <2>2. QED
    BY <2>1, <1>1 DEF CopyInv
<1>6. Rec' = Rec
  <2>1. ASSUME NEW b \in Arena
        PROVE  Rest(log[b], nvm'[b]) = Rest(log[b], nvm[b])
    <3>1. nvm'[b] \in Words /\ nvm[b] \in Words /\ log[b] \in Seq(Entry)
      BY <1>1, <1>4
    <3>2. \A w \in Word : w \notin In(log[b]) => nvm'[b][w] = nvm[b][w]
      <4>1. CASE b = a
        BY <4>1, <3>1, <1>4 DEF Words
      <4>2. CASE b # a
        BY <4>2, <1>4
      <4>3. QED
        BY <4>1, <4>2
    <3>3. QED
      BY <3>1, <3>2, RestOver
  <2>2. QED
    BY <2>1 DEF Rec
<1>7. QED
  BY <1>4, <1>5, <1>6 DEF Words

\* PersistRange of a word of an arena whose log is empty or will be discarded.
LEMMA StoreClean ==
  ASSUME TypeOK, CopyInv, NEW a \in Arena, NEW off \in Word, NEW v \in Int,
         StorePersist(a, off, v), UNCHANGED <<log, swizzleState>>,
         log[a] = <<>> \/ swizzleState = SwizzleDone
  PROVE  /\ pm' \in [Arena -> [Word -> Int]]
         /\ nvm' \in [Arena -> [Word -> Int]]
         /\ CopyInv'
         /\ Rec' \in [Arena -> Words]
         /\ Rec'[a][off] = v /\ \A w \in Word : w # off => Rec'[a][w] = Rec[a][w]
         /\ \A b \in Arena : b # a => Rec'[b] = Rec[b]
         /\ \A b \in Arena : b # a => pm'[b] = pm[b] /\ nvm'[b] = nvm[b]
<1>1. /\ pm \in [Arena -> Words] /\ nvm \in [Arena -> Words] /\ log \in [Arena -> Seq(Entry)]
      /\ \A b \in Arena : Distinct(log[b])
  BY DEF TypeOK, CopyInv, Entry, Words
<1>2. /\ pm' = [pm EXCEPT ![a] = [pm[a] EXCEPT ![off] = v]]
      /\ nvm' = [nvm EXCEPT ![a] = [nvm[a] EXCEPT ![off] = v]]
  BY <1>1 DEF StorePersist
<1>3. [pm[a] EXCEPT ![off] = v] \in Words /\ [nvm[a] EXCEPT ![off] = v] \in Words
  BY <1>1 DEF Words
<1>4. /\ pm' \in [Arena -> Words] /\ nvm' \in [Arena -> Words]
      /\ pm'[a] = [pm[a] EXCEPT ![off] = v] /\ nvm'[a] = [nvm[a] EXCEPT ![off] = v]
      /\ \A b \in Arena : b # a => pm'[b] = pm[b] /\ nvm'[b] = nvm[b]
  BY <1>1, <1>2, <1>3
<1>a. pm[a] = nvm[a] /\ Rec[a] = nvm[a]
  BY RecType DEF Clean
<1>5. CopyInv'
  <2>1. ASSUME NEW b \in Arena, NEW w \in Word, pm'[b][w] # nvm'[b][w]
        PROVE  b # a
    BY <2>1, <1>4, <1>a
  <2>2. QED
    BY <2>1, <1>1, <1>4 DEF CopyInv
<1>6. Rec' = [Rec EXCEPT ![a] = [Rec[a] EXCEPT ![off] = v]]
  <2>1. CASE swizzleState = SwizzleDone
    BY <2>1, <1>4, <1>a DEF Rec
  <2>2. CASE swizzleState # SwizzleDone /\ log[a] = <<>>
    <3>1. nvm'[a] \in Words
      BY <1>4
    <3>2. Rest(log[a], nvm'[a]) = nvm'[a]
      BY <3>1, <2>2, EmptyLog
    <3>3. ASSUME NEW b \in Arena
          PROVE  Rest(log[b], nvm'[b]) = IF b = a THEN nvm'[a] ELSE Rest(log[b], nvm[b])
      BY <3>2, <1>4
    <3>4. QED
      BY <3>3, <2>2, <1>4, <1>a DEF Rec
  <2>3. QED
    BY <2>1, <2>2
<1>7. /\ Rec' \in [Arena -> Words]
      /\ Rec'[a][off] = v /\ \A w \in Word : w # off => Rec'[a][w] = Rec[a][w]
      /\ \A b \in Arena : b # a => Rec'[b] = Rec[b]
  <2>1. Rec \in [Arena -> Words] /\ [Rec[a] EXCEPT ![off] = v] \in Words
    BY <1>a, <1>3, RecType
  <2>2. /\ Rec' \in [Arena -> Words] /\ Rec'[a] = [Rec[a] EXCEPT ![off] = v]
        /\ \A b \in Arena : b # a => Rec'[b] = Rec[b]
    BY <2>1, <1>6
  <2>3. Rec[a] \in Words
    BY <2>1
  <2>4. QED
    BY <2>2, <2>3 DEF Words
<1>8. QED
  BY <1>4, <1>5, <1>7 DEF Words

\* A store that is not persisted yet, of words that are in the log.
LEMMA StoreCached ==
  ASSUME TypeOK, CopyInv, NEW a \in Arena, NEW mem \in Words,
         pm' = [pm EXCEPT ![a] = mem], UNCHANGED <<nvm, log, swizzleState>>,
         \A w \in Word : w \notin In(log[a]) => mem[w] = nvm[a][w],
         swizzleState # SwizzleDone
  PROVE  /\ pm' \in [Arena -> [Word -> Int]]
         /\ CopyInv'
         /\ Rec' = Rec
         /\ pm'[a] = mem
         /\ \A b \in Arena : b # a => pm'[b] = pm[b]
<1>1. pm \in [Arena -> Words]
  BY DEF TypeOK, Words
<1>2. /\ pm' \in [Arena -> Words] /\ pm'[a] = mem
      /\ \A b \in Arena : b # a => pm'[b] = pm[b]
  BY <1>1
<1>3. CopyInv'
  BY <1>2 DEF CopyInv
<1>4. QED
  BY <1>2, <1>3 DEF Rec, Words

------------------------------------------------------------------------------
(* Pointers and their meaning.                                             *)

\* An address lies in the range of one arena at most.
LEMMA OneRange ==
  ASSUME NEW num \in Nat, NEW m, \A a \in 1..num : m[a] \in Int, Disjoint(m, 1..num),
         NEW a \in 1..num, NEW b \in 1..num, NEW x \in Int,
         m[a] <= x, x < m[a] + Size, m[b] <= x, x < m[b] + Size
  PROVE  a = b
BY Consts DEF Disjoint

\* SwizzlePointer turns a pointer relative to the addresses o into one relative to m,
\* when the tables lead from o to m; a pointer to volatile memory becomes nil.
LEMMA SwizzleMeans ==
  ASSUME NEW o, NEW m, n \in Arena,
         \A b \in Arenas : o[b] \in MapAddrs /\ m[b] \in MapAddrs,
         \A b \in Arenas : rangeTable[b] = o[b] /\ offsetTable[b] = m[b] - o[b],
         Disjoint(o, Arenas),
         NEW v \in Int, v # 0, NEW t \in TargetIn(n), Means(v, t, o, n)
  PROVE  /\ t = Volatile => SwizzlePointer(v) = 0
         /\ t # Volatile => SwizzlePointer(v) = Value(t, m)
         /\ Means(SwizzlePointer(v), t, m, n)
         /\ SwizzlePointer(v) \in Int
<1>0. /\ \A b \in Arenas : o[b] \in Nat \ {0} /\ m[b] \in Nat \ {0}
      /\ n \in Nat
  <2>1. \A b \in Arenas : o[b] \in Nat \ {0} /\ m[b] \in Nat \ {0}
    BY AddrAssumption
  <2>2. n \in Nat
    BY SizeAssumption DEF Arena
  <2>3. QED
    BY <2>1, <2>2
<1>1. CASE t = Volatile
  <2>1. \A b \in Arenas : ~InRange(v, b)
    BY <1>1 DEF Means, InRange, Arenas
  <2>2. SwizzlePointer(v) = 0
    BY <2>1 DEF SwizzlePointer
  <2>3. QED
    BY <1>0, <1>1, <2>2 DEF Means, Arenas
<1>2. CASE t = Nil
  <2>1. Nil # Volatile
    BY DEF Nil, Volatile
  <2>2. v = 0
    BY <1>2, <2>1 DEF Means, Value, Nil
  <2>3. QED
    BY <2>2
<1>3. CASE t \in [arena : Arenas, off : Word]
  <2>1. t.arena \in Arenas /\ t.off \in Nat /\ t.off < Size /\ t.arena # 0
    BY <1>3, <1>0, Consts DEF Arenas, Word
  <2>2. t # Volatile
    BY <2>1 DEF Volatile
  <2> DEFINE c == t.arena
  <2>3. v = o[c] + t.off /\ Value(t, m) = m[c] + t.off
    BY <2>1, <2>2 DEF Means, Value
  <2>4. c \in Arenas /\ o[c] \in Nat /\ m[c] \in Nat
    BY <2>1, <1>0
  <2> HIDE DEF c
  <2>5. InRange(v, c)
    BY <2>1, <2>3, <2>4, Consts DEF InRange
  <2>6. ASSUME NEW b \in Arenas, InRange(v, b)
        PROVE  b = c
    BY <2>5, <2>6, <2>4, <1>0, Consts DEF InRange, Disjoint
  <2>7. \A b \in 1..(c - 1) : b \in Arenas /\ b # c
    BY <2>4, <1>0 DEF Arenas
  <2>8. InRange(v, c) /\ \A b \in 1..(c - 1) : ~InRange(v, b)
    BY <2>5, <2>6, <2>7
  <2>9. (CHOOSE a \in Arenas : InRange(v, a) /\ \A b \in 1..(a - 1) : ~InRange(v, b)) = c
    BY <2>8, <2>6, <2>4
  <2>10. SwizzlePointer(v) = v + offsetTable[c]
    BY <2>9, <2>5, <2>4 DEF SwizzlePointer
  <2>11. SwizzlePointer(v) = Value(t, m) /\ SwizzlePointer(v) \in Int
    BY <2>10, <2>3, <2>4, <2>1
  <2>12. QED
    BY <2>2, <2>11 DEF Means
<1>4. QED
  BY <1>1, <1>2, <1>3 DEF TargetIn, Arenas

\* Translate is SwizzlePointer.
LEMMA PointerIs ==
  ASSUME NEW v
  PROVE  SwizzlePointer(v) = Translate(rangeTable, offsetTable, n, v)
BY DEF SwizzlePointer, Translate, InRange, Arenas

\* A word that swizzle() leaves alone means the same afterwards.
LEMMA SettledMeans ==
  ASSUME NEW o, NEW m, n \in Arena,
         \A b \in Arenas : o[b] \in MapAddrs /\ m[b] \in MapAddrs,
         \A b \in Arenas : rangeTable[b] = o[b] /\ offsetTable[b] = m[b] - o[b],
         Disjoint(o, Arenas),
         NEW v \in Int, Settled(rangeTable, offsetTable, n, v), NEW t \in TargetIn(n), Means(v, t, o, n)
  PROVE  Means(v, t, m, n) /\ (t = Volatile => v = 0)
<1>0. /\ \A b \in Arenas : o[b] \in Nat \ {0} /\ m[b] \in Nat \ {0}
      /\ n \in Nat
  <2>1. \A b \in Arenas : o[b] \in Nat \ {0} /\ m[b] \in Nat \ {0}
    BY AddrAssumption
  <2>2. n \in Nat
    BY SizeAssumption DEF Arena
  <2>3. QED
    BY <2>1, <2>2
<1>1. CASE v # 0
  <2>1. SwizzlePointer(v) = v
    BY <1>1, PointerIs DEF Settled
  <2>2. QED
    BY <2>1, <1>1, SwizzleMeans
<1>2. CASE v = 0
  <2>1. CASE t = Volatile
    BY <1>0, <1>2, <2>1 DEF Means, Arenas
  <2>2. CASE t = Nil
    <3>1. Nil # Volatile
      BY DEF Nil, Volatile
    <3>2. QED
      BY <1>2, <2>2, <3>1 DEF Means, Value, Nil
  <2>3. CASE t \in [arena : Arenas, off : Word]
    <3>1. t.arena \in Arenas /\ t.off \in Nat /\ t.arena # 0
      BY <2>3, <1>0, Consts DEF Arenas, Word
    <3>2. t # Volatile
      BY <3>1 DEF Volatile
    <3>3. v = o[t.arena] + t.off
      BY <3>1, <3>2 DEF Means, Value
    <3>4. QED
      BY <3>1, <3>3, <1>0, <1>2
  <2>4. QED
    BY <2>1, <2>2, <2>3 DEF TargetIn, Arenas
<1>3. QED
  BY <1>1, <1>2

\* The addresses of the arenas are read from two header fields.
LEMMA BaseSame ==
  ASSUME NEW r, NEW q,
         \A a \in Arena : q[a][MapAddr] = r[a][MapAddr] /\ q[a][Delta] = r[a][Delta]
  PROVE  New(q) = New(r) /\ Old(q) = Old(r)
BY DEF New, Old

\* mapAddr, delta and the addresses that they stand for.
LEMMA BaseType ==
  ASSUME NEW r \in [Arena -> Words], NEW num \in Arena, BaseSem(r, num)
  PROVE  /\ \A a \in 1..num : a \in Arena
         /\ \A a \in 1..num : /\ New(r)[a] = r[a][MapAddr] /\ Old(r)[a] = r[a][MapAddr] - r[a][Delta]
                              /\ r[a][Delta] = New(r)[a] - Old(r)[a]
                              /\ New(r)[a] \in Nat \ {0} /\ Old(r)[a] \in Nat \ {0}
<1>1. \A a \in 1..num : a \in Arena
  BY Consts DEF Arena
<1>2. ASSUME NEW a \in 1..num
      PROVE  /\ New(r)[a] = r[a][MapAddr] /\ Old(r)[a] = r[a][MapAddr] - r[a][Delta]
             /\ r[a][Delta] = New(r)[a] - Old(r)[a]
             /\ New(r)[a] \in Nat \ {0} /\ Old(r)[a] \in Nat \ {0}
  <2>1. New(r)[a] = r[a][MapAddr] /\ Old(r)[a] = r[a][MapAddr] - r[a][Delta]
    BY <1>1 DEF New, Old
  <2>2. r[a][MapAddr] \in Int /\ r[a][Delta] \in Int
    BY <1>1, Consts DEF Words
  <2>3. New(r)[a] \in Nat \ {0} /\ Old(r)[a] \in Nat \ {0}
    BY Consts DEF BaseSem
  <2>4. QED
    BY <2>1, <2>2, <2>3
<1>3. QED
  BY <1>1, <1>2

\* Swizzling words of arena a and recording the progress keeps the meaning.
LEMMA SemProgress ==
  ASSUME NEW r \in [Arena -> Words], NEW num \in Arena, NEW tgt,
         Sem(r, num, SwizzleOngoing, tgt),
         NEW a \in 1..num, NEW mem \in Words,
         mem[MapAddr] = r[a][MapAddr], mem[Delta] = r[a][Delta],
         mem[BytesSwizzled] \in ResumePoints(a), r[a][BytesSwizzled] <= mem[BytesSwizzled],
         \A w \in PtrWords(a) :
           IF w < mem[BytesSwizzled] THEN Means(mem[Mdata + w], tgt[a][w], New(r), num)
                                     ELSE mem[Mdata + w] = r[a][Mdata + w]
  PROVE  Sem([r EXCEPT ![a] = mem], num, SwizzleOngoing, tgt)
<1> DEFINE q == [r EXCEPT ![a] = mem]
<1>0. a \in Arena /\ \A b \in 1..num : b \in Arena
  BY Consts DEF Arena
<1>1. /\ q \in [Arena -> Words] /\ q[a] = mem
      /\ \A b \in Arena : b # a => q[b] = r[b]
  BY <1>0
<1> HIDE DEF q
<1>2. New(q) = New(r) /\ Old(q) = Old(r)
  BY <1>1, BaseSame
<1>3. BaseSem(q, num)
  BY <1>2 DEF Sem, BaseSem
<1>4. ProgressSem(q, num, SwizzleOngoing)
  BY <1>0, <1>1 DEF Sem, ProgressSem
<1>5. ApartSem(q, num, SwizzleOngoing)
  <2>1. ASSUME \A b \in 1..num : r[b][BytesSwizzled] = AllocSize
        PROVE  \A b \in 1..num : q[b][BytesSwizzled] = AllocSize
    <3>1. mem[BytesSwizzled] \in 0..AllocSize
      BY <1>0, Resume
    <3>2. mem[BytesSwizzled] = AllocSize
      BY <3>1, <2>1, Consts
    <3>3. QED
      BY <3>2, <2>1, <1>0, <1>1
  <2>2. QED
    BY <2>1, <1>2 DEF Sem, ApartSem
<1>6. PointerSem(q, num, SwizzleOngoing, tgt)
  <2>1. ASSUME NEW b \in 1..num, NEW w \in PtrWords(b)
        PROVE  /\ tgt[b][w] \in TargetIn(num)
               /\ Means(q[b][Mdata + w], tgt[b][w],
                        IF SwizzleOngoing = SwizzleOngoing /\ w < q[b][BytesSwizzled] THEN New(q) ELSE Old(q), num)
    <3>1. /\ tgt[b][w] \in TargetIn(num)
          /\ Means(r[b][Mdata + w], tgt[b][w],
                   IF w < r[b][BytesSwizzled] THEN New(r) ELSE Old(r), num)
      BY DEF Sem, PointerSem
    <3>2. CASE b # a
      <4>1. q[b] = r[b]
        BY <3>2, <1>0, <1>1
      <4>2. QED
        BY <4>1, <3>1, <1>2
    <3>3. CASE b = a /\ w < mem[BytesSwizzled]
      BY <3>1, <3>3, <1>1, <1>2
    <3>4. CASE b = a /\ ~(w < mem[BytesSwizzled])
      <4>1. w \in Nat /\ r[a][BytesSwizzled] \in Int /\ mem[BytesSwizzled] \in Int
        BY <3>4, <1>0, PtrWord, HeapWords, Consts DEF Words
      <4>2. ~(w < r[a][BytesSwizzled])
        BY <4>1, <3>4
      <4>3. q[b] = mem /\ mem[Mdata + w] = r[a][Mdata + w]
        BY <1>1, <3>4
      <4>4. QED
        BY <4>2, <4>3, <3>1, <3>4, <1>2
    <3>5. QED
      BY <3>2, <3>3, <3>4
  <2>2. QED
    BY <2>1 DEF PointerSem
<1>7. QED
  BY <1>3, <1>4, <1>5, <1>6 DEF Sem, q

------------------------------------------------------------------------------
(* Every action preserves the invariant, and none of them takes back the   *)
(* recorded progress of an arena.                                          *)

\* The progress that the next run will find does not decrease.
Forward == swizzleState = SwizzleOngoing /\ swizzleState' = SwizzleOngoing =>
             \A a \in Arenas : Rec'[a][BytesSwizzled] >= Rec[a][BytesSwizzled]

\* The progress stays when the recovered words do.
LEMMA ForwardSame ==
  ASSUME TypeOK, CopyInv, Rec' = Rec
  PROVE  Forward
<1>1. \A a \in Arenas : a \in Arena
  BY SizeAssumption DEF TypeOK, Arenas, Arena
<1>2. \A a \in Arena : Rec[a][BytesSwizzled] \in Int
  BY RecType, Consts DEF Words
<1>3. QED
  BY <1>1, <1>2 DEF Forward

\* The arenas of the file and the loop counter.
LEMMA Range ==
  ASSUME TypeOK
  PROVE  /\ n \in Nat /\ k \in Nat /\ 1 <= k /\ k <= n /\ k \in Arena /\ k \in Arenas /\ n \in Arenas
         /\ 1 \in Arenas
         /\ \A a \in Arenas : a \in Arena
BY SizeAssumption, SMTT(30) DEF TypeOK, Arenas, Arena

\* What a step of the goroutine of PmemInit leaves alone when the recovered words stay
\* the same.
LEMMA Frame ==
  ASSUME IInv, UNCHANGED <<n, target, rootTarget, rootOffset, swizzleState>>, Rec' = Rec,
         pc' # "running", pc' \notin Walking,
         \A a \in Arena \ Arenas : log'[a] = log[a] /\ pm'[a] = pm[a] /\ sw'[a] = sw[a]
  PROVE  /\ BeyondInv' /\ WalkInv' /\ RootInv' /\ Forward
         /\ Sem(Rec, n, swizzleState, target)'
<1>1. BeyondInv'
  BY DEF IInv, BeyondInv, Arenas, Clean
<1>2. WalkInv'
  BY DEF WalkInv
<1>3. RootInv'
  BY DEF IInv, RootInv, Arenas
<1>4. Forward
  BY ForwardSame DEF IInv
<1>5. Sem(Rec, n, swizzleState, target)'
  BY DEF IInv
<1>6. QED
  BY <1>1, <1>2, <1>3, <1>4, <1>5

\* Logging the delta of an arena that has been swizzled.
LEMMA LogDeltaStep ==
  ASSUME IInv, CompleteLog \/ ClearLog
  PROVE  IInv' /\ Forward
<1>0. TypeOK /\ CopyInv
  BY DEF IInv
<1>1. /\ \/ pc = "completeLog" /\ pc' = "completeDelta"
         \/ pc = "clearLog" /\ pc' = "clearDelta"
      /\ LogEntry(k, Delta)
      /\ UNCHANGED <<pm, nvm, swizzleState, rootOffset, n, k, addr, offsetTable, rangeTable, sw,
                     root, target, rootTarget, stores, crashes>>
  BY DEF CompleteLog, ClearLog, tables, app
<1>2. k \in Arena /\ k \in Arenas
  BY <1>0, Range
<1>3. Clean(k) /\ swizzleState = SwizzleOngoing
  BY <1>1 DEF IInv, LogInv, StateInv, Clearing
<1>4. In(log[k]) = {}
  BY <1>3, EmptyLog DEF Clean, In
<1>5. /\ log' \in [Arena -> Seq([off : Word, val : Int])]
      /\ CopyInv'
      /\ Rec' = Rec
      /\ In(log'[k]) = {Delta}
      /\ \A b \in Arena : b # k => log'[b] = log[b]
  BY <1>0, <1>1, <1>2, <1>4, LogStep, Consts
<1>6. TypeOK'
  BY <1>0, <1>1, <1>5 DEF TypeOK, Arenas, PCs
<1>7. StateInv'
  BY <1>1 DEF IInv, StateInv, Setup, Clearing, Walking, Arenas
<1>8. LogInv'
  <2>1. \A b \in 1..(k - 1) : b \in Arena /\ b # k /\ Cleared(b)
    BY <1>0, <1>1, Range DEF IInv, LogInv, Clearing, Arenas
  <2>2. \A b \in (k + 1)..n : b \in Arena /\ b # k /\ Clean(b)
    BY <1>0, <1>1, Range DEF IInv, LogInv, Clearing, Arenas
  <2>3. \A b \in 1..(k - 1) : Cleared(b)'
    BY <2>1, <1>1, <1>5 DEF Cleared
  <2>4. \A b \in (k + 1)..n : Clean(b)'
    BY <2>2, <1>1, <1>5 DEF Clean
  <2>5. QED
    BY <1>1, <1>5, <2>3, <2>4 DEF LogInv, Setup, Clearing
<1>9. TableInv'
  BY <1>1, <1>5 DEF IInv, TableInv, Setup, Walking, Arenas
<1>10. ProgressInv'
  BY <1>1, <1>5 DEF IInv, ProgressInv, Setup, Clearing, Arenas
<1>11. /\ BeyondInv' /\ WalkInv' /\ RootInv' /\ Forward
       /\ Sem(Rec, n, swizzleState, target)'
  BY <1>1, <1>2, <1>5, Frame DEF Walking
<1>12. QED
  BY <1>5, <1>6, <1>7, <1>8, <1>9, <1>10, <1>11 DEF IInv

\* The delta is cleared and persisted, and the loop goes on.
LEMMA ClearDeltaStep ==
  ASSUME IInv, CompleteDelta \/ ClearDelta
  PROVE  IInv' /\ Forward
<1>0. TypeOK /\ CopyInv
  BY DEF IInv
<1>1. /\ \/ pc = "completeDelta" /\ Loop("completeLog", "setDone")
         \/ pc = "clearDelta" /\ Loop("clearLog", "finalReset")
      /\ StorePersist(k, Delta, 0)
      /\ UNCHANGED <<log, swizzleState, rootOffset, n, addr, offsetTable, rangeTable, sw,
                     root, target, rootTarget, stores, crashes>>
  BY DEF CompleteDelta, ClearDelta, tables, app
<1>2. /\ \/ pc = "completeDelta" /\ k < n /\ k' = k + 1 /\ pc' = "completeLog"
         \/ pc = "completeDelta" /\ k = n /\ k' = 1 /\ pc' = "setDone"
         \/ pc = "clearDelta" /\ k < n /\ k' = k + 1 /\ pc' = "clearLog"
         \/ pc = "clearDelta" /\ k = n /\ k' = 1 /\ pc' = "finalReset"
      /\ k \in Arena /\ k \in Arenas /\ k \in 1..n /\ n \in Nat /\ k' \in 1..n
  BY <1>0, <1>1, Range DEF Loop
<1>3. In(log[k]) = {Delta} /\ swizzleState = SwizzleOngoing
  BY <1>2 DEF IInv, LogInv, StateInv, Clearing
<1>4. swizzleState # SwizzleDone /\ Delta \in In(log[k]) \cap Word
  BY <1>3, Consts
<1>5. /\ pm' \in [Arena -> [Word -> Int]]
      /\ nvm' \in [Arena -> [Word -> Int]]
      /\ CopyInv'
      /\ Rec' = Rec
      /\ pm'[k] = [pm[k] EXCEPT ![Delta] = 0] /\ nvm'[k] = [nvm[k] EXCEPT ![Delta] = 0]
      /\ \A b \in Arena : b # k => pm'[b] = pm[b] /\ nvm'[b] = nvm[b]
  <2>1. 0 \in Int
    OBVIOUS
  <2>2. QED
    BY <1>0, <1>1, <1>2, <1>4, <2>1, StoreLogged
<1>6. TypeOK'
  BY <1>0, <1>1, <1>2, <1>5 DEF TypeOK, Arenas, PCs
<1>7. StateInv'
  BY <1>1, <1>2, <1>3, Consts DEF IInv, StateInv, Setup, Clearing, Walking, Arenas
<1>8. LogInv'
  <2>1. \A b \in 1..(k - 1) : b \in Arena /\ b # k /\ Cleared(b)
    BY <1>0, <1>2, Range DEF IInv, LogInv, Clearing, Arenas
  <2>2. \A b \in (k + 1)..n : b \in Arena /\ b # k /\ Clean(b)
    BY <1>0, <1>2, Range DEF IInv, LogInv, Clearing, Arenas
  <2>3. \A b \in 1..(k - 1) : Cleared(b)'
    BY <2>1, <1>1, <1>5 DEF Cleared
  <2>4. \A b \in (k + 1)..n : Clean(b)'
    BY <2>2, <1>1 DEF Clean
  <2>5. In(log'[k]) = {Delta} /\ pm'[k][Delta] = 0 /\ nvm'[k][Delta] = 0
    <3>1. pm[k] \in Words /\ nvm[k] \in Words
      BY <1>0, <1>2 DEF TypeOK, Words
    <3>2. pm'[k][Delta] = 0 /\ nvm'[k][Delta] = 0
      BY <3>1, <1>5, Consts DEF Words
    <3>3. QED
      BY <3>2, <1>1, <1>3
  <2>6. \A b \in 1..k : Cleared(b)'
    <3>1. \A b \in 1..k : b \in 1..(k - 1) \/ b = k
      BY <1>2
    <3>2. QED
      BY <3>1, <2>3, <2>5 DEF Cleared
  <2>7. CASE k < n
    <3>0. pc' \in {"completeLog", "clearLog"} /\ k' = k + 1 /\ n' = n
      BY <2>7, <1>1, <1>2
    <3>1. /\ 1..(k' - 1) = 1..k /\ k' \in (k + 1)..n
          /\ \A b \in (k' + 1)..n : b \in (k + 1)..n
      BY <3>0, <1>2
    <3>2. /\ \A b \in 1..(k' - 1) : Cleared(b)'
          /\ \A b \in (k' + 1)..n' : Clean(b)'
          /\ log'[k'] = <<>>
      BY <3>0, <3>1, <2>4, <2>6 DEF Clean
    <3>3. QED
      BY <3>0, <3>2 DEF LogInv, Setup, Clearing, Clean
  <2>8. CASE k = n
    <3>1. pc' \in {"setDone", "finalReset"} /\ k' = 1 /\ n' = n /\ swizzleState' = SwizzleOngoing
      BY <2>8, <1>1, <1>2, <1>3
    <3>2. \A b \in 1..n' : Cleared(b)'
      BY <2>8, <1>1, <2>6
    <3>3. QED
      BY <3>1, <3>2, Consts DEF LogInv, Setup, Clearing, Arenas
  <2>9. QED
    BY <2>7, <2>8, <1>2
<1>9. TableInv'
  BY <1>1, <1>2, <1>5 DEF IInv, TableInv, Setup, Walking, Arenas
<1>10. ProgressInv'
  BY <1>1, <1>2, <1>5 DEF IInv, ProgressInv, Setup, Clearing, Arenas
<1>11. /\ BeyondInv' /\ WalkInv' /\ RootInv' /\ Forward
       /\ Sem(Rec, n, swizzleState, target)'
  <2>1. pc' # "running" /\ pc' \notin Walking
    BY <1>2 DEF Walking
  <2>2. QED
    BY <2>1, <1>1, <1>2, <1>5, Frame
<1>12. QED
  BY <1>5, <1>6, <1>7, <1>8, <1>9, <1>10, <1>11 DEF IInv

\* revertLog stores the logged values.
LEMMA RevertStoreStep ==
  ASSUME IInv, RevertStore
  PROVE  IInv' /\ Forward
<1>0. TypeOK /\ CopyInv
  BY DEF IInv
<1>1. /\ \/ pc = "revertSetup" /\ pc' = "revertSetupReset"
         \/ pc = "revertOngoing" /\ pc' = "revertOngoingReset"
      /\ pm' = [pm EXCEPT ![k] = Restored(k, pm[k])]
      /\ UNCHANGED <<nvm, log, swizzleState, rootOffset, n, k, addr, offsetTable, rangeTable, sw,
                     root, target, rootTarget, stores, crashes>>
  BY DEF RevertStore, tables, app
<1>2. k \in Arena /\ k \in Arenas
  BY <1>0, Range
<1>3. swizzleState # SwizzleDone
  BY <1>1, Consts DEF IInv, StateInv
<1>4. Restored(k, pm[k]) = Rec[k]
  <2>1. Restored(k, pm[k]) = Rest(log[k], pm[k])
    BY DEF Restored, Rest, LoggedIn, In, LoggedVal, LastVal
  <2>2. Rest(log[k], pm[k]) = Rest(log[k], nvm[k])
    <3>1. log[k] \in Seq(Entry) /\ pm[k] \in Words /\ nvm[k] \in Words
      BY <1>0, <1>2 DEF TypeOK, Entry, Words
    <3>2. \A w \in Word : w \notin In(log[k]) => pm[k][w] = nvm[k][w]
      BY <1>0, <1>2, RecType
    <3>3. QED
      BY <3>1, <3>2, RestOver
  <2>3. QED
    BY <2>1, <2>2, <1>2, <1>3 DEF Rec
<1>5. /\ pm' \in [Arena -> [Word -> Int]]
      /\ CopyInv'
      /\ Rec' = Rec
      /\ pm'[k] = Rec[k]
      /\ \A b \in Arena : b # k => pm'[b] = pm[b]
  <2>1. Rec[k] \in Words
    BY <1>0, <1>2, RecType
  <2>2. \A w \in Word : w \notin In(log[k]) => Rec[k][w] = nvm[k][w]
    BY <1>0, <1>2, RecType
  <2>3. QED
    BY <1>0, <1>1, <1>2, <1>3, <1>4, <2>1, <2>2, StoreCached
<1>6. TypeOK'
  BY <1>0, <1>1, <1>5 DEF TypeOK, Arenas, PCs
<1>7. StateInv'
  BY <1>1 DEF IInv, StateInv, Setup, Clearing, Walking, Arenas
<1>8. LogInv'
  <2>1. \A b \in 1..(k - 1) : Clean(b)'
    BY <1>1 DEF IInv, LogInv, Clean
  <2>2. QED
    BY <1>1, <1>5, <2>1 DEF LogInv, Setup, Clearing
<1>9. TableInv'
  BY <1>1, <1>5 DEF IInv, TableInv, Setup, Walking, Arenas
<1>10. ProgressInv'
  BY <1>1, <1>5 DEF IInv, ProgressInv, Setup, Clearing, Arenas
<1>11. /\ BeyondInv' /\ WalkInv' /\ RootInv' /\ Forward
       /\ Sem(Rec, n, swizzleState, target)'
  BY <1>1, <1>2, <1>5, Frame DEF Walking
<1>12. QED
  BY <1>5, <1>6, <1>7, <1>8, <1>9, <1>10, <1>11 DEF IInv

\* The reverted words are durable before the log is emptied.
LEMMA RevertCommit ==
  ASSUME IInv, pc \in {"revertSetupReset", "revertOngoingReset"}, CommitLog(k),
         UNCHANGED <<pm, swizzleState, n>>
  PROVE  /\ log' \in [Arena -> Seq([off : Word, val : Int])]
         /\ nvm' \in [Arena -> [Word -> Int]]
         /\ CopyInv'
         /\ Rec' = Rec
         /\ \A b \in Arena : b # k => log'[b] = log[b]
         /\ \A b \in 1..k : Clean(b)'
         /\ pm[k] = Rec[k]
<1>0. TypeOK /\ CopyInv
  BY DEF IInv
<1>1. k \in Arena /\ k \in Nat /\ \A b \in 1..(k - 1) : b \in Arena
  BY <1>0, Range DEF Arenas
<1>2. swizzleState # SwizzleDone
  BY Consts DEF IInv, StateInv
<1>3. /\ log' \in [Arena -> Seq([off : Word, val : Int])]
      /\ nvm' \in [Arena -> [Word -> Int]]
      /\ CopyInv'
      /\ Rec' = [Rec EXCEPT ![k] = pm[k]]
      /\ log'[k] = <<>>
      /\ \A b \in Arena : b # k => log'[b] = log[b]
  BY <1>0, <1>1, <1>2, CommitStep
<1>4. pm[k] = Rec[k]
  BY DEF IInv, LogInv
<1>5. Rec' = Rec
  BY <1>0, <1>1, <1>3, <1>4, RecType
<1>6. \A b \in 1..(k - 1) : Clean(b) /\ b # k
  BY <1>1 DEF IInv, LogInv
<1>7. \A b \in 1..k : log'[b] = <<>>
  <2>1. \A b \in 1..k : b = k \/ b \in 1..(k - 1)
    BY <1>1
  <2>2. QED
    BY <2>1, <1>1, <1>3, <1>6 DEF Clean
<1>8. QED
  BY <1>3, <1>4, <1>5, <1>7 DEF Clean

\* An interrupted setup is taken back, arena by arena.
LEMMA RevertSetupStep ==
  ASSUME IInv, RevertSetup
  PROVE  IInv' /\ Forward
<1>0. TypeOK /\ CopyInv
  BY DEF IInv
<1>1. /\ pc = "revertSetupReset"
      /\ CommitLog(k)
      /\ Loop("revertSetup", "setDone")
      /\ UNCHANGED <<pm, swizzleState, rootOffset, n, addr, offsetTable, rangeTable, sw,
                     root, target, rootTarget, stores, crashes>>
  BY DEF RevertSetup, tables, app
<1>2. /\ \/ k < n /\ k' = k + 1 /\ pc' = "revertSetup"
         \/ k = n /\ k' = 1 /\ pc' = "setDone"
      /\ k \in Arena /\ k \in Arenas /\ k \in 1..n /\ n \in Nat /\ k' \in 1..n
  BY <1>0, <1>1, Range DEF Loop
<1>3. swizzleState = SwizzleSetup
  BY <1>1 DEF IInv, StateInv
<1>5. /\ log' \in [Arena -> Seq([off : Word, val : Int])]
      /\ nvm' \in [Arena -> [Word -> Int]]
      /\ CopyInv'
      /\ Rec' = Rec
      /\ \A b \in Arena : b # k => log'[b] = log[b]
      /\ \A b \in 1..k : Clean(b)'
  BY <1>1, RevertCommit
<1>6. TypeOK'
  BY <1>0, <1>1, <1>2, <1>5 DEF TypeOK, Arenas, PCs
<1>7. StateInv'
  BY <1>1, <1>2, <1>3, Consts DEF IInv, StateInv, Setup, Clearing, Walking, Arenas
<1>8. LogInv'
  <2>1. CASE k < n
    <3>1. 1..(k' - 1) = 1..k
      BY <1>2, <2>1
    <3>2. \A b \in 1..(k' - 1) : Clean(b)'
      BY <3>1, <1>5
    <3>3. QED
      BY <3>2, <2>1, <1>2 DEF LogInv, Setup, Clearing
  <2>2. CASE k = n
    <3>1. \A b \in 1..n' : Clean(b)'
      BY <1>1, <1>5, <2>2
    <3>2. pc' = "setDone" /\ swizzleState' = SwizzleSetup
      BY <1>1, <1>2, <1>3, <2>2
    <3>3. QED
      BY <3>1, <3>2, Consts DEF LogInv, Setup, Clearing, Arenas
  <2>3. QED
    BY <2>1, <2>2, <1>2
<1>9. TableInv'
  BY <1>1, <1>2, <1>5 DEF IInv, TableInv, Setup, Walking, Arenas
<1>10. ProgressInv'
  BY <1>1, <1>2, <1>3, <1>5, Consts DEF IInv, ProgressInv, Setup, Clearing, Arenas
<1>11. /\ BeyondInv' /\ WalkInv' /\ RootInv' /\ Forward
       /\ Sem(Rec, n, swizzleState, target)'
  <2>1. pc' # "running" /\ pc' \notin Walking
    BY <1>2 DEF Walking
  <2>2. QED
    BY <2>1, <1>1, <1>2, <1>5, Frame
<1>12. QED
  BY <1>5, <1>6, <1>7, <1>8, <1>9, <1>10, <1>11 DEF IInv

\* An interrupted swizzle is taken back to its last commit, and the tables are those it used.
LEMMA RevertOngoingStep ==
  ASSUME IInv, RevertOngoing
  PROVE  IInv' /\ Forward
<1>0. TypeOK /\ CopyInv
  BY DEF IInv
<1>1. /\ pc = "revertOngoingReset"
      /\ CommitLog(k)
      /\ offsetTable' = [offsetTable EXCEPT ![k] = pm[k][Delta]]
      /\ rangeTable' = [rangeTable EXCEPT ![k] = pm[k][MapAddr] - pm[k][Delta]]
      /\ Loop("revertOngoing", "complete")
      /\ UNCHANGED <<pm, swizzleState, rootOffset, n, addr, sw,
                     root, target, rootTarget, stores, crashes>>
  BY DEF RevertOngoing, app
<1>2. /\ \/ k < n /\ k' = k + 1 /\ pc' = "revertOngoing"
         \/ k = n /\ k' = 1 /\ pc' = "complete"
      /\ k \in Arena /\ k \in Arenas /\ k \in 1..n /\ n \in Nat /\ k' \in 1..n
  BY <1>0, <1>1, Range DEF Loop
<1>3. swizzleState = SwizzleOngoing
  BY <1>1 DEF IInv, StateInv
<1>5. /\ log' \in [Arena -> Seq([off : Word, val : Int])]
      /\ nvm' \in [Arena -> [Word -> Int]]
      /\ CopyInv'
      /\ Rec' = Rec
      /\ \A b \in Arena : b # k => log'[b] = log[b]
      /\ \A b \in 1..k : Clean(b)'
      /\ pm[k] = Rec[k]
  BY <1>1, RevertCommit
<1>a. pm[k][Delta] \in Int /\ pm[k][MapAddr] \in Int
  BY <1>0, <1>2, Consts DEF TypeOK
<1>6. TypeOK'
  <2>1. offsetTable' \in [Arena -> Int] /\ rangeTable' \in [Arena -> Int]
    <3>1. offsetTable \in [Arena -> Int] /\ rangeTable \in [Arena -> Int]
      BY <1>0 DEF TypeOK
    <3>2. pm[k][MapAddr] - pm[k][Delta] \in Int
      BY <1>a
    <3>3. QED
      BY <3>1, <3>2, <1>1, <1>2, <1>a
  <2>2. QED
    BY <1>0, <1>1, <1>2, <1>5, <2>1 DEF TypeOK, Arenas, PCs
<1>7. StateInv'
  BY <1>1, <1>2, <1>3, Consts DEF IInv, StateInv, Setup, Clearing, Walking, Arenas
<1>8. LogInv'
  <2>1. CASE k < n
    <3>1. 1..(k' - 1) = 1..k
      BY <1>2, <2>1
    <3>2. \A b \in 1..(k' - 1) : Clean(b)'
      BY <3>1, <1>5
    <3>3. QED
      BY <3>2, <2>1, <1>2 DEF LogInv, Setup, Clearing
  <2>2. CASE k = n
    <3>1. \A b \in 1..n' : Clean(b)'
      BY <1>1, <1>5, <2>2
    <3>2. pc' = "complete"
      BY <1>2, <2>2
    <3>3. QED
      BY <3>1, <3>2 DEF LogInv, Setup, Clearing, Arenas
  <2>3. QED
    BY <2>1, <2>2, <1>2
<1>9. TableInv'
  <2>1. \A b \in 1..(k - 1) : b \in Arena /\ b # k /\ rangeTable[b] = Old(Rec)[b] /\ offsetTable[b] = Rec[b][Delta]
    BY <1>0, <1>1, <1>2, Range DEF IInv, TableInv, Arenas
  <2>2. offsetTable \in [Arena -> Int] /\ rangeTable \in [Arena -> Int]
    BY <1>0 DEF TypeOK
  <2>3. \A b \in 1..(k - 1) : rangeTable'[b] = Old(Rec)[b] /\ offsetTable'[b] = Rec[b][Delta]
    BY <2>1, <2>2, <1>1, <1>2
  <2>4. rangeTable'[k] = Old(Rec)[k] /\ offsetTable'[k] = Rec[k][Delta]
    BY <2>2, <1>1, <1>2, <1>5 DEF Old
  <2>5. \A b \in 1..k : rangeTable'[b] = Old(Rec')[b] /\ offsetTable'[b] = Rec'[b][Delta]
    <3>1. \A b \in 1..k : b = k \/ b \in 1..(k - 1)
      BY <1>2
    <3>2. QED
      BY <3>1, <2>3, <2>4, <1>5
  <2>6. CASE k < n
    <3>1. 1..(k' - 1) = 1..k /\ pc' = "revertOngoing"
      BY <1>2, <2>6
    <3>2. QED
      BY <3>1, <2>5 DEF TableInv, Setup, Walking
  <2>7. CASE k = n
    <3>1. pc' = "complete" /\ Arenas' = 1..k
      BY <1>1, <1>2, <2>7 DEF Arenas
    <3>2. QED
      BY <3>1, <2>5 DEF TableInv, Setup, Walking
  <2>8. QED
    BY <2>6, <2>7, <1>2
<1>10. ProgressInv'
  BY <1>1, <1>2, <1>3, <1>5, Consts DEF IInv, ProgressInv, Setup, Clearing, Arenas
<1>11. /\ BeyondInv' /\ WalkInv' /\ RootInv' /\ Forward
       /\ Sem(Rec, n, swizzleState, target)'
  <2>1. pc' # "running" /\ pc' \notin Walking
    BY <1>2 DEF Walking
  <2>2. QED
    BY <2>1, <1>1, <1>2, <1>5, Frame
<1>12. QED
  BY <1>5, <1>6, <1>7, <1>8, <1>9, <1>10, <1>11 DEF IInv

\* swizzleDone is stored; the logs that are still full are discarded by the next run,
\* and by then no pointer is relative to an old address any more.
LEMMA SetDoneStep ==
  ASSUME IInv, SetDone
  PROVE  IInv' /\ Forward
<1>0. TypeOK /\ CopyInv /\ Rec \in [Arena -> Words] /\ Sem(Rec, n, swizzleState, target)
  BY RecType DEF IInv
<1>1. /\ pc = "setDone" /\ swizzleState' = SwizzleDone /\ pc' = "prepare"
      /\ UNCHANGED <<pm, nvm, log, rootOffset, n, k, addr, offsetTable, rangeTable, sw,
                     root, target, rootTarget, stores, crashes>>
  BY DEF SetDone, tables, app
<1>2. n \in Nat /\ n \in Arena /\ \A a \in Arenas : a \in Arena
  BY <1>0, Range DEF TypeOK
<1>3. k = 1 /\ swizzleState # SwizzleDone
  BY <1>1 DEF IInv, StateInv
<1>4. Rec' = nvm /\ nvm \in [Arena -> Words] /\ pm \in [Arena -> Words]
  <2>1. nvm \in [Arena -> Words] /\ pm \in [Arena -> Words]
    BY <1>0 DEF TypeOK, Words
  <2>2. QED
    BY <1>1, <2>1 DEF Rec
<1>5. ASSUME NEW a \in Arena, Clean(a)
      PROVE  Rec[a] = nvm[a] /\ pm[a] = nvm[a]
  BY <1>0, <1>5, RecType
<1>6. ASSUME NEW a \in Arenas, Cleared(a)
      PROVE  /\ pm[a] = nvm[a] /\ nvm[a][Delta] = 0
             /\ \A w \in Word : w # Delta => nvm[a][w] = Rec[a][w]
  <2>1. \A w \in Word : w # Delta => Rec[a][w] = nvm[a][w] /\ pm[a][w] = nvm[a][w]
    BY <1>0, <1>2, <1>6, RecType DEF Cleared
  <2>2. \A w \in Word : pm[a][w] = nvm[a][w]
    BY <2>1, <1>6 DEF Cleared
  <2>3. pm[a] \in Words /\ nvm[a] \in Words
    BY <1>2, <1>4
  <2>4. pm[a] = nvm[a]
    BY <2>2, <2>3 DEF Words
  <2>5. QED
    BY <2>1, <2>4, <1>6 DEF Cleared
<1>7. \A a \in Arena : pm[a] = nvm[a]
  <2>1. \A a \in Arena \ Arenas : Clean(a)
    BY DEF IInv, BeyondInv
  <2>2. \A a \in Arenas : Clean(a) \/ Cleared(a)
    BY <1>0, <1>1, <1>3 DEF IInv, LogInv, TypeOK
  <2>3. QED
    BY <2>1, <2>2, <1>5, <1>6
<1>8. CopyInv'
  BY <1>0, <1>1, <1>7 DEF CopyInv
<1>9. Sem(Rec, n, swizzleState, target)'
  <2>0. Sem(nvm, n, SwizzleDone, target)
    <3>1. CASE swizzleState = SwizzleSetup
      <4>1. \A a \in Arena : Clean(a)
        BY <3>1, <1>1 DEF IInv, BeyondInv, LogInv
      <4>2. Rec = nvm
        BY <4>1, <1>5, <1>0, <1>4
      <4>3. QED
        BY <4>2, <1>0, <3>1, Consts DEF Sem, BaseSem, ApartSem, ProgressSem, PointerSem
    <3>2. CASE swizzleState = SwizzleOngoing
      <4>1. \A a \in Arenas : Cleared(a) /\ Rec[a][BytesSwizzled] = AllocSize
        BY <3>2, <1>1 DEF IInv, LogInv, ProgressInv
      <4>2. \A a \in Arenas : /\ nvm[a][Delta] = 0 /\ nvm[a][MapAddr] = Rec[a][MapAddr]
                              /\ \A w \in PtrWords(a) : nvm[a][Mdata + w] = Rec[a][Mdata + w]
        BY <4>1, <1>2, <1>6, PtrWord, HeapWords, Consts
      <4>3. ASSUME NEW a \in Arenas
            PROVE  New(nvm)[a] = New(Rec)[a] /\ Old(nvm)[a] = New(Rec)[a]
        <5>1. nvm[a][MapAddr] \in Int
          BY <1>2, <1>4, Consts DEF Words
        <5>2. QED
          BY <5>1, <4>2, <1>2 DEF New, Old
      <4>4. BaseSem(nvm, n)
        BY <4>3, <1>0 DEF Sem, BaseSem, Arenas
      <4>5. ApartSem(nvm, n, SwizzleDone)
        <5>1. Disjoint(New(Rec), 1..n)
          BY <1>0, <3>2 DEF Sem, ApartSem
        <5>2. Disjoint(Old(nvm), 1..n)
          BY <5>1, <4>3 DEF Disjoint, Arenas
        <5>3. QED
          BY <5>2, Consts DEF ApartSem
      <4>6. ProgressSem(nvm, n, SwizzleDone)
        BY Consts DEF ProgressSem
      <4>7. ASSUME NEW a \in 1..n, NEW w \in PtrWords(a)
            PROVE  /\ target[a][w] \in TargetIn(n)
                   /\ Means(nvm[a][Mdata + w], target[a][w], Old(nvm), n)
        <5>1. a \in Arenas /\ w < Rec[a][BytesSwizzled]
          BY <4>1, <1>2, PtrWord, HeapWords DEF Arenas
        <5>2. /\ target[a][w] \in TargetIn(n)
              /\ Means(Rec[a][Mdata + w], target[a][w], New(Rec), n)
          BY <5>1, <1>0, <3>2 DEF Sem, PointerSem
        <5>3. Value(target[a][w], New(Rec)) = Value(target[a][w], Old(nvm))
          BY <5>2, <4>3 DEF TargetIn, Value, Arenas, Nil, Volatile
        <5>4. QED
          BY <5>1, <5>2, <5>3, <4>2, <4>3 DEF Means, Arenas
      <4>8. PointerSem(nvm, n, SwizzleDone, target)
        BY <4>7, Consts DEF PointerSem
      <4>9. QED
        BY <4>4, <4>5, <4>6, <4>8 DEF Sem
    <3>3. QED
      BY <3>1, <3>2, <1>0, <1>3 DEF TypeOK
  <2>1. QED
    BY <2>0, <1>1, <1>4
<1>10. TypeOK'
  BY <1>0, <1>1 DEF TypeOK, Arenas, PCs
<1>11. StateInv'
  BY <1>1 DEF IInv, StateInv, Setup, Clearing, Walking, Arenas
<1>12. LogInv'
  BY <1>1, <1>3 DEF LogInv, Setup, Clearing
<1>13. TableInv'
  BY <1>1, <1>3 DEF TableInv, Setup, Walking
<1>14. ProgressInv'
  BY <1>1, <1>3 DEF ProgressInv, Setup, Clearing
<1>15. BeyondInv' /\ WalkInv' /\ RootInv'
  BY <1>1 DEF IInv, BeyondInv, WalkInv, RootInv, Clean, Arenas, Walking
<1>16. Forward
  BY <1>1, Consts DEF Forward
<1>17. QED
  BY <1>8, <1>9, <1>10, <1>11, <1>12, <1>13, <1>14, <1>15, <1>16 DEF IInv

\* The progress of arena k is reset; no swizzling is in progress.
LEMMA PrepareStep ==
  ASSUME IInv, Prepare
  PROVE  IInv' /\ Forward
<1>0. TypeOK /\ CopyInv /\ Rec \in [Arena -> Words] /\ Sem(Rec, n, swizzleState, target)
  BY RecType DEF IInv
<1>1. /\ pc = "prepare" /\ pc' = "prepareTables"
      /\ StorePersist(k, BytesSwizzled, 0)
      /\ UNCHANGED <<log, swizzleState, rootOffset, n, k, addr, offsetTable, rangeTable, sw,
                     root, target, rootTarget, stores, crashes>>
  BY DEF Prepare, tables, app
<1>2. n \in Nat /\ n \in Arena /\ k \in Arena /\ k \in Arenas /\ k \in Nat /\ \A a \in Arenas : a \in Arena
  BY <1>0, Range DEF TypeOK
<1>3. swizzleState = SwizzleDone
  BY <1>1 DEF IInv, StateInv
<1>4. /\ pm' \in [Arena -> [Word -> Int]]
      /\ nvm' \in [Arena -> [Word -> Int]]
      /\ CopyInv'
      /\ Rec'[k][BytesSwizzled] = 0
      /\ \A w \in Word : w # BytesSwizzled => Rec'[k][w] = Rec[k][w]
      /\ \A b \in Arena : b # k => Rec'[b] = Rec[b]
      /\ \A b \in Arena : b # k => pm'[b] = pm[b] /\ nvm'[b] = nvm[b]
  <2>1. 0 \in Int /\ BytesSwizzled \in Word
    BY Consts
  <2>2. log[k] = <<>> \/ swizzleState = SwizzleDone
    BY <1>3
  <2>3. QED
    BY <1>0, <1>1, <1>2, <2>1, <2>2, StoreClean
<1>5. \A b \in Arena : /\ \A w \in Word : w # BytesSwizzled => Rec'[b][w] = Rec[b][w]
                       /\ b # k => Rec'[b] = Rec[b]
  BY <1>4
<1>6. Rec'[k][BytesSwizzled] = 0
  BY <1>4
<1>7. New(Rec') = New(Rec) /\ Old(Rec') = Old(Rec)
  BY <1>5, BaseSame, Consts
<1>8. Sem(Rec, n, swizzleState, target)'
  <2>1. \A a \in 1..n : \A w \in PtrWords(a) : Rec'[a][Mdata + w] = Rec[a][Mdata + w]
    BY <1>2, <1>5, PtrWord, HeapWords DEF Arenas
  <2>2. PointerSem(Rec', n, swizzleState, target)
    BY <2>1, <1>0, <1>3, <1>7, Consts DEF Sem, PointerSem
  <2>3. Sem(Rec', n, swizzleState, target)
    BY <2>2, <1>0, <1>3, <1>7, Consts DEF Sem, BaseSem, ApartSem, ProgressSem
  <2>4. QED
    BY <2>3, <1>1
<1>9. \A b \in 1..(k - 1) : b \in Arena /\ b # k /\ Rec'[b] = Rec[b]
  BY <1>0, <1>2, <1>5, Range DEF Arenas
<1>10. TypeOK'
  BY <1>0, <1>1, <1>4 DEF TypeOK, Arenas, PCs
<1>11. StateInv'
  BY <1>1 DEF IInv, StateInv, Setup, Clearing, Walking, Arenas
<1>12. LogInv'
  BY <1>1 DEF IInv, LogInv, Setup, Clearing, Clean
<1>13. TableInv'
  BY <1>1, <1>7, <1>9 DEF IInv, TableInv, Setup, Walking
<1>14. ProgressInv'
  BY <1>1, <1>6, <1>9 DEF IInv, ProgressInv, Setup, Clearing
<1>15. BeyondInv' /\ WalkInv' /\ RootInv'
  BY <1>1, <1>2, <1>4 DEF IInv, BeyondInv, WalkInv, RootInv, Clean, Arenas, Walking
<1>16. Forward
  BY <1>3, Consts DEF Forward
<1>17. QED
  BY <1>4, <1>8, <1>10, <1>11, <1>12, <1>13, <1>14, <1>15, <1>16 DEF IInv

\* The log is discarded and the tables of this run are filled.
LEMMA PrepareTablesStep ==
  ASSUME IInv, PrepareTables
  PROVE  IInv' /\ Forward
<1>0. TypeOK /\ CopyInv
  BY DEF IInv
<1>1. /\ pc = "prepareTables"
      /\ log' = [log EXCEPT ![k] = <<>>]
      /\ offsetTable' = [offsetTable EXCEPT ![k] = addr[k] - (pm[k][MapAddr] - pm[k][Delta])]
      /\ rangeTable' = [rangeTable EXCEPT ![k] = pm[k][MapAddr] - pm[k][Delta]]
      /\ Loop("prepare", "setSetup")
      /\ UNCHANGED <<pm, nvm, swizzleState, rootOffset, n, addr, sw,
                     root, target, rootTarget, stores, crashes>>
  BY DEF PrepareTables, ResetLog, app
<1>2. /\ \/ k < n /\ k' = k + 1 /\ pc' = "prepare"
         \/ k = n /\ k' = 1 /\ pc' = "setSetup"
      /\ k \in Arena /\ k \in Arenas /\ k \in 1..n /\ n \in Nat /\ k' \in 1..n
  BY <1>0, <1>1, Range DEF Loop
<1>3. swizzleState = SwizzleDone
  BY <1>1 DEF IInv, StateInv
<1>4. Rec' = Rec /\ pm[k] = Rec[k]
  <2>1. Rec' = Rec
    BY <1>1, <1>3 DEF Rec
  <2>2. QED
    BY <2>1, <1>0, <1>2, <1>3, RecType
<1>5. /\ log' \in [Arena -> Seq([off : Word, val : Int])] /\ log'[k] = <<>>
      /\ \A b \in Arena : b # k => log'[b] = log[b]
  <2>1. log \in [Arena -> Seq(Entry)]
    BY <1>0 DEF TypeOK, Entry
  <2>2. log' \in [Arena -> Seq(Entry)]
    BY <2>1, <1>1, <1>2
  <2>3. QED
    BY <2>1, <2>2, <1>1, <1>2 DEF Entry
<1>6. CopyInv'
  <2>1. Distinct(<<>>)
    BY DEF Distinct
  <2>2. \A b \in Arena : Distinct(log'[b])
    BY <2>1, <1>0, <1>5 DEF CopyInv
  <2>3. QED
    BY <2>2, <1>0, <1>1, <1>3 DEF CopyInv
<1>a. pm[k][Delta] \in Int /\ pm[k][MapAddr] \in Int /\ addr[k] \in Int
  <2>1. pm[k] \in Words /\ addr[k] \in MapAddrs \cup {0}
    BY <1>0, <1>2 DEF TypeOK, Words
  <2>2. addr[k] \in Int
    BY <2>1, AddrNat
  <2>3. QED
    BY <2>1, <2>2, Consts DEF Words
<1>b. pm[k][MapAddr] - pm[k][Delta] \in Int /\ addr[k] - (pm[k][MapAddr] - pm[k][Delta]) \in Int
  BY <1>a
<1>c. offsetTable \in [Arena -> Int] /\ rangeTable \in [Arena -> Int]
  BY <1>0 DEF TypeOK
<1>7. TypeOK'
  <2>1. offsetTable' \in [Arena -> Int] /\ rangeTable' \in [Arena -> Int]
    BY <1>1, <1>2, <1>b, <1>c
  <2>2. QED
    BY <1>0, <1>1, <1>2, <1>5, <2>1 DEF TypeOK, Arenas, PCs
<1>8. StateInv'
  BY <1>1, <1>2, <1>3 DEF IInv, StateInv, Setup, Clearing, Walking, Arenas
<1>9. LogInv'
  <2>1. \A b \in 1..(k - 1) : b \in Arena /\ b # k /\ Clean(b)
    BY <1>0, <1>1, <1>2, Range DEF IInv, LogInv, Arenas
  <2>2. \A b \in 1..k : Clean(b)'
    <3>1. \A b \in 1..k : b = k \/ b \in 1..(k - 1)
      BY <1>2
    <3>2. QED
      BY <3>1, <2>1, <1>5 DEF Clean
  <2>3. CASE k < n
    <3>1. 1..(k' - 1) = 1..k /\ pc' = "prepare"
      BY <1>2, <2>3
    <3>2. \A b \in 1..(k' - 1) : Clean(b)'
      BY <3>1, <2>2
    <3>3. QED
      BY <3>1, <3>2 DEF LogInv, Setup, Clearing
  <2>4. CASE k = n
    <3>1. (\A b \in 1..n' : Clean(b)') /\ pc' = "setSetup"
      BY <1>1, <1>2, <2>2, <2>4
    <3>2. QED
      BY <3>1 DEF LogInv, Setup, Clearing, Arenas
  <2>5. QED
    BY <2>3, <2>4, <1>2
<1>10. TableInv'
  <2>1. \A b \in 1..(k - 1) : b \in Arena /\ b # k /\ rangeTable[b] = Old(Rec)[b] /\ offsetTable[b] = addr[b] - Old(Rec)[b]
    BY <1>0, <1>1, <1>2, Range DEF IInv, TableInv, Arenas
  <2>2. \A b \in 1..(k - 1) : rangeTable'[b] = Old(Rec)[b] /\ offsetTable'[b] = addr[b] - Old(Rec)[b]
    BY <2>1, <1>1, <1>2, <1>c
  <2>3. rangeTable'[k] = Old(Rec)[k] /\ offsetTable'[k] = addr[k] - Old(Rec)[k]
    BY <1>1, <1>2, <1>4, <1>c DEF Old
  <2>4. \A b \in 1..k : rangeTable'[b] = Old(Rec')[b] /\ offsetTable'[b] = addr'[b] - Old(Rec')[b]
    <3>1. \A b \in 1..k : b = k \/ b \in 1..(k - 1)
      BY <1>2
    <3>2. QED
      BY <3>1, <2>2, <2>3, <1>1, <1>4
  <2>5. CASE k < n
    <3>1. 1..(k' - 1) = 1..k /\ pc' = "prepare"
      BY <1>2, <2>5
    <3>2. QED
      BY <3>1, <2>4 DEF TableInv, Setup, Walking
  <2>6. CASE k = n
    <3>1. pc' = "setSetup" /\ Arenas' = 1..k
      BY <1>1, <1>2, <2>6 DEF Arenas
    <3>2. QED
      BY <3>1, <2>4 DEF TableInv, Setup, Walking
  <2>7. QED
    BY <2>5, <2>6, <1>2
<1>11. ProgressInv'
  <2>1. \A b \in 1..k : Rec'[b][BytesSwizzled] = 0
    <3>1. \A b \in 1..k : b = k \/ b \in 1..(k - 1)
      BY <1>2
    <3>2. QED
      BY <3>1, <1>1, <1>4 DEF IInv, ProgressInv
  <2>2. CASE k < n
    <3>1. 1..(k' - 1) = 1..k /\ pc' = "prepare"
      BY <1>2, <2>2
    <3>2. QED
      BY <3>1, <2>1 DEF ProgressInv, Setup, Clearing
  <2>3. CASE k = n
    <3>1. pc' = "setSetup" /\ Arenas' = 1..k
      BY <1>1, <1>2, <2>3 DEF Arenas
    <3>2. QED
      BY <3>1, <2>1 DEF ProgressInv, Setup, Clearing
  <2>4. QED
    BY <2>2, <2>3, <1>2
<1>12. /\ BeyondInv' /\ WalkInv' /\ RootInv' /\ Forward
       /\ Sem(Rec, n, swizzleState, target)'
  <2>1. pc' # "running" /\ pc' \notin Walking
    BY <1>2 DEF Walking
  <2>2. QED
    BY <2>1, <1>1, <1>2, <1>4, <1>5, Frame
<1>13. QED
  BY <1>6, <1>7, <1>8, <1>9, <1>10, <1>11, <1>12 DEF IInv

\* When every log is empty, the swizzle state does not matter to what is recovered.
LEMMA AllClean ==
  ASSUME IInv, \A b \in Arenas : Clean(b), UNCHANGED <<nvm, log>>
  PROVE  Rec' = Rec /\ Rec = nvm /\ pm = nvm
<1>0. TypeOK /\ CopyInv
  BY DEF IInv
<1>1. \A a \in Arena : Clean(a)
  BY DEF IInv, BeyondInv
<1>2. \A a \in Arena : Rec[a] = nvm[a] /\ pm[a] = nvm[a]
  BY <1>0, <1>1, RecType
<1>3. \A a \in Arena : Rest(log[a], nvm[a]) = nvm[a]
  <2>1. \A a \in Arena : nvm[a] \in Words
    BY <1>0 DEF TypeOK, Words
  <2>2. QED
    BY <2>1, <1>1, EmptyLog DEF Clean
<1>4. Rec' = Rec
  BY <1>3 DEF Rec
<1>5. Rec = nvm /\ pm = nvm
  <2>1. nvm \in [Arena -> Words] /\ pm \in [Arena -> Words]
    BY <1>0 DEF TypeOK, Words
  <2>2. Rec \in [Arena -> Words]
    BY <1>0, RecType
  <2>3. QED
    BY <2>1, <2>2, <1>2
<1>6. QED
  BY <1>4, <1>5

\* The setup begins with empty logs.
LEMMA SetSetupStep ==
  ASSUME IInv, SetSetup
  PROVE  IInv' /\ Forward
<1>0. TypeOK /\ CopyInv /\ Sem(Rec, n, swizzleState, target)
  BY DEF IInv
<1>1. /\ pc = "setSetup" /\ swizzleState' = SwizzleSetup /\ pc' = "setupLogMap"
      /\ UNCHANGED <<pm, nvm, log, rootOffset, n, k, addr, offsetTable, rangeTable, sw,
                     root, target, rootTarget, stores, crashes>>
  BY DEF SetSetup, tables, app
<1>2. k = 1 /\ swizzleState = SwizzleDone /\ k \in Arenas
  BY <1>0, <1>1, Range DEF IInv, StateInv
<1>3. Rec' = Rec /\ Rec = nvm /\ pm = nvm /\ \A b \in Arenas : Clean(b)
  <2>1. \A b \in Arenas : Clean(b)
    BY <1>1 DEF IInv, LogInv
  <2>2. QED
    BY <2>1, <1>1, AllClean
<1>4. CopyInv'
  BY <1>0, <1>1, <1>3 DEF CopyInv
<1>5. Sem(Rec, n, swizzleState, target)'
  <2>1. Sem(Rec, n, SwizzleSetup, target)
    BY <1>0, <1>2, Consts DEF Sem, ApartSem, ProgressSem, PointerSem
  <2>2. QED
    BY <2>1, <1>1, <1>3
<1>6. TypeOK'
  BY <1>0, <1>1 DEF TypeOK, Arenas, PCs
<1>7. StateInv'
  BY <1>1 DEF IInv, StateInv, Setup, Clearing, Walking, Arenas
<1>8. LogInv'
  BY <1>1, <1>3 DEF LogInv, Setup, Clearing, Clean, Arenas
<1>9. TableInv'
  BY <1>1, <1>2, <1>3 DEF IInv, TableInv, Setup, Walking, Arenas
<1>10. ProgressInv'
  BY <1>1, <1>3 DEF IInv, ProgressInv, Setup, Clearing, Arenas
<1>11. BeyondInv' /\ WalkInv' /\ RootInv'
  BY <1>1 DEF IInv, BeyondInv, WalkInv, RootInv, Clean, Arenas, Walking
<1>12. Forward
  BY <1>1, Consts DEF Forward
<1>13. QED
  BY <1>4, <1>5, <1>6, <1>7, <1>8, <1>9, <1>10, <1>11, <1>12 DEF IInv

\* Setup logs mapAddr of the arena.
LEMMA SetupLogMapStep ==
  ASSUME IInv, SetupLogMap
  PROVE  IInv' /\ Forward
<1>0. TypeOK /\ CopyInv
  BY DEF IInv
<1>1. /\ pc = "setupLogMap" /\ pc' = "setupLogDelta"
      /\ LogEntry(k, MapAddr)
      /\ UNCHANGED <<pm, nvm, swizzleState, rootOffset, n, k, addr, offsetTable, rangeTable, sw,
                     root, target, rootTarget, stores, crashes>>
  BY DEF SetupLogMap, tables, app
<1>2. k \in Arena /\ k \in Arenas
  BY <1>0, Range
<1>3. (\A b \in Arenas : Clean(b)) /\ Rec[k] = nvm[k]
  BY <1>1 DEF IInv, LogInv, Setup
<1>4. In(log[k]) = {} /\ pm[k] = nvm[k]
  BY <1>0, <1>2, <1>3, EmptyLog, RecType DEF Clean, In
<1>5. /\ log' \in [Arena -> Seq([off : Word, val : Int])]
      /\ CopyInv'
      /\ Rec' = Rec
      /\ In(log'[k]) = {MapAddr}
      /\ \A b \in Arena : b # k => log'[b] = log[b]
  BY <1>0, <1>1, <1>2, <1>4, LogStep, Consts
<1>6. TypeOK'
  BY <1>0, <1>1, <1>5 DEF TypeOK, Arenas, PCs
<1>7. StateInv'
  BY <1>1 DEF IInv, StateInv, Setup, Clearing, Walking, Arenas
<1>8. LogInv'
  <2>1. \A b \in Arenas : b \in Arena
    BY <1>0, Range
  <2>2. \A b \in Arenas \ {k} : Clean(b)'
    BY <2>1, <1>3, <1>5 DEF Clean
  <2>3. \A b \in (Arenas \ {k})' : Clean(b)'
    BY <2>2, <1>1 DEF Arenas
  <2>4. QED
    BY <1>1, <1>3, <1>4, <1>5, <2>3 DEF LogInv, Setup, Clearing
<1>9. TableInv'
  BY <1>1, <1>5 DEF IInv, TableInv, Setup, Walking, Arenas
<1>10. ProgressInv'
  BY <1>1, <1>5 DEF IInv, ProgressInv, Setup, Clearing, Arenas
<1>11. /\ BeyondInv' /\ WalkInv' /\ RootInv' /\ Forward
       /\ Sem(Rec, n, swizzleState, target)'
  BY <1>1, <1>2, <1>5, Frame DEF Walking
<1>12. QED
  BY <1>5, <1>6, <1>7, <1>8, <1>9, <1>10, <1>11 DEF IInv

\* Setup logs delta as well.
LEMMA SetupLogDeltaStep ==
  ASSUME IInv, SetupLogDelta
  PROVE  IInv' /\ Forward
<1>0. TypeOK /\ CopyInv
  BY DEF IInv
<1>1. /\ pc = "setupLogDelta" /\ pc' = "setupStore"
      /\ LogEntry(k, Delta)
      /\ UNCHANGED <<pm, nvm, swizzleState, rootOffset, n, k, addr, offsetTable, rangeTable, sw,
                     root, target, rootTarget, stores, crashes>>
  BY DEF SetupLogDelta, tables, app
<1>2. k \in Arena /\ k \in Arenas
  BY <1>0, Range
<1>3. /\ \A b \in Arenas \ {k} : Clean(b)
      /\ Rec[k] = nvm[k] /\ pm[k] = nvm[k] /\ In(log[k]) = {MapAddr}
  BY <1>1 DEF IInv, LogInv, Setup
<1>4. Delta \notin In(log[k]) /\ Delta \in Word
  BY <1>3, Consts
<1>5. /\ log' \in [Arena -> Seq([off : Word, val : Int])]
      /\ CopyInv'
      /\ Rec' = Rec
      /\ In(log'[k]) = {MapAddr, Delta}
      /\ \A b \in Arena : b # k => log'[b] = log[b]
  <2>1. /\ log' \in [Arena -> Seq([off : Word, val : Int])]
        /\ CopyInv'
        /\ Rec' = Rec
        /\ In(log'[k]) = In(log[k]) \cup {Delta}
        /\ \A b \in Arena : b # k => log'[b] = log[b]
    BY <1>0, <1>1, <1>2, <1>4, LogStep
  <2>2. QED
    BY <2>1, <1>3
<1>6. TypeOK'
  BY <1>0, <1>1, <1>5 DEF TypeOK, Arenas, PCs
<1>7. StateInv'
  BY <1>1 DEF IInv, StateInv, Setup, Clearing, Walking, Arenas
<1>8. LogInv'
  <2>1. \A b \in Arenas : b \in Arena
    BY <1>0, Range
  <2>2. \A b \in Arenas \ {k} : Clean(b)'
    BY <2>1, <1>3, <1>5 DEF Clean
  <2>3. \A b \in (Arenas \ {k})' : Clean(b)'
    BY <2>2, <1>1 DEF Arenas
  <2>4. QED
    BY <1>1, <1>3, <1>5, <2>3 DEF LogInv, Setup, Clearing
<1>9. TableInv'
  BY <1>1, <1>5 DEF IInv, TableInv, Setup, Walking, Arenas
<1>10. ProgressInv'
  BY <1>1, <1>5 DEF IInv, ProgressInv, Setup, Clearing, Arenas
<1>11. /\ BeyondInv' /\ WalkInv' /\ RootInv' /\ Forward
       /\ Sem(Rec, n, swizzleState, target)'
  BY <1>1, <1>2, <1>5, Frame DEF Walking
<1>12. QED
  BY <1>5, <1>6, <1>7, <1>8, <1>9, <1>10, <1>11 DEF IInv

\* Setup stores mapAddr and delta, both of which are logged.
LEMMA SetupStoreStep ==
  ASSUME IInv, SetupStore
  PROVE  IInv' /\ Forward
<1>0. TypeOK /\ CopyInv
  BY DEF IInv
<1>1. /\ pc = "setupStore" /\ pc' = "setupCommit"
      /\ pm' = [pm EXCEPT ![k][MapAddr] = addr[k], ![k][Delta] = offsetTable[k]]
      /\ UNCHANGED <<nvm, log, swizzleState, rootOffset, n, k, addr, offsetTable, rangeTable, sw,
                     root, target, rootTarget, stores, crashes>>
  BY DEF SetupStore, tables, app
<1>2. k \in Arena /\ k \in Arenas
  BY <1>0, Range
<1>3. /\ \A b \in Arenas \ {k} : Clean(b)
      /\ Rec[k] = nvm[k] /\ pm[k] = nvm[k] /\ In(log[k]) = {MapAddr, Delta}
      /\ swizzleState = SwizzleSetup
  BY <1>1 DEF IInv, LogInv, Setup, StateInv
<1> DEFINE mem == [nvm[k] EXCEPT ![MapAddr] = addr[k], ![Delta] = offsetTable[k]]
<1>4. mem \in Words /\ pm' = [pm EXCEPT ![k] = mem]
  <2>1. nvm[k] \in Words /\ pm \in [Arena -> Words]
    BY <1>0, <1>2 DEF TypeOK, Words
  <2>2. addr[k] \in Int /\ offsetTable[k] \in Int
    <3>1. addr[k] \in MapAddrs \cup {0}
      BY <1>0, <1>2 DEF TypeOK
    <3>2. addr[k] \in Int
      BY <3>1, AddrNat
    <3>3. QED
      BY <3>2, <1>0, <1>2 DEF TypeOK
  <2>3. mem \in Words
    BY <2>1, <2>2 DEF Words
  <2>4. pm' = [pm EXCEPT ![k] = mem]
    BY <2>1, <1>1, <1>2, <1>3
  <2>5. QED
    BY <2>3, <2>4
<1>5. \A w \in Word : w \notin In(log[k]) => mem[w] = nvm[k][w]
  <2>1. nvm[k] \in Words
    BY <1>0, <1>2 DEF TypeOK, Words
  <2>2. QED
    BY <1>3, <2>1 DEF Words
<1> HIDE DEF mem
<1>6. /\ pm' \in [Arena -> [Word -> Int]]
      /\ CopyInv'
      /\ Rec' = Rec
      /\ pm'[k] = mem
      /\ \A b \in Arena : b # k => pm'[b] = pm[b]
  <2>1. swizzleState # SwizzleDone
    BY <1>3, Consts
  <2>2. QED
    BY <1>0, <1>1, <1>2, <1>4, <1>5, <2>1, StoreCached, ZenonT(40)
<1>7. TypeOK'
  BY <1>0, <1>1, <1>6 DEF TypeOK, Arenas, PCs
<1>8. StateInv'
  BY <1>1 DEF IInv, StateInv, Setup, Clearing, Walking, Arenas
<1>9. LogInv'
  <2>1. \A b \in (Arenas \ {k})' : Clean(b)'
    BY <1>1, <1>3 DEF Arenas, Clean
  <2>2. pm'[k'] = [nvm'[k'] EXCEPT ![MapAddr] = addr'[k'], ![Delta] = offsetTable'[k']]
    BY <1>1, <1>6 DEF mem
  <2>3. QED
    BY <1>1, <1>3, <1>6, <2>1, <2>2 DEF LogInv, Setup, Clearing
<1>10. TableInv'
  BY <1>1, <1>6 DEF IInv, TableInv, Setup, Walking, Arenas
<1>11. ProgressInv'
  BY <1>1, <1>6 DEF IInv, ProgressInv, Setup, Clearing, Arenas
<1>12. /\ BeyondInv' /\ WalkInv' /\ RootInv' /\ Forward
       /\ Sem(Rec, n, swizzleState, target)'
  BY <1>1, <1>2, <1>6, Frame DEF Walking
<1>13. QED
  BY <1>6, <1>7, <1>8, <1>9, <1>10, <1>11, <1>12 DEF IInv

\* The header of arena k is committed: its new address is recorded, and with the
\* new delta its old one is still known.
LEMMA SetupCommitStep ==
  ASSUME IInv, SetupCommit
  PROVE  IInv' /\ Forward
<1>0. TypeOK /\ CopyInv /\ Rec \in [Arena -> Words] /\ Sem(Rec, n, swizzleState, target)
  BY RecType DEF IInv
<1>1. /\ pc = "setupCommit"
      /\ CommitLog(k)
      /\ Loop("setupLogMap", "setOngoing")
      /\ UNCHANGED <<pm, swizzleState, rootOffset, n, addr, offsetTable, rangeTable, sw,
                     root, target, rootTarget, stores, crashes>>
  BY DEF SetupCommit, tables, app
<1>2. /\ \/ k < n /\ k' = k + 1 /\ pc' = "setupLogMap"
         \/ k = n /\ k' = 1 /\ pc' = "setOngoing"
      /\ k \in Arena /\ k \in Arenas /\ k \in 1..n /\ n \in Nat /\ k' \in 1..n /\ n \in Arena
      /\ \A b \in Arenas : b \in Arena
  BY <1>0, <1>1, Range DEF Loop
<1>3. /\ \A b \in Arenas \ {k} : Clean(b)
      /\ Rec[k] = nvm[k]
      /\ pm[k] = [nvm[k] EXCEPT ![MapAddr] = addr[k], ![Delta] = offsetTable[k]]
      /\ swizzleState = SwizzleSetup
  BY <1>1 DEF IInv, LogInv, Setup, StateInv
<1>4. /\ log' \in [Arena -> Seq([off : Word, val : Int])]
      /\ nvm' \in [Arena -> [Word -> Int]]
      /\ CopyInv'
      /\ Rec' = [Rec EXCEPT ![k] = pm[k]]
      /\ nvm' = [nvm EXCEPT ![k] = pm[k]]
      /\ log'[k] = <<>>
      /\ \A b \in Arena : b # k => log'[b] = log[b]
  <2>1. swizzleState # SwizzleDone
    BY <1>3, Consts
  <2>2. QED
    BY <2>1, <1>0, <1>1, <1>2, CommitStep
<1>5. /\ Rec'[k] = pm[k] /\ nvm'[k] = pm[k]
      /\ \A b \in Arena : b # k => Rec'[b] = Rec[b] /\ nvm'[b] = nvm[b]
  BY <1>0, <1>2, <1>4 DEF TypeOK
<1>6. /\ pm[k][MapAddr] = addr[k] /\ pm[k][Delta] = offsetTable[k]
      /\ \A w \in Word : w # MapAddr /\ w # Delta => pm[k][w] = Rec[k][w]
  <2>1. nvm[k] \in Words
    BY <1>0, <1>2 DEF TypeOK, Words
  <2>2. QED
    BY <2>1, <1>3, Consts DEF Words
<1>7. rangeTable[k] = Old(Rec)[k] /\ offsetTable[k] = addr[k] - Old(Rec)[k] /\ addr[k] \in MapAddrs
      /\ Old(Rec)[k] \in Nat
  <2>1. rangeTable[k] = Old(Rec)[k] /\ offsetTable[k] = addr[k] - Old(Rec)[k]
    BY <1>1, <1>2 DEF IInv, TableInv, Setup
  <2>2. addr[k] \in MapAddrs
    BY <1>1, <1>2 DEF IInv, StateInv
  <2>3. Old(Rec)[k] \in Nat
    BY <1>0, <1>2, BaseType DEF Sem
  <2>4. QED
    BY <2>1, <2>2, <2>3
<1>8. Old(Rec') = Old(Rec) /\ New(Rec')[k] = addr[k] /\ \A b \in Arena : b # k => New(Rec')[b] = New(Rec)[b]
  <2>1. addr[k] \in Nat
    BY <1>7, AddrNat
  <2>2. Rec'[k][MapAddr] - Rec'[k][Delta] = Old(Rec)[k]
    BY <2>1, <1>5, <1>6, <1>7
  <2>3. \A b \in Arena : Rec'[b][MapAddr] - Rec'[b][Delta] = Old(Rec)[b]
    BY <2>2, <1>5 DEF Old
  <2>4. Old(Rec') = Old(Rec)
    BY <2>3 DEF Old
  <2>5. QED
    BY <2>4, <1>2, <1>5, <1>6 DEF New
<1>9. \A b \in Arena : \A w \in Word : w # MapAddr /\ w # Delta => Rec'[b][w] = Rec[b][w]
  BY <1>5, <1>6
<1>10. Sem(Rec, n, swizzleState, target)'
  <2>1. BaseSem(Rec', n)
    BY <1>0, <1>2, <1>7, <1>8 DEF Sem, BaseSem, Arenas
  <2>2. ApartSem(Rec', n, SwizzleSetup) /\ ProgressSem(Rec', n, SwizzleSetup)
    BY <1>0, <1>3, <1>8, Consts DEF Sem, ApartSem, ProgressSem
  <2>3. \A a \in 1..n : \A w \in PtrWords(a) : Rec'[a][Mdata + w] = Rec[a][Mdata + w]
    BY <1>2, <1>9, PtrWord, HeapWords DEF Arenas
  <2>4. PointerSem(Rec', n, SwizzleSetup, target)
    BY <2>3, <1>0, <1>3, <1>8, Consts DEF Sem, PointerSem
  <2>5. Sem(Rec', n, SwizzleSetup, target)
    BY <2>1, <2>2, <2>4 DEF Sem
  <2>6. QED
    BY <2>5, <1>1, <1>3
<1>11. TypeOK'
  BY <1>0, <1>1, <1>2, <1>4 DEF TypeOK, Arenas, PCs
<1>12. StateInv'
  BY <1>1, <1>2, <1>3 DEF IInv, StateInv, Setup, Clearing, Walking, Arenas
<1>13. \A b \in Arenas : Clean(b)' /\ Rec'[b] = nvm'[b]
  <2>1. \A b \in Arenas : Clean(b)'
    BY <1>2, <1>3, <1>4 DEF Clean
  <2>2. \A b \in Arenas \ {k} : Rec[b] = nvm[b]
    BY <1>0, <1>2, <1>3, RecType
  <2>3. QED
    BY <2>1, <2>2, <1>2, <1>5
<1>14. LogInv'
  <2>1. (\A b \in Arenas' : Clean(b)') /\ Rec'[k'] = nvm'[k']
    BY <1>1, <1>2, <1>13 DEF Arenas
  <2>2. pc' \in {"setupLogMap", "setOngoing"}
    BY <1>2
  <2>3. QED
    BY <2>1, <2>2 DEF LogInv, Setup, Clearing
<1>15. TableInv'
  <2>1. \A b \in Arenas : rangeTable[b] = Old(Rec)[b] /\ offsetTable[b] = addr[b] - Old(Rec)[b]
    BY <1>1 DEF IInv, TableInv, Setup
  <2>2. \A b \in Arenas' : rangeTable'[b] = Old(Rec')[b] /\ offsetTable'[b] = addr'[b] - Old(Rec')[b]
    BY <2>1, <1>1, <1>8 DEF Arenas
  <2>3. \A b \in 1..k : New(Rec')[b] = addr'[b]
    <3>1. \A b \in 1..(k - 1) : b \in Arena /\ b # k /\ New(Rec)[b] = addr[b]
      BY <1>1, <1>2 DEF IInv, TableInv, Setup, Arenas
    <3>2. \A b \in 1..k : b = k \/ b \in 1..(k - 1)
      BY <1>2
    <3>3. QED
      BY <3>1, <3>2, <1>1, <1>8
  <2>4. CASE k < n
    <3>1. pc' = "setupLogMap" /\ 1..(k' - 1) = 1..k
      BY <2>4, <1>2
    <3>2. QED
      BY <3>1, <2>2, <2>3 DEF TableInv, Setup, Walking
  <2>5. CASE k = n
    <3>1. pc' = "setOngoing" /\ Arenas' = 1..k
      BY <2>5, <1>1, <1>2 DEF Arenas
    <3>2. QED
      BY <3>1, <2>2, <2>3 DEF TableInv, Setup, Walking
  <2>6. QED
    BY <2>4, <2>5, <1>2
<1>16. ProgressInv'
  <2>1. \A b \in Arenas : Rec'[b][BytesSwizzled] = 0
    BY <1>1, <1>2, <1>9, Consts DEF IInv, ProgressInv, Setup
  <2>2. pc' \in {"setupLogMap", "setOngoing"} /\ Arenas' = Arenas
    BY <1>1, <1>2 DEF Arenas
  <2>3. QED
    BY <2>1, <2>2 DEF ProgressInv, Setup, Clearing
<1>17. BeyondInv'
  BY <1>1, <1>2, <1>4 DEF IInv, BeyondInv, Clean, Arenas
<1>18. WalkInv' /\ RootInv'
  BY <1>1, <1>2 DEF IInv, WalkInv, RootInv, Arenas, Walking
<1>19. Forward
  BY <1>3, Consts DEF Forward
<1>20. QED
  BY <1>4, <1>10, <1>11, <1>12, <1>14, <1>15, <1>16, <1>17, <1>18, <1>19 DEF IInv

\* From now on pointers are rewritten: none of them has been so far.
LEMMA SetOngoingStep ==
  ASSUME IInv, SetOngoing
  PROVE  IInv' /\ Forward
<1>0. TypeOK /\ CopyInv /\ Sem(Rec, n, swizzleState, target) /\ Rec \in [Arena -> Words]
  BY RecType DEF IInv
<1>1. /\ pc = "setOngoing" /\ swizzleState' = SwizzleOngoing /\ pc' \in {"callback", "start"}
      /\ UNCHANGED <<pm, nvm, log, rootOffset, n, k, addr, offsetTable, rangeTable, sw,
                     root, target, rootTarget, stores, crashes>>
  BY DEF SetOngoing, tables, app
<1>2. k = 1 /\ swizzleState = SwizzleSetup /\ k \in Arenas /\ n \in Arena /\ \A b \in Arenas : b \in Arena
  BY <1>0, <1>1, Range DEF IInv, StateInv
<1>3. Rec' = Rec /\ pm = nvm /\ \A b \in Arenas : Clean(b)
  <2>1. \A b \in Arenas : Clean(b)
    BY <1>1 DEF IInv, LogInv
  <2>2. QED
    BY <2>1, <1>1, AllClean
<1>4. CopyInv'
  BY <1>0, <1>1, <1>3 DEF CopyInv
<1>5. \A b \in Arenas : Rec[b][BytesSwizzled] = 0 /\ New(Rec)[b] = addr[b]
  BY <1>1 DEF IInv, ProgressInv, TableInv
<1>6. Sem(Rec, n, swizzleState, target)'
  <2>1. BaseSem(Rec, n)
    BY <1>0 DEF Sem
  <2>2. ApartSem(Rec, n, SwizzleOngoing)
    <3>1. Disjoint(addr, Arenas)
      BY <1>1 DEF IInv, StateInv
    <3>2. Disjoint(New(Rec), 1..n)
      BY <3>1, <1>5 DEF Disjoint, Arenas
    <3>3. Disjoint(Old(Rec), 1..n)
      BY <1>0, <1>2, Consts DEF Sem, ApartSem
    <3>4. QED
      BY <3>2, <3>3 DEF ApartSem
  <2>3. ProgressSem(Rec, n, SwizzleOngoing)
    BY <1>5 DEF ProgressSem, ResumePoints, Arenas
  <2>4. PointerSem(Rec, n, SwizzleOngoing, target)
    <3>1. ASSUME NEW a \in 1..n, NEW w \in PtrWords(a)
          PROVE  ~(w < Rec[a][BytesSwizzled])
      BY <1>2, <1>5, PtrWord, HeapWords DEF Arenas
    <3>2. QED
      BY <3>1, <1>0, <1>2, Consts DEF Sem, PointerSem
  <2>5. Sem(Rec, n, SwizzleOngoing, target)
    BY <2>1, <2>2, <2>3, <2>4 DEF Sem
  <2>6. QED
    BY <2>5, <1>1, <1>3
<1>7. TypeOK'
  BY <1>0, <1>1 DEF TypeOK, Arenas, PCs
<1>8. StateInv'
  BY <1>1 DEF IInv, StateInv, Setup, Clearing, Walking, Arenas
<1>9. LogInv'
  BY <1>1, <1>3 DEF LogInv, Setup, Clearing, Clean, Arenas
<1>10. TableInv'
  <2>1. \A b \in Arenas : rangeTable[b] = Old(Rec)[b] /\ offsetTable[b] = addr[b] - Old(Rec)[b]
    BY <1>1 DEF IInv, TableInv
  <2>2. \A b \in Arenas : Rec[b][Delta] = New(Rec)[b] - Old(Rec)[b]
    BY <1>0, <1>2, BaseType DEF Sem, Arenas
  <2>3. \A b \in Arenas : rangeTable[b] = Old(Rec)[b] /\ offsetTable[b] = Rec[b][Delta]
    BY <2>1, <2>2, <1>5
  <2>4. QED
    BY <2>3, <1>1, <1>3, <1>5 DEF TableInv, Setup, Walking, Arenas
<1>11. ProgressInv'
  BY <1>1, <1>3, <1>5 DEF ProgressInv, Setup, Clearing, Arenas
<1>12. BeyondInv' /\ WalkInv' /\ RootInv'
  BY <1>1 DEF IInv, BeyondInv, WalkInv, RootInv, Clean, Arenas, Walking
<1>13. Forward
  BY <1>2, Consts DEF Forward
<1>14. QED
  BY <1>4, <1>6, <1>7, <1>8, <1>9, <1>10, <1>11, <1>12, <1>13 DEF IInv

\* AppCallBack changes nothing here.
LEMMA CallBackStep ==
  ASSUME IInv, CallBack
  PROVE  IInv' /\ Forward
<1>0. TypeOK /\ CopyInv
  BY DEF IInv
<1>1. /\ pc = "callback" /\ pc' = "start"
      /\ UNCHANGED <<pm, nvm, log, swizzleState, rootOffset, n, k, addr, offsetTable, rangeTable, sw,
                     root, target, rootTarget, stores, crashes>>
  BY DEF CallBack, persistent, tables, app
<1>2. Rec' = Rec
  BY <1>1 DEF Rec
<1>3. TypeOK' /\ CopyInv'
  BY <1>0, <1>1 DEF TypeOK, CopyInv, Arenas, PCs
<1>4. StateInv'
  BY <1>1 DEF IInv, StateInv, Setup, Clearing, Walking, Arenas
<1>5. LogInv'
  BY <1>1 DEF IInv, LogInv, Setup, Clearing, Clean, Arenas
<1>6. TableInv'
  BY <1>1, <1>2 DEF IInv, TableInv, Setup, Walking, Arenas
<1>7. ProgressInv'
  BY <1>1, <1>2 DEF IInv, ProgressInv, Setup, Clearing, Arenas
<1>8. /\ BeyondInv' /\ WalkInv' /\ RootInv' /\ Forward
      /\ Sem(Rec, n, swizzleState, target)'
  BY <1>1, <1>2, Frame DEF Walking
<1>9. QED
  BY <1>3, <1>4, <1>5, <1>6, <1>7, <1>8 DEF IInv

\* A new run maps the arenas where it can.
LEMMA MapArenasStep ==
  ASSUME IInv, MapArenas
  PROVE  IInv' /\ Forward
<1>0. TypeOK /\ CopyInv
  BY DEF IInv
<1>1. /\ pc = "down"
      /\ UNCHANGED <<pm, nvm, log, swizzleState, rootOffset, n, k, offsetTable, rangeTable, sw,
                     root, target, rootTarget, stores, crashes>>
  BY DEF MapArenas, persistent, tables, app
<1>2. /\ swizzleState = SwizzleSetup => pc' = "revertSetup"
      /\ swizzleState = SwizzleOngoing => pc' = "revertOngoing"
      /\ swizzleState = SwizzleDone => pc' = "prepare"
  BY Consts DEF MapArenas
<1>3. \/ swizzleState = SwizzleSetup /\ pc' = "revertSetup"
      \/ swizzleState = SwizzleOngoing /\ pc' = "revertOngoing"
      \/ swizzleState = SwizzleDone /\ pc' = "prepare"
  BY <1>0, <1>2 DEF TypeOK
<1>4. PICK m \in [Arenas -> MapAddrs] :
        /\ Disjoint(m, Arenas)
        /\ addr' = [a \in Arena |-> IF a \in Arenas THEN m[a] ELSE 0]
  BY DEF MapArenas
<1>5. k = 1 /\ \A b \in Arenas : b \in Arena
  BY <1>0, <1>1, Range DEF IInv, StateInv
<1>6. /\ addr' \in [Arena -> MapAddrs \cup {0}]
      /\ \A b \in Arenas : addr'[b] = m[b] /\ addr'[b] \in MapAddrs
  BY <1>4, <1>5
<1>7. Rec' = Rec
  BY <1>1 DEF Rec
<1>8. TypeOK'
  BY <1>0, <1>1, <1>3, <1>6 DEF TypeOK, Arenas, PCs
<1>9. CopyInv'
  BY <1>0, <1>1 DEF CopyInv
<1>10. Disjoint(addr', Arenas)
  BY <1>4, <1>6 DEF Disjoint
<1>11. StateInv'
  <2>1. Disjoint(addr', Arenas') /\ \A a \in Arenas' : addr'[a] \in MapAddrs
    BY <1>1, <1>6, <1>10 DEF Arenas
  <2>2. sw' = [a \in Arena |-> Idle0]
    BY <1>1 DEF IInv, StateInv, Walking
  <2>3. QED
    BY <1>1, <1>3, <1>5, <2>1, <2>2, Consts DEF StateInv, Setup, Clearing, Walking
<1>12. LogInv'
  BY <1>1, <1>3, <1>5 DEF LogInv, Setup, Clearing
<1>13. TableInv'
  BY <1>1, <1>3, <1>5 DEF TableInv, Setup, Walking
<1>14. ProgressInv'
  BY <1>1, <1>3, <1>5 DEF ProgressInv, Setup, Clearing
<1>15. /\ BeyondInv' /\ WalkInv' /\ RootInv' /\ Forward
       /\ Sem(Rec, n, swizzleState, target)'
  <2>1. pc' # "running" /\ pc' \notin Walking
    BY <1>3 DEF Walking
  <2>2. QED
    BY <2>1, <1>1, <1>7, Frame
<1>16. QED
  BY <1>8, <1>9, <1>11, <1>12, <1>13, <1>14, <1>15 DEF IInv

\* The goroutines start where the recorded progress says.
LEMMA SpawnStep ==
  ASSUME IInv, Complete \/ Start
  PROVE  IInv' /\ Forward
<1>0. TypeOK /\ CopyInv /\ Sem(Rec, n, swizzleState, target) /\ Rec \in [Arena -> Words]
  BY RecType DEF IInv
<1>1. /\ \/ pc = "complete" /\ pc' = "completing"
         \/ pc = "start" /\ pc' = "swizzling"
      /\ Spawn
      /\ UNCHANGED <<pm, nvm, log, swizzleState, rootOffset, n, k, addr, offsetTable, rangeTable,
                     root, target, rootTarget, stores, crashes>>
  BY DEF Complete, Start, persistent, tables, app
<1>2. Rec' = Rec /\ Rec = nvm /\ pm = nvm /\ \A b \in Arenas : Clean(b)
  <2>1. \A b \in Arenas : Clean(b)
    BY <1>1 DEF IInv, LogInv
  <2>2. QED
    BY <2>1, <1>1, AllClean
<1>3. swizzleState = SwizzleOngoing /\ k = 1
  BY <1>1 DEF IInv, StateInv
<1>4. \A a \in Arenas : a \in Arena
  BY <1>0, Range
<1>5. ASSUME NEW a \in Arenas
      PROVE  /\ sw'[a] \in SwizzlerState
             /\ sw'[a].pc = "walk" /\ sw'[a].start = Rec[a][BytesSwizzled]
             /\ sw'[a].next = Rec[a][BytesSwizzled]
             /\ Rec[a][BytesSwizzled] \in ResumePoints(a) /\ Rec[a][BytesSwizzled] \in 0..AllocSize
  <2>1. Rec[a][BytesSwizzled] \in ResumePoints(a)
    BY <1>0, <1>3 DEF Sem, ProgressSem, Arenas
  <2>2. Rec[a][BytesSwizzled] \in 0..AllocSize
    BY <2>1, <1>4, Resume
  <2>3. sw'[a] = [Idle0 EXCEPT !.pc = "walk", !.start = pm[a][BytesSwizzled], !.next = pm[a][BytesSwizzled]]
    BY <1>1, <1>4 DEF Spawn
  <2>4. sw'[a] = [pc |-> "walk", start |-> Rec[a][BytesSwizzled], next |-> Rec[a][BytesSwizzled], w |-> 0]
    BY <2>3, <1>2 DEF Idle0
  <2>5. 0 \in 0..AllocSize
    BY Consts
  <2>6. QED
    BY <2>1, <2>2, <2>4, <2>5 DEF SwizzlerState
<1>6. \A a \in Arena \ Arenas : sw'[a] = sw[a]
  BY <1>1 DEF Spawn
<1>7. TypeOK'
  <2>1. sw' = [a \in Arena |-> sw'[a]]
    BY <1>1 DEF Spawn
  <2>2. \A a \in Arena : sw'[a] \in SwizzlerState
    BY <1>0, <1>5, <1>6 DEF TypeOK
  <2>3. sw' \in [Arena -> SwizzlerState]
    BY <2>1, <2>2
  <2>4. QED
    BY <1>0, <1>1, <2>3 DEF TypeOK, Arenas, PCs
<1>8. CopyInv'
  BY <1>0, <1>1 DEF CopyInv
<1>9. BeyondInv'
  BY <1>1, <1>6 DEF IInv, BeyondInv, Clean, Arenas
<1>10. Sem(Rec, n, swizzleState, target)'
  BY <1>0, <1>1, <1>2
<1>11. StateInv'
  BY <1>1, <1>3 DEF IInv, StateInv, Setup, Clearing, Walking, Arenas
<1>12. LogInv'
  BY <1>1 DEF LogInv, Setup, Clearing
<1>13. TableInv'
  BY <1>1, <1>2 DEF IInv, TableInv, Setup, Walking, Arenas
<1>14. ProgressInv'
  <2>1. CASE pc = "complete"
    BY <1>1, <2>1 DEF ProgressInv, Setup, Clearing
  <2>2. CASE pc = "start"
    <3>1. ASSUME NEW a \in Arenas, NEW w \in PtrWords(a)
          PROVE  ~(w < Rec[a][BytesSwizzled])
      <4>1. Rec[a][BytesSwizzled] = 0
        BY <2>2 DEF IInv, ProgressInv
      <4>2. QED
        BY <4>1, <1>4, PtrWord, HeapWords
    <3>2. QED
      BY <1>1, <1>2, <2>2, <3>1 DEF ProgressInv, Setup, Clearing, Arenas
  <2>3. QED
    BY <1>1, <2>1, <2>2
<1>15. WalkInv'
  <2>1. ASSUME NEW a \in Arenas
        PROVE  SwInv(a)'
    <3>1. sw'[a].start \in ResumePoints(a) /\ sw'[a].start <= sw'[a].next
      BY <1>5
    <3>2. QED
      BY <1>1, <1>2, <1>5, <3>1 DEF SwInv, Clean
  <2>2. QED
    BY <2>1, <1>1 DEF WalkInv, Arenas
<1>16. RootInv'
  BY <1>1 DEF IInv, RootInv, Arenas
<1>17. Forward
  BY <1>0, <1>2, ForwardSame
<1>18. QED
  BY <1>7, <1>8, <1>9, <1>10, <1>11, <1>12, <1>13, <1>14, <1>15, <1>16, <1>17 DEF IInv

\* All goroutines have reported.
LEMMA JoinStep ==
  ASSUME IInv, Completed \/ Swizzled
  PROVE  IInv' /\ Forward
<1>0. TypeOK /\ CopyInv
  BY DEF IInv
<1>1. /\ \/ pc = "completing" /\ pc' = "completeLog"
         \/ pc = "swizzling" /\ pc' = "clearLog"
      /\ AllDone
      /\ sw' = [a \in Arena |-> Idle0]
      /\ UNCHANGED <<pm, nvm, log, swizzleState, rootOffset, n, k, addr, offsetTable, rangeTable,
                     root, target, rootTarget, stores, crashes>>
  BY DEF Completed, Swizzled, persistent, tables, app
<1>2. \A a \in Arenas : Clean(a) /\ Rec[a][BytesSwizzled] = AllocSize
  <2>1. \A a \in Arenas : SwInv(a) /\ sw[a].pc = "done"
    BY <1>1 DEF IInv, WalkInv, Walking, AllDone
  <2>2. QED
    BY <2>1 DEF SwInv
<1>3. Rec' = Rec
  BY <1>1 DEF Rec
<1>4. swizzleState = SwizzleOngoing /\ k = 1 /\ k \in Arenas /\ n \in Nat
  BY <1>0, <1>1, Range DEF IInv, StateInv, Walking
<1>5. TypeOK'
  <2>1. Idle0 \in SwizzlerState
    BY Consts DEF Idle0, SwizzlerState
  <2>2. QED
    BY <2>1, <1>0, <1>1 DEF TypeOK, Arenas, PCs
<1>6. CopyInv'
  BY <1>0, <1>1 DEF CopyInv
<1>7. StateInv'
  BY <1>1, <1>4 DEF IInv, StateInv, Setup, Clearing, Walking, Arenas
<1>8. LogInv'
  <2>1. \A b \in (k + 1)..n : b \in Arenas
    BY <1>4 DEF Arenas
  <2>2. QED
    BY <2>1, <1>1, <1>2, <1>4 DEF LogInv, Setup, Clearing, Clean
<1>9. TableInv'
  BY <1>1, <1>3 DEF IInv, TableInv, Setup, Walking, Arenas
<1>10. ProgressInv'
  BY <1>1, <1>2, <1>3 DEF IInv, ProgressInv, Setup, Clearing, Arenas
<1>11. /\ BeyondInv' /\ WalkInv' /\ RootInv' /\ Forward
       /\ Sem(Rec, n, swizzleState, target)'
  <2>1. pc' # "running" /\ pc' \notin Walking
    BY <1>1 DEF Walking
  <2>2. \A a \in Arena \ Arenas : sw'[a] = sw[a]
    BY <1>1 DEF IInv, BeyondInv
  <2>3. QED
    BY <2>1, <2>2, <1>1, <1>3, Frame
<1>12. QED
  BY <1>5, <1>6, <1>7, <1>8, <1>9, <1>10, <1>11 DEF IInv

\* The log of a delta that has been cleared is emptied: by now all pointers are
\* relative to the new addresses, so the old one of arena k is not needed any more.
LEMMA FinalResetStep ==
  ASSUME IInv, FinalReset
  PROVE  IInv' /\ Forward
<1>0. TypeOK /\ CopyInv /\ Sem(Rec, n, swizzleState, target) /\ Rec \in [Arena -> Words]
  BY RecType DEF IInv
<1>1. /\ pc = "finalReset"
      /\ log' = [log EXCEPT ![k] = <<>>]
      /\ Loop("finalReset", "setRoot")
      /\ UNCHANGED <<pm, nvm, swizzleState, rootOffset, n, addr, offsetTable, rangeTable, sw,
                     root, target, rootTarget, stores, crashes>>
  BY DEF FinalReset, ResetLog, tables, app
<1>2. /\ \/ k < n /\ k' = k + 1 /\ pc' = "finalReset"
         \/ k = n /\ k' = 1 /\ pc' = "setRoot"
      /\ k \in Arena /\ k \in Arenas /\ k \in 1..n /\ n \in Nat /\ k' \in 1..n /\ n \in Arena
      /\ \A b \in Arenas : b \in Arena
  BY <1>0, <1>1, Range DEF Loop
<1>3. /\ swizzleState = SwizzleOngoing
      /\ \A b \in k..n : Cleared(b)
      /\ \A b \in 1..(k - 1) : Clean(b) /\ nvm[b][Delta] = 0
      /\ \A b \in Arenas : Rec[b][BytesSwizzled] = AllocSize /\ New(Rec)[b] = addr[b]
  BY <1>1 DEF IInv, StateInv, LogInv, ProgressInv, TableInv
<1>4. In(log[k]) = {Delta} /\ nvm[k][Delta] = 0 /\ pm[k][Delta] = 0
  BY <1>2, <1>3 DEF Cleared
<1>5. /\ log' \in [Arena -> Seq([off : Word, val : Int])] /\ log'[k] = <<>>
      /\ \A b \in Arena : b # k => log'[b] = log[b]
  <2>1. log \in [Arena -> Seq(Entry)]
    BY <1>0 DEF TypeOK, Entry
  <2>2. log' \in [Arena -> Seq(Entry)]
    BY <2>1, <1>1, <1>2
  <2>3. QED
    BY <2>1, <2>2, <1>1, <1>2 DEF Entry
<1>6. nvm[k] \in Words /\ \A w \in Word : pm[k][w] = nvm[k][w] /\ (w # Delta => Rec[k][w] = nvm[k][w])
  <2>1. \A w \in Word : w # Delta => Rec[k][w] = nvm[k][w] /\ pm[k][w] = nvm[k][w]
    BY <1>0, <1>2, <1>4, RecType
  <2>2. nvm[k] \in Words
    BY <1>0, <1>2 DEF TypeOK, Words
  <2>3. QED
    BY <2>1, <2>2, <1>4
<1>7. CopyInv'
  <2>1. Distinct(<<>>)
    BY DEF Distinct
  <2>2. \A b \in Arena : Distinct(log'[b])
    BY <2>1, <1>0, <1>5 DEF CopyInv
  <2>3. ASSUME NEW b \in Arena, NEW w \in Word, pm[b][w] # nvm[b][w]
        PROVE  w \in In(log'[b]) /\ swizzleState # SwizzleDone
    <3>1. b # k
      BY <1>6, <2>3
    <3>2. QED
      BY <3>1, <1>0, <1>5, <2>3 DEF CopyInv
  <2>4. QED
    BY <2>2, <2>3, <1>1 DEF CopyInv
<1>8. /\ Rec' \in [Arena -> Words] /\ Rec'[k] = nvm[k]
      /\ \A b \in Arena : b # k => Rec'[b] = Rec[b]
  <2>1. Rest(<<>>, nvm[k]) = nvm[k]
    BY <1>6, EmptyLog
  <2>2. swizzleState # SwizzleDone /\ swizzleState' = swizzleState /\ nvm' = nvm
    BY <1>1, <1>3, Consts
  <2>3. Rec' = [b \in Arena |-> Rest(log'[b], nvm[b])] /\ Rec = [b \in Arena |-> Rest(log[b], nvm[b])]
    BY <2>2 DEF Rec
  <2>4. Rec'[k] = nvm[k] /\ \A b \in Arena : b # k => Rec'[b] = Rec[b]
    BY <2>1, <2>3, <1>2, <1>5
  <2>5. \A b \in Arena : Rec'[b] \in Words
    BY <2>4, <1>0, <1>6
  <2>6. QED
    BY <2>3, <2>4, <2>5
<1>9. /\ \A b \in Arena : \A w \in Word : w # Delta => Rec'[b][w] = Rec[b][w]
      /\ Rec'[k][Delta] = 0
  BY <1>4, <1>6, <1>8
<1>10. New(Rec') = New(Rec) /\ \A b \in Arenas : Old(Rec')[b] \in MapAddrs
  <2>1. New(Rec') = New(Rec)
    BY <1>9, Consts DEF New
  <2>2. BaseSem(Rec, n)
    BY <1>0 DEF Sem
  <2>3. Old(Rec')[k] = New(Rec)[k]
    <3>1. Rec[k][MapAddr] \in Int
      BY <1>0, <1>2, Consts DEF Words
    <3>2. QED
      BY <3>1, <1>2, <1>9, Consts DEF Old, New
  <2>4. \A b \in Arenas : b # k => Old(Rec')[b] = Old(Rec)[b]
    BY <1>2, <1>8 DEF Old
  <2>5. QED
    BY <2>1, <2>2, <2>3, <2>4, <1>2 DEF BaseSem, Arenas
<1>11. Sem(Rec, n, swizzleState, target)'
  <2>1. BaseSem(Rec', n)
    BY <1>0, <1>10 DEF Sem, BaseSem, Arenas
  <2>2. \A b \in 1..n : Rec'[b][BytesSwizzled] = AllocSize
    BY <1>2, <1>3, <1>9, Consts DEF Arenas
  <2>3. ApartSem(Rec', n, SwizzleOngoing)
    BY <2>2, <1>0, <1>3, <1>10 DEF Sem, ApartSem
  <2>4. ProgressSem(Rec', n, SwizzleOngoing)
    BY <2>2 DEF ProgressSem, ResumePoints
  <2>5. PointerSem(Rec', n, SwizzleOngoing, target)
    <3>1. ASSUME NEW a \in 1..n, NEW w \in PtrWords(a)
          PROVE  /\ w < Rec[a][BytesSwizzled] /\ w < Rec'[a][BytesSwizzled]
                 /\ Rec'[a][Mdata + w] = Rec[a][Mdata + w]
      <4>1. a \in Arena /\ w \in HeapWord
        BY <1>2, PtrWord DEF Arenas
      <4>2. QED
        BY <4>1, <2>2, <1>3, <1>9, HeapWords DEF Arenas
    <3>2. QED
      BY <3>1, <1>0, <1>3, <1>10 DEF Sem, PointerSem
  <2>6. Sem(Rec', n, SwizzleOngoing, target)
    BY <2>1, <2>3, <2>4, <2>5 DEF Sem
  <2>7. QED
    BY <2>6, <1>1, <1>3
<1>12. TypeOK'
  BY <1>0, <1>1, <1>2, <1>5 DEF TypeOK, Arenas, PCs
<1>13. StateInv'
  BY <1>1, <1>2, <1>3 DEF IInv, StateInv, Setup, Clearing, Walking, Arenas
<1>14. LogInv'
  <2>1. \A b \in 1..k : Clean(b)' /\ nvm'[b][Delta] = 0
    <3>1. \A b \in 1..(k - 1) : b \in Arena /\ b # k
      BY <1>2 DEF Arenas
    <3>2. \A b \in 1..k : b = k \/ b \in 1..(k - 1)
      BY <1>2
    <3>3. QED
      BY <3>1, <3>2, <1>1, <1>3, <1>4, <1>5 DEF Clean
  <2>2. CASE k < n
    <3>1. 1..(k' - 1) = 1..k /\ pc' = "finalReset" /\ k' = k + 1 /\ n' = n
      BY <1>1, <1>2, <2>2
    <3>2. \A b \in (k + 1)..n : b \in Arena /\ b # k /\ b \in k..n
      BY <1>2 DEF Arenas
    <3>3. \A b \in (k + 1)..n : Cleared(b)'
      BY <3>2, <1>1, <1>3, <1>5 DEF Cleared
    <3>4. \A b \in k'..n' : Cleared(b)'
      BY <3>1, <3>3
    <3>5. \A b \in 1..(k' - 1) : Clean(b)' /\ nvm'[b][Delta] = 0
      BY <3>1, <2>1
    <3>6. QED
      BY <3>1, <3>4, <3>5 DEF LogInv, Setup, Clearing
  <2>3. CASE k = n
    <3>1. Arenas' = 1..k /\ pc' = "setRoot"
      BY <1>1, <1>2, <2>3 DEF Arenas
    <3>2. \A b \in Arenas' : Clean(b)' /\ nvm'[b][Delta] = 0
      BY <3>1, <2>1
    <3>3. QED
      BY <3>1, <3>2 DEF LogInv, Setup, Clearing
  <2>4. QED
    BY <2>2, <2>3, <1>2
<1>15. TableInv'
  BY <1>1, <1>2, <1>3, <1>10 DEF TableInv, Setup, Walking, Arenas
<1>16. ProgressInv'
  <2>1. \A b \in Arenas : Rec'[b][BytesSwizzled] = AllocSize
    BY <1>2, <1>3, <1>9, Consts
  <2>2. ASSUME NEW a \in Arenas, NEW w \in PtrWords(a), target[a][w] = Volatile
        PROVE  Rec'[a][Mdata + w] = 0
    <3>1. a \in Arena /\ w \in HeapWord
      BY <1>2, PtrWord
    <3>2. w < Rec[a][BytesSwizzled] /\ Rec'[a][Mdata + w] = Rec[a][Mdata + w]
      BY <3>1, <1>3, <1>9, HeapWords
    <3>3. QED
      BY <3>2, <2>2, <1>1 DEF IInv, ProgressInv
  <2>3. QED
    BY <2>1, <2>2, <1>1, <1>2 DEF ProgressInv, Setup, Clearing, Arenas
<1>17. BeyondInv'
  BY <1>1, <1>2, <1>5, ZenonT(40) DEF IInv, BeyondInv, Clean, Arenas
<1>18. WalkInv' /\ RootInv'
  BY <1>1, <1>2 DEF IInv, WalkInv, RootInv, Arenas, Walking
<1>19. Forward
  <2>1. \A a \in Arenas : Rec'[a][BytesSwizzled] = Rec[a][BytesSwizzled] /\ Rec[a][BytesSwizzled] = AllocSize
    BY <1>2, <1>3, <1>9, Consts
  <2>2. QED
    BY <2>1, Consts DEF Forward
<1>20. QED
  BY <1>7, <1>11, <1>12, <1>13, <1>14, <1>15, <1>16, <1>17, <1>18, <1>19 DEF IInv

------------------------------------------------------------------------------
(* The root pointer.                                                       *)

\* The file offsets of an arena end before the next one starts.
LEMMA Rows ==
  ASSUME NEW x \in Nat, NEW y \in Nat, NEW s \in Nat, x < y
  PROVE  x * s + s <= y * s
<1>1. PICK d \in Nat : y = x + 1 + d
  <2>1. y - x - 1 \in Nat /\ y = x + 1 + (y - x - 1)
    OBVIOUS
  <2>2. QED
    BY <2>1
<1>2. y * s = x * s + s + d * s
  BY <1>1
<1>3. d * s \in Nat /\ x * s \in Nat
  OBVIOUS
<1>4. QED
  BY <1>2, <1>3

\* computeRootAddr finds the arena that an offset was computed from.
LEMMA RootFound ==
  ASSUME TypeOK, NEW c \in Arenas, NEW off \in Word
  PROVE  ComputeRootAddr((c - 1) * Size + off) = addr[c] + off
<1>1. /\ c \in Nat /\ c >= 1 /\ c - 1 \in Nat /\ off \in Nat /\ off < Size /\ Size \in Nat
      /\ n \in Nat
  BY Range, Consts DEF Arenas, Word
<1> DEFINE base == (c - 1) * Size
           offset == base + off
<1>2. base \in Nat
  BY <1>1
<1>3. c * Size = base + Size
  BY <1>1
<1> HIDE DEF base
<1>4. base <= offset /\ offset < c * Size /\ offset \in Nat
  BY <1>1, <1>2, <1>3
<1>5. ASSUME NEW b \in Arenas, (b - 1) * Size <= offset, offset < b * Size
      PROVE  b = c
  <2>1. b \in Nat /\ b >= 1 /\ b - 1 \in Nat
    BY <1>1 DEF Arenas
  <2>2. b * Size \in Nat /\ (b - 1) * Size \in Nat /\ b * Size = (b - 1) * Size + Size
    BY <2>1, <1>1
  <2>3. ~(b < c)
    <3>1. ASSUME b < c
          PROVE  FALSE
      <4>1. b - 1 < c - 1
        BY <3>1, <2>1, <1>1
      <4>2. (b - 1) * Size + Size <= base
        BY <4>1, <2>1, <1>1, Rows DEF base
      <4>3. QED
        BY <4>2, <2>2, <1>2, <1>4, <1>5
    <3>2. QED
      BY <3>1
  <2>4. ~(c < b)
    <3>1. ASSUME c < b
          PROVE  FALSE
      <4>1. c - 1 < b - 1
        BY <3>1, <2>1, <1>1
      <4>2. base + Size <= (b - 1) * Size
        BY <4>1, <2>1, <1>1, Rows DEF base
      <4>3. QED
        BY <4>2, <2>2, <1>1, <1>2, <1>5
    <3>2. QED
      BY <3>1
  <2>5. QED
    BY <2>1, <2>3, <2>4, <1>1
<1>6. (CHOOSE b \in Arenas : (b - 1) * Size <= offset /\ offset < b * Size) = c
  <2>1. (c - 1) * Size <= offset /\ offset < c * Size
    BY <1>4 DEF base
  <2>2. QED
    BY <2>1, <1>5
<1>7. ComputeRootAddr(offset) = addr[c] + (offset - (c - 1) * Size)
  BY <1>6 DEF ComputeRootAddr
<1>8. offset - (c - 1) * Size = off
  <2>1. (c - 1) * Size = base
    BY DEF base
  <2>2. offset - base = off
    BY <1>1, <1>2
  <2>3. QED
    BY <2>1, <2>2
<1>9. QED
  BY <1>7, <1>8 DEF base

\* SetRoot records the offset from which computeRootAddr finds the address.
LEMMA RootSet ==
  ASSUME TypeOK, Disjoint(addr, Arenas), \A a \in Arenas : addr[a] \in MapAddrs,
         NEW c \in Arenas, NEW off \in Word, SetRootTo(addr[c] + off)
  PROVE  /\ root' = addr[c] + off
         /\ rootOffset' = (c - 1) * Size + off
         /\ root' \in Nat /\ rootOffset' \in Nat
<1>1. /\ \A a \in Arenas : addr[a] \in Nat
      /\ off \in Nat /\ off < Size /\ Size \in Nat /\ n \in Nat /\ c \in Nat /\ c >= 1
  <2>1. \A a \in Arenas : addr[a] \in Nat
    BY AddrNat
  <2>2. QED
    BY <2>1, Range, Consts DEF Arenas, Word
<1> DEFINE x == addr[c] + off
<1>2. x \in Nat /\ addr[c] <= x /\ x < addr[c] + Size /\ x - addr[c] = off
  BY <1>1
<1> HIDE DEF x
<1>3. ASSUME NEW b \in Arenas, addr[b] <= x, x < addr[b] + Size
      PROVE  b = c
  BY <1>1, <1>2, <1>3 DEF Disjoint
<1>4. (CHOOSE b \in Arenas : addr[b] <= x /\ x < addr[b] + Size) = c
  BY <1>2, <1>3
<1>5. root' = x /\ rootOffset' = (c - 1) * Size + (x - addr[c])
  <2>1. SetRootTo(x)
    BY DEF x
  <2>2. QED
    BY <2>1, <1>4 DEF SetRootTo
<1>6. (c - 1) * Size \in Nat
  <2>1. c - 1 \in Nat
    BY <1>1
  <2>2. QED
    BY <2>1, <1>1
<1>7. rootOffset' = (c - 1) * Size + off /\ rootOffset' \in Nat
  BY <1>1, <1>2, <1>5, <1>6
<1>8. QED
  BY <1>2, <1>5, <1>7 DEF x

\* PmemInit sets the root at its new address.
LEMMA SetRootStep ==
  ASSUME IInv, SetRoot
  PROVE  IInv' /\ Forward
<1>0. TypeOK /\ CopyInv
  BY DEF IInv
<1>1. /\ pc = "setRoot" /\ pc' = "running"
      /\ IF rootOffset # 0 THEN SetRootTo(ComputeRootAddr(rootOffset))
                           ELSE UNCHANGED <<root, rootOffset>>
      /\ offsetTable' = NoTable /\ rangeTable' = NoTable
      /\ UNCHANGED <<pm, nvm, log, swizzleState, n, k, addr, sw, target, rootTarget, stores, crashes>>
  BY DEF SetRoot, app
<1>2. Rec' = Rec
  BY <1>1 DEF Rec
<1> DEFINE c == rootTarget.arena
           off == rootTarget.off
<1>3. c \in Arenas /\ off \in Word /\ off > 0 /\ rootOffset = (c - 1) * Size + off
  BY <1>0 DEF IInv, RootInv, TypeOK
<1>4. Disjoint(addr, Arenas) /\ \A a \in Arenas : addr[a] \in MapAddrs
  BY <1>1 DEF IInv, StateInv
<1> HIDE DEF c, off
<1>5. rootOffset # 0
  <2>1. c - 1 \in Nat /\ Size \in Nat /\ off \in Nat
    BY <1>0, <1>3, Range, Consts DEF Arenas, Word
  <2>2. (c - 1) * Size \in Nat
    BY <2>1
  <2>3. QED
    BY <2>1, <2>2, <1>3
<1>6. SetRootTo(addr[c] + off)
  <2>1. ComputeRootAddr(rootOffset) = addr[c] + off
    BY <1>0, <1>3, RootFound
  <2>2. QED
    BY <2>1, <1>1, <1>5
<1>7. root' = addr[c] + off /\ rootOffset' = rootOffset /\ root' \in Nat /\ rootOffset' \in Nat
  BY <1>0, <1>3, <1>4, <1>6, RootSet
<1>8. TypeOK'
  <2>1. NoTable \in [Arena -> Int]
    BY DEF NoTable
  <2>2. QED
    BY <2>1, <1>0, <1>1, <1>7 DEF TypeOK, Arenas, PCs
<1>9. CopyInv'
  BY <1>0, <1>1 DEF CopyInv
<1>10. StateInv'
  BY <1>1, Consts DEF IInv, StateInv, Setup, Clearing, Walking, Arenas
<1>11. LogInv'
  BY <1>1 DEF IInv, LogInv, Setup, Clearing, Clean, Arenas
<1>12. TableInv'
  BY <1>1, <1>2 DEF IInv, TableInv, Setup, Walking, Arenas
<1>13. ProgressInv'
  BY <1>1 DEF ProgressInv, Setup, Clearing
<1>14. BeyondInv' /\ WalkInv'
  BY <1>1 DEF IInv, BeyondInv, WalkInv, Clean, Arenas, Walking
<1>15. RootInv'
  BY <1>1, <1>3, <1>7 DEF IInv, RootInv, Arenas, c, off
<1>16. Forward
  BY <1>0, <1>2, ForwardSame
<1>17. Sem(Rec, n, swizzleState, target)'
  BY <1>1, <1>2 DEF IInv
<1>18. QED
  BY <1>8, <1>9, <1>10, <1>11, <1>12, <1>13, <1>14, <1>15, <1>16, <1>17 DEF IInv

------------------------------------------------------------------------------
(* The goroutines.                                                         *)

\* While the goroutine of arena a exists, swizzling is in progress.
LEMMA Walks ==
  ASSUME IInv, NEW a \in Arenas, sw[a].pc # "off"
  PROVE  /\ pc \in Walking /\ SwInv(a) /\ swizzleState = SwizzleOngoing /\ a \in Arena
         /\ \A b \in Arenas : /\ rangeTable[b] = Old(Rec)[b]
                              /\ offsetTable[b] = New(Rec)[b] - Old(Rec)[b]
                              /\ Old(Rec)[b] \in MapAddrs /\ New(Rec)[b] \in MapAddrs
         /\ sw[a] \in SwizzlerState
<1>0. TypeOK /\ CopyInv /\ Sem(Rec, n, swizzleState, target) /\ Rec \in [Arena -> Words]
  BY RecType DEF IInv
<1>1. a \in Arena
  BY <1>0, Range
<1>2. pc \in Walking
  <2>1. CASE sw = [b \in Arena |-> Idle0]
    BY <2>1, <1>1 DEF Idle0
  <2>2. QED
    BY <2>1 DEF IInv, StateInv
<1>3. SwInv(a) /\ swizzleState = SwizzleOngoing
  BY <1>2 DEF IInv, WalkInv, StateInv
<1>4. \A b \in Arenas : rangeTable[b] = Old(Rec)[b] /\ offsetTable[b] = Rec[b][Delta]
  BY <1>2 DEF IInv, TableInv
<1>5. BaseSem(Rec, n) /\ n \in Arena
  BY <1>0 DEF Sem, TypeOK
<1>6. \A b \in Arenas : Rec[b][Delta] = New(Rec)[b] - Old(Rec)[b]
  BY <1>0, <1>5, BaseType DEF Arenas
<1>7. \A b \in Arenas : Old(Rec)[b] \in MapAddrs /\ New(Rec)[b] \in MapAddrs
  BY <1>5 DEF BaseSem, Arenas
<1>8. sw[a] \in SwizzlerState
  BY <1>0, <1>1 DEF TypeOK
<1>9. QED
  BY <1>1, <1>2, <1>3, <1>4, <1>6, <1>7, <1>8

\* What the goroutine of arena a leaves alone.
LEMMA WalkFrame ==
  ASSUME IInv, NEW a \in Arenas, pc \in Walking,
         UNCHANGED <<swizzleState, rootOffset, n, pc, k, addr, offsetTable, rangeTable, root,
                     target, rootTarget, stores, crashes>>,
         \A b \in Arena : b # a => /\ pm'[b] = pm[b] /\ nvm'[b] = nvm[b] /\ log'[b] = log[b]
                                   /\ sw'[b] = sw[b] /\ Rec'[b] = Rec[b],
         Rec'[a][MapAddr] = Rec[a][MapAddr], Rec'[a][Delta] = Rec[a][Delta],
         SwInv(a)',
         pc = "swizzling" => \A w \in PtrWords(a) :
           target[a][w] = Volatile /\ w < Rec'[a][BytesSwizzled] => Rec'[a][Mdata + w] = 0
  PROVE  /\ BeyondInv' /\ StateInv' /\ LogInv' /\ TableInv' /\ ProgressInv' /\ WalkInv' /\ RootInv'
         /\ New(Rec') = New(Rec) /\ Old(Rec') = Old(Rec)
<1>0. TypeOK /\ \A b \in Arenas : b \in Arena
  BY Range DEF IInv
<1>1. New(Rec') = New(Rec) /\ Old(Rec') = Old(Rec)
  BY <1>0, BaseSame
<1>2. BeyondInv'
  BY DEF IInv, BeyondInv, Clean, Arenas
<1>3. StateInv'
  BY DEF IInv, StateInv, Setup, Clearing, Walking, Arenas
<1>4. LogInv'
  BY DEF LogInv, Setup, Clearing, Walking
<1>5. TableInv'
  <2>1. \A b \in Arenas : Rec'[b][Delta] = Rec[b][Delta]
    BY <1>0
  <2>2. QED
    BY <2>1, <1>1 DEF IInv, TableInv, Setup, Walking, Arenas
<1>6. ProgressInv'
  <2>1. CASE pc = "completing"
    BY <2>1 DEF ProgressInv, Setup, Clearing
  <2>2. CASE pc = "swizzling"
    <3>1. ASSUME NEW b \in Arenas, NEW w \in PtrWords(b), target[b][w] = Volatile,
                 w < Rec'[b][BytesSwizzled]
          PROVE  Rec'[b][Mdata + w] = 0
      <4>1. CASE b = a
        BY <4>1, <3>1, <2>2
      <4>2. CASE b # a
        <5>1. Rec'[b] = Rec[b]
          BY <4>2, <1>0
        <5>2. QED
          BY <5>1, <3>1, <2>2 DEF IInv, ProgressInv
      <4>3. QED
        BY <4>1, <4>2
    <3>2. QED
      BY <3>1, <2>2 DEF ProgressInv, Setup, Clearing, Arenas
  <2>3. QED
    BY <2>1, <2>2 DEF Walking
<1>7. WalkInv'
  <2>1. ASSUME NEW b \in Arenas
        PROVE  SwInv(b)'
    <3>1. CASE b = a
      BY <3>1
    <3>2. CASE b # a
      <4>1. /\ pm'[b] = pm[b] /\ nvm'[b] = nvm[b] /\ log'[b] = log[b]
            /\ sw'[b] = sw[b] /\ Rec'[b] = Rec[b]
        BY <3>2, <1>0
      <4>2. SwInv(b)
        BY DEF IInv, WalkInv
      <4>3. QED
        BY <4>1, <4>2 DEF SwInv, Clean
    <3>3. QED
      BY <3>1, <3>2
  <2>2. QED
    BY <2>1 DEF WalkInv, Arenas
<1>8. RootInv'
  BY DEF IInv, RootInv, Arenas, Walking
<1>9. QED
  BY <1>1, <1>2, <1>3, <1>4, <1>5, <1>6, <1>7, <1>8

\* The words that the goroutine has found nothing to do for.
LEMMA PendingWords ==
  ASSUME IInv, ResumableLayout, NEW a \in Arenas, sw[a].pc = "walk"
  PROVE  /\ \A w \in Pending(a) : w \in PtrWords(a) /\ sw[a].next <= w
         /\ \A x \in PtrWords(a) : sw[a].next <= x /\ x \notin Pending(a) =>
              Settled(rangeTable, offsetTable, n, Rec[a][Mdata + x])
<1>0. TypeOK /\ CopyInv
  BY DEF IInv
<1>1. SwInv(a) /\ a \in Arena /\ sw[a] \in SwizzlerState
  BY Walks
<1>2. /\ Clean(a) /\ sw[a].start \in ResumePoints(a) /\ sw[a].start <= sw[a].next
      /\ sw[a].start \in Nat /\ sw[a].next \in Nat
  BY <1>1, Consts DEF SwInv, SwizzlerState
<1>3. pm[a] = Rec[a]
  BY <1>0, <1>1, <1>2, RecType
<1>4. Inspected(a, sw[a].start) = {w \in PtrWords(a) : w >= sw[a].start}
  BY <1>1, <1>2 DEF ResumableLayout
<1>5. ASSUME NEW w \in Pending(a)
      PROVE  w \in PtrWords(a) /\ sw[a].next <= w
  <2>1. w \in Inspected(a, sw[a].start) /\ w >= sw[a].next
    BY DEF Pending
  <2>2. w \in PtrWords(a)
    BY <2>1, <1>4
  <2>3. w \in Nat
    BY <2>2, <1>1, PtrWord, HeapWords
  <2>4. QED
    BY <2>1, <2>2, <2>3, <1>2
<1>6. ASSUME NEW x \in PtrWords(a), sw[a].next <= x, x \notin Pending(a)
      PROVE  Settled(rangeTable, offsetTable, n, Rec[a][Mdata + x])
  <2>1. x \in Nat
    BY <1>1, PtrWord, HeapWords
  <2>2. x \in Inspected(a, sw[a].start) /\ x >= sw[a].next
    BY <2>1, <1>2, <1>4, <1>6
  <2>3. pm[a][Mdata + x] = 0 \/ SwizzlePointer(pm[a][Mdata + x]) = pm[a][Mdata + x]
    BY <2>2, <1>6 DEF Pending
  <2>4. QED
    BY <2>3, <1>3, PointerIs DEF Settled
<1>7. QED
  BY <1>5, <1>6

\* A set of natural numbers has a least element.
LEMMA Least ==
  ASSUME NEW S \in SUBSET Nat, S # {}
  PROVE  \E w \in S : \A x \in S : w <= x
<1>1. IsWellFoundedOn(OpToRel(<, Nat), Nat)
  BY NatLessThanWellFounded
<1>2. PICK w \in S : \A x \in S : ~(<<x, w>> \in OpToRel(<, Nat))
  BY <1>1, WFMin
<1>3. ASSUME NEW x \in S
      PROVE  w <= x
  <2>1. x \in Nat /\ w \in Nat
    OBVIOUS
  <2>2. ~(x < w)
    <3>1. x < w => <<x, w>> \in OpToRel(<, Nat)
      BY <2>1 DEF OpToRel
    <3>2. QED
      BY <3>1, <1>2
  <2>3. QED
    BY <2>1, <2>2
<1>4. QED
  BY <1>3

\* The progress is logged, and the next pointer chosen.
LEMMA LogProgressStep ==
  ASSUME IInv, ResumableLayout, NEW a \in Arenas, LogProgress(a)
  PROVE  IInv' /\ Forward
<1>0. TypeOK /\ CopyInv
  BY DEF IInv
<1>1. /\ sw[a].pc = "walk" /\ Pending(a) # {} /\ LogEntry(a, BytesSwizzled)
      /\ sw' = [sw EXCEPT ![a].pc = "logPtr",
                          ![a].w = CHOOSE w \in Pending(a) : \A x \in Pending(a) : w <= x]
      /\ UNCHANGED <<pm, nvm, swizzleState, rootOffset, n, pc, k, addr, offsetTable, rangeTable,
                     root, target, rootTarget, stores, crashes>>
  BY DEF LogProgress, tables, app
<1>2. /\ pc \in Walking /\ SwInv(a) /\ a \in Arena /\ sw[a] \in SwizzlerState
      /\ sw \in [Arena -> SwizzlerState]
  BY <1>0, <1>1, Walks DEF TypeOK
<1>3. /\ Clean(a) /\ Rec[a] = nvm[a] /\ sw[a].next = Rec[a][BytesSwizzled]
      /\ sw[a].start \in ResumePoints(a) /\ sw[a].start <= sw[a].next
  BY <1>1, <1>2 DEF SwInv
<1>4. pm[a] = nvm[a] /\ In(log[a]) = {}
  BY <1>0, <1>2, <1>3, RecType, EmptyLog DEF Clean, In
<1>5. /\ log' \in [Arena -> Seq([off : Word, val : Int])]
      /\ CopyInv'
      /\ Rec' = Rec
      /\ In(log'[a]) = {BytesSwizzled}
      /\ \A b \in Arena : b # a => log'[b] = log[b]
  BY <1>0, <1>1, <1>2, <1>4, LogStep, Consts
<1> DEFINE w == CHOOSE x \in Pending(a) : \A y \in Pending(a) : x <= y
<1>6. w \in Pending(a) /\ \A y \in Pending(a) : w <= y
  <2>1. \A x \in Pending(a) : x \in Nat
    BY <1>1, <1>2, PendingWords, PtrWord, HeapWords
  <2>2. \E x \in Pending(a) : \A y \in Pending(a) : x <= y
    BY <2>1, <1>1, Least
  <2>3. QED
    BY <2>2
<1>7. sw' = [sw EXCEPT ![a].pc = "logPtr", ![a].w = w]
  BY <1>1
<1> HIDE DEF w
<1>8. w \in PtrWords(a) /\ sw[a].next <= w /\ w \in Nat /\ w < AllocSize
  BY <1>1, <1>2, <1>6, PendingWords, PtrWord, HeapWords
<1>9. /\ sw'[a] = [pc |-> "logPtr", start |-> sw[a].start, next |-> sw[a].next, w |-> w]
      /\ \A b \in Arena : b # a => sw'[b] = sw[b]
      /\ sw' \in [Arena -> SwizzlerState]
  <2>1. sw'[a] = [sw[a] EXCEPT !.pc = "logPtr", !.w = w]
    BY <1>2, <1>7
  <2>2. sw'[a] = [pc |-> "logPtr", start |-> sw[a].start, next |-> sw[a].next, w |-> w]
    BY <2>1, <1>2 DEF SwizzlerState
  <2>3. w \in 0..AllocSize
    BY <1>8, Consts
  <2>4. sw'[a] \in SwizzlerState
    BY <2>2, <2>3, <1>2 DEF SwizzlerState
  <2>5. \A b \in Arena : b # a => sw'[b] = sw[b]
    BY <1>2, <1>7
  <2>6. sw' = [b \in Arena |-> sw'[b]]
    BY <1>2, <1>7
  <2>7. QED
    BY <2>2, <2>4, <2>5, <2>6, <1>2
<1>10. \A x \in PtrWords(a) : sw[a].next <= x /\ x < w => Settled(rangeTable, offsetTable, n, Rec[a][Mdata + x])
  <2>1. ASSUME NEW x \in PtrWords(a), sw[a].next <= x, x < w
        PROVE  x \notin Pending(a)
    <3>1. x \in Nat
      BY <1>2, PtrWord, HeapWords
    <3>2. QED
      BY <3>1, <2>1, <1>6, <1>8
  <2>2. QED
    BY <2>1, <1>1, PendingWords
<1>11. SwInv(a)'
  <2>1. sw'[a].pc = "logPtr" /\ sw'[a].start = sw[a].start /\ sw'[a].next = sw[a].next /\ sw'[a].w = w
    BY <1>9
  <2>2. QED
    BY <2>1, <1>1, <1>3, <1>4, <1>5, <1>8, <1>10 DEF SwInv
<1>12. TypeOK'
  BY <1>0, <1>1, <1>5, <1>9 DEF TypeOK, Arenas
<1>13. BeyondInv' /\ StateInv' /\ LogInv' /\ TableInv' /\ ProgressInv' /\ WalkInv' /\ RootInv'
  <2>1. \A b \in Arena : b # a => /\ pm'[b] = pm[b] /\ nvm'[b] = nvm[b] /\ log'[b] = log[b]
                                  /\ sw'[b] = sw[b] /\ Rec'[b] = Rec[b]
    BY <1>1, <1>5, <1>9
  <2>2. pc = "swizzling" => \A x \in PtrWords(a) :
          target[a][x] = Volatile /\ x < Rec'[a][BytesSwizzled] => Rec'[a][Mdata + x] = 0
    BY <1>5 DEF IInv, ProgressInv
  <2>3. Rec'[a][MapAddr] = Rec[a][MapAddr] /\ Rec'[a][Delta] = Rec[a][Delta]
    BY <1>5
  <2>4. QED
    BY <2>1, <2>2, <2>3, <1>1, <1>2, <1>11, WalkFrame
<1>14. Sem(Rec, n, swizzleState, target)'
  BY <1>1, <1>5 DEF IInv
<1>15. Forward
  BY <1>0, <1>5, ForwardSame
<1>16. QED
  BY <1>5, <1>12, <1>13, <1>14, <1>15 DEF IInv

\* The goroutine logs the pointer that it will rewrite.
LEMMA LogPtrStep ==
  ASSUME IInv, NEW a \in Arenas, LogPtr(a)
  PROVE  IInv' /\ Forward
<1>0. TypeOK /\ CopyInv
  BY DEF IInv
<1>1. /\ sw[a].pc = "logPtr" /\ LogEntry(a, Mdata + sw[a].w)
      /\ sw' = [sw EXCEPT ![a].pc = "store"]
      /\ UNCHANGED <<pm, nvm, swizzleState, rootOffset, n, pc, k, addr, offsetTable, rangeTable,
                     root, target, rootTarget, stores, crashes>>
  BY DEF LogPtr, tables, app
<1>2. /\ pc \in Walking /\ SwInv(a) /\ a \in Arena /\ sw[a] \in SwizzlerState
      /\ sw \in [Arena -> SwizzlerState]
  BY <1>0, <1>1, Walks DEF TypeOK
<1> DEFINE w == sw[a].w
<1>3. w \in PtrWords(a) /\ In(log[a]) = {BytesSwizzled}
  BY <1>1, <1>2 DEF SwInv
<1>4. Mdata + w \in Word /\ Mdata + w \notin In(log[a])
  BY <1>2, <1>3, PtrWord, HeapWords
<1>5. /\ log' \in [Arena -> Seq([off : Word, val : Int])]
      /\ CopyInv'
      /\ Rec' = Rec
      /\ In(log'[a]) = {BytesSwizzled, Mdata + w}
      /\ \A b \in Arena : b # a => log'[b] = log[b]
  <2>1. /\ log' \in [Arena -> Seq([off : Word, val : Int])]
        /\ CopyInv'
        /\ Rec' = Rec
        /\ In(log'[a]) = In(log[a]) \cup {Mdata + w}
        /\ \A b \in Arena : b # a => log'[b] = log[b]
    BY <1>0, <1>1, <1>2, <1>4, LogStep
  <2>2. QED
    BY <2>1, <1>3
<1>6. /\ sw'[a].pc = "store" /\ sw'[a].start = sw[a].start /\ sw'[a].next = sw[a].next /\ sw'[a].w = w
      /\ \A b \in Arena : b # a => sw'[b] = sw[b]
      /\ sw' \in [Arena -> SwizzlerState]
  <2>1. sw'[a] = [sw[a] EXCEPT !.pc = "store"] /\ sw' = [b \in Arena |-> sw'[b]]
    BY <1>1, <1>2
  <2>2. sw'[a] \in SwizzlerState
    BY <2>1, <1>2 DEF SwizzlerState
  <2>3. sw'[a].pc = "store" /\ sw'[a].start = sw[a].start /\ sw'[a].next = sw[a].next /\ sw'[a].w = w
    BY <2>1, <1>2 DEF SwizzlerState
  <2>4. \A b \in Arena : b # a => sw'[b] = sw[b]
    BY <1>1, <1>2
  <2>5. QED
    BY <2>1, <2>2, <2>3, <2>4, <1>2
<1>7. SwInv(a)'
  BY <1>1, <1>2, <1>5, <1>6 DEF SwInv
<1>8. TypeOK'
  BY <1>0, <1>1, <1>5, <1>6 DEF TypeOK, Arenas
<1>9. BeyondInv' /\ StateInv' /\ LogInv' /\ TableInv' /\ ProgressInv' /\ WalkInv' /\ RootInv'
  <2>1. \A b \in Arena : b # a => /\ pm'[b] = pm[b] /\ nvm'[b] = nvm[b] /\ log'[b] = log[b]
                                  /\ sw'[b] = sw[b] /\ Rec'[b] = Rec[b]
    BY <1>1, <1>5, <1>6
  <2>2. pc = "swizzling" => \A x \in PtrWords(a) :
          target[a][x] = Volatile /\ x < Rec'[a][BytesSwizzled] => Rec'[a][Mdata + x] = 0
    BY <1>5 DEF IInv, ProgressInv
  <2>3. Rec'[a][MapAddr] = Rec[a][MapAddr] /\ Rec'[a][Delta] = Rec[a][Delta]
    BY <1>5
  <2>4. QED
    BY <2>1, <2>2, <2>3, <1>1, <1>2, <1>7, WalkFrame
<1>10. Sem(Rec, n, swizzleState, target)'
  BY <1>1, <1>5 DEF IInv
<1>11. Forward
  BY <1>0, <1>5, ForwardSame
<1>12. QED
  BY <1>5, <1>8, <1>9, <1>10, <1>11 DEF IInv

\* The pointer that a goroutine is rewriting is still relative to the old address.
LEMMA Rewritten ==
  ASSUME IInv, NEW a \in Arenas, sw[a].pc # "off", NEW w \in PtrWords(a),
         Rec[a][BytesSwizzled] <= w
  PROVE  LET v == Rec[a][Mdata + w]
             t == target[a][w]
         IN  /\ Disjoint(Old(Rec), Arenas)
             /\ v \in Int /\ t \in TargetIn(n) /\ Means(v, t, Old(Rec), n)
<1>0. TypeOK /\ CopyInv /\ Sem(Rec, n, swizzleState, target) /\ Rec \in [Arena -> Words]
  BY RecType DEF IInv
<1>1. swizzleState = SwizzleOngoing /\ a \in Arena
  BY Walks
<1>2. w \in Nat /\ w < AllocSize /\ Mdata + w \in Word
  BY <1>1, PtrWord, HeapWords
<1>3. Rec[a][BytesSwizzled] \in Int /\ Rec[a][Mdata + w] \in Int
  BY <1>0, <1>1, <1>2, Consts DEF Words
<1>4. ~(w < Rec[a][BytesSwizzled]) /\ Rec[a][BytesSwizzled] # AllocSize
  BY <1>2, <1>3, Consts
<1>5. Disjoint(Old(Rec), Arenas)
  BY <1>0, <1>1, <1>4 DEF Sem, ApartSem, Arenas
<1>6. target[a][w] \in TargetIn(n) /\ Means(Rec[a][Mdata + w], target[a][w], Old(Rec), n)
  BY <1>0, <1>4 DEF Sem, PointerSem, Arenas
<1>7. QED
  BY <1>3, <1>5, <1>6

\* A word that is left alone, and the word that is rewritten, mean the same relative to
\* the new addresses.
LEMMA SettledStays ==
  ASSUME IInv, NEW a \in Arenas, sw[a].pc # "off", NEW w \in PtrWords(a),
         Rec[a][BytesSwizzled] <= w,
         Settled(rangeTable, offsetTable, n, Rec[a][Mdata + w])
  PROVE  /\ Means(Rec[a][Mdata + w], target[a][w], New(Rec), n)
         /\ target[a][w] = Volatile => Rec[a][Mdata + w] = 0
<1>1. n \in Arena
  BY DEF IInv, TypeOK
<1> DEFINE o == Old(Rec)
           m == New(Rec)
           v == Rec[a][Mdata + w]
           t == target[a][w]
<1>2. /\ \A b \in Arenas : o[b] \in MapAddrs /\ m[b] \in MapAddrs
      /\ \A b \in Arenas : rangeTable[b] = o[b] /\ offsetTable[b] = m[b] - o[b]
  BY Walks
<1>3. Disjoint(o, Arenas) /\ v \in Int /\ t \in TargetIn(n) /\ Means(v, t, o, n)
  BY Rewritten
<1>4. Settled(rangeTable, offsetTable, n, v)
  OBVIOUS
<1> HIDE DEF o, m, v, t
<1>5. Means(v, t, m, n) /\ (t = Volatile => v = 0)
  BY <1>1, <1>2, <1>3, <1>4, SettledMeans
<1>6. QED
  BY <1>5 DEF o, m, v, t

\* A pointer that is rewritten means the same at the new addresses, or becomes nil.
LEMMA SwizzledStays ==
  ASSUME IInv, NEW a \in Arenas, sw[a].pc # "off", NEW w \in PtrWords(a),
         Rec[a][BytesSwizzled] <= w
  PROVE  LET x == Translate(rangeTable, offsetTable, n, Rec[a][Mdata + w])
         IN  /\ x \in Int
             /\ Means(x, target[a][w], New(Rec), n)
             /\ target[a][w] = Volatile => x = 0
<1>1. n \in Arena
  BY DEF IInv, TypeOK
<1> DEFINE o == Old(Rec)
           m == New(Rec)
           v == Rec[a][Mdata + w]
           t == target[a][w]
<1>2. /\ \A b \in Arenas : o[b] \in MapAddrs /\ m[b] \in MapAddrs
      /\ \A b \in Arenas : rangeTable[b] = o[b] /\ offsetTable[b] = m[b] - o[b]
  BY Walks
<1>3. Disjoint(o, Arenas) /\ v \in Int /\ t \in TargetIn(n) /\ Means(v, t, o, n)
  BY Rewritten
<1> HIDE DEF o, m, v, t
<1>4. v # 0 => /\ SwizzlePointer(v) \in Int
               /\ Means(SwizzlePointer(v), t, m, n) /\ (t = Volatile => SwizzlePointer(v) = 0)
  BY <1>1, <1>2, <1>3, SwizzleMeans
<1>5. v = 0 => /\ SwizzlePointer(v) \in Int
               /\ Means(SwizzlePointer(v), t, m, n) /\ (t = Volatile => SwizzlePointer(v) = 0)
  <2>1. ASSUME v = 0
        PROVE  SwizzlePointer(v) = 0
    <3>1. \A b \in Arenas : rangeTable[b] \in Nat /\ rangeTable[b] > 0
      BY <1>2, AddrNat
    <3>2. \A b \in Arenas : ~InRange(v, b)
      BY <3>1, <2>1 DEF InRange
    <3>3. QED
      BY <3>2 DEF SwizzlePointer
  <2>2. ASSUME v = 0
        PROVE  Means(v, t, m, n)
    <3>1. Settled(rangeTable, offsetTable, n, v)
      BY <2>2 DEF Settled
    <3>2. QED
      BY <3>1, <1>1, <1>2, <1>3, SettledMeans
  <2>3. QED
    BY <2>1, <2>2
<1>6. SwizzlePointer(v) = Translate(rangeTable, offsetTable, n, v)
  BY PointerIs
<1>7. QED
  BY <1>4, <1>5, <1>6 DEF m, v, t

\* The goroutine stores the progress and the pointer, both of which are logged.
LEMMA StorePtrStep ==
  ASSUME IInv, NEW a \in Arenas, StorePtr(a)
  PROVE  IInv' /\ Forward
<1>0. TypeOK /\ CopyInv
  BY DEF IInv
<1> DEFINE w == sw[a].w
           p == Mdata + w
           x == Translate(rangeTable, offsetTable, n, Rec[a][p])
           mem == [nvm[a] EXCEPT ![BytesSwizzled] = w + 1, ![p] = x]
<1>1. /\ sw[a].pc = "store"
      /\ pm' = [pm EXCEPT ![a][BytesSwizzled] = w + 1, ![a][p] = SwizzlePointer(pm[a][p])]
      /\ sw' = [sw EXCEPT ![a].pc = "commit"]
      /\ UNCHANGED <<nvm, log, swizzleState, rootOffset, n, pc, k, addr, offsetTable, rangeTable,
                     root, target, rootTarget, stores, crashes>>
  BY DEF StorePtr, tables, app
<1>2. /\ pc \in Walking /\ SwInv(a) /\ a \in Arena /\ sw[a] \in SwizzlerState
      /\ sw \in [Arena -> SwizzlerState] /\ swizzleState = SwizzleOngoing
  BY <1>0, <1>1, Walks DEF TypeOK
<1>3. /\ w \in PtrWords(a) /\ In(log[a]) = {BytesSwizzled, p} /\ Rec[a][BytesSwizzled] <= w
      /\ pm[a] = nvm[a] /\ Rec[a] = nvm[a]
  BY <1>1, <1>2 DEF SwInv
<1>4. p \in Word /\ w \in Nat /\ p # BytesSwizzled
  BY <1>2, <1>3, PtrWord, HeapWords
<1>5. x \in Int
  BY <1>1, <1>3, SwizzledStays
<1>6. nvm[a] \in Words /\ pm \in [Arena -> Words]
  BY <1>0, <1>2 DEF TypeOK, Words
<1>7. SwizzlePointer(pm[a][p]) = x
  BY <1>3, PointerIs
<1> HIDE DEF w, p, x
<1>8. mem \in Words /\ \A y \in Word : y \notin In(log[a]) => mem[y] = nvm[a][y]
  BY <1>3, <1>4, <1>5, <1>6 DEF Words
<1>9. pm' = [pm EXCEPT ![a] = mem]
  BY <1>1, <1>2, <1>3, <1>4, <1>6, <1>7
<1> HIDE DEF mem
<1>10. /\ pm' \in [Arena -> [Word -> Int]]
       /\ CopyInv'
       /\ Rec' = Rec
       /\ pm'[a] = mem
       /\ \A b \in Arena : b # a => pm'[b] = pm[b]
  <2>1. swizzleState # SwizzleDone
    BY <1>2, Consts
  <2>2. QED
    BY <2>1, <1>0, <1>1, <1>2, <1>8, <1>9, StoreCached, ZenonT(40)
<1>11. /\ sw'[a].pc = "commit" /\ sw'[a].start = sw[a].start /\ sw'[a].next = sw[a].next
       /\ sw'[a].w = sw[a].w
       /\ \A b \in Arena : b # a => sw'[b] = sw[b]
       /\ sw' \in [Arena -> SwizzlerState]
  <2>1. sw'[a] = [sw[a] EXCEPT !.pc = "commit"] /\ sw' = [b \in Arena |-> sw'[b]]
    BY <1>1, <1>2
  <2>2. sw'[a] \in SwizzlerState
    BY <2>1, <1>2 DEF SwizzlerState
  <2>3. sw'[a].pc = "commit" /\ sw'[a].start = sw[a].start /\ sw'[a].next = sw[a].next /\ sw'[a].w = sw[a].w
    BY <2>1, <1>2 DEF SwizzlerState
  <2>4. \A b \in Arena : b # a => sw'[b] = sw[b]
    BY <1>1, <1>2
  <2>5. QED
    BY <2>1, <2>2, <2>3, <2>4, <1>2
<1>12. SwInv(a)'
  <2>1. pm'[a] = [nvm'[a] EXCEPT ![BytesSwizzled] = sw'[a].w + 1,
                    ![Mdata + sw'[a].w] = Translate(rangeTable', offsetTable', n', Rec'[a][Mdata + sw'[a].w])]
    BY <1>1, <1>10, <1>11 DEF mem, x, p, w
  <2>2. QED
    BY <2>1, <1>1, <1>2, <1>10, <1>11 DEF SwInv
<1>13. TypeOK'
  BY <1>0, <1>1, <1>10, <1>11 DEF TypeOK, Arenas
<1>14. BeyondInv' /\ StateInv' /\ LogInv' /\ TableInv' /\ ProgressInv' /\ WalkInv' /\ RootInv'
  <2>1. \A b \in Arena : b # a => /\ pm'[b] = pm[b] /\ nvm'[b] = nvm[b] /\ log'[b] = log[b]
                                  /\ sw'[b] = sw[b] /\ Rec'[b] = Rec[b]
    BY <1>1, <1>10, <1>11
  <2>2. pc = "swizzling" => \A y \in PtrWords(a) :
          target[a][y] = Volatile /\ y < Rec'[a][BytesSwizzled] => Rec'[a][Mdata + y] = 0
    BY <1>10 DEF IInv, ProgressInv
  <2>3. Rec'[a][MapAddr] = Rec[a][MapAddr] /\ Rec'[a][Delta] = Rec[a][Delta]
    BY <1>10
  <2>4. QED
    BY <2>1, <2>2, <2>3, <1>1, <1>2, <1>12, WalkFrame
<1>15. Sem(Rec, n, swizzleState, target)'
  BY <1>1, <1>10 DEF IInv
<1>16. Forward
  BY <1>0, <1>10, ForwardSame
<1>17. QED
  BY <1>10, <1>13, <1>14, <1>15, <1>16 DEF IInv

\* The pointer and the progress become durable together.
LEMMA CommitPtrStep ==
  ASSUME IInv, NEW a \in Arenas, CommitPtr(a)
  PROVE  IInv' /\ Forward
<1>0. TypeOK /\ CopyInv /\ Sem(Rec, n, swizzleState, target) /\ Rec \in [Arena -> Words]
  BY RecType DEF IInv
<1> DEFINE w == sw[a].w
           p == Mdata + w
           x == Translate(rangeTable, offsetTable, n, Rec[a][p])
<1>1. /\ sw[a].pc = "commit"
      /\ CommitLog(a)
      /\ sw' = [sw EXCEPT ![a].pc = "walk", ![a].next = w + 1, ![a].w = 0]
      /\ UNCHANGED <<pm, swizzleState, rootOffset, n, pc, k, addr, offsetTable, rangeTable,
                     root, target, rootTarget, stores, crashes>>
  BY DEF CommitPtr, tables, app
<1>2. /\ pc \in Walking /\ SwInv(a) /\ a \in Arena /\ sw[a] \in SwizzlerState
      /\ sw \in [Arena -> SwizzlerState] /\ swizzleState = SwizzleOngoing /\ n \in Arena
  BY <1>0, <1>1, Walks DEF TypeOK
<1>3. /\ w \in PtrWords(a) /\ sw[a].next = Rec[a][BytesSwizzled] /\ Rec[a][BytesSwizzled] <= w
      /\ sw[a].start \in ResumePoints(a) /\ sw[a].start <= sw[a].next
      /\ Rec[a] = nvm[a]
      /\ pm[a] = [nvm[a] EXCEPT ![BytesSwizzled] = w + 1, ![p] = x]
      /\ \A y \in PtrWords(a) : sw[a].next <= y /\ y < w => Settled(rangeTable, offsetTable, n, Rec[a][Mdata + y])
  BY <1>1, <1>2 DEF SwInv
<1>4. p \in Word /\ w \in Nat /\ p \notin {MapAddr, Delta, BytesSwizzled} /\ w < AllocSize
  BY <1>2, <1>3, PtrWord, HeapWords
<1>5. /\ x \in Int /\ Means(x, target[a][w], New(Rec), n)
      /\ target[a][w] = Volatile => x = 0
  BY <1>1, <1>3, SwizzledStays
<1>6. /\ log' \in [Arena -> Seq([off : Word, val : Int])]
      /\ nvm' \in [Arena -> [Word -> Int]]
      /\ CopyInv'
      /\ Rec' = [Rec EXCEPT ![a] = pm[a]]
      /\ nvm' = [nvm EXCEPT ![a] = pm[a]]
      /\ log'[a] = <<>>
      /\ \A b \in Arena : b # a => log'[b] = log[b]
  <2>1. swizzleState # SwizzleDone
    BY <1>2, Consts
  <2>2. QED
    BY <2>1, <1>0, <1>1, <1>2, CommitStep
<1>7. /\ Rec'[a] = pm[a] /\ nvm'[a] = pm[a]
      /\ \A b \in Arena : b # a => Rec'[b] = Rec[b] /\ nvm'[b] = nvm[b]
  BY <1>0, <1>2, <1>6 DEF TypeOK
<1>a. p = Mdata + w /\ w = sw[a].w
  OBVIOUS
<1> HIDE DEF w, p, x
<1>8. /\ pm[a] \in Words /\ pm[a][p] = x /\ pm[a][BytesSwizzled] = w + 1
      /\ \A y \in Word : y # p /\ y # BytesSwizzled => pm[a][y] = Rec[a][y]
  <2>1. nvm[a] \in Words
    BY <1>0, <1>2 DEF TypeOK, Words
  <2>2. BytesSwizzled \in Word
    BY Consts
  <2>3. QED
    BY <2>1, <2>2, <1>3, <1>4, <1>5 DEF Words
<1>9. ASSUME NEW y \in PtrWords(a)
      PROVE  /\ y < w + 1 => Means(pm[a][Mdata + y], target[a][y], New(Rec), n)
             /\ ~(y < w + 1) => pm[a][Mdata + y] = Rec[a][Mdata + y]
             /\ pc = "swizzling" /\ target[a][y] = Volatile /\ y < w + 1 => pm[a][Mdata + y] = 0
  <2>1. y \in HeapWord /\ w \in HeapWord
    BY <1>2, <1>3, PtrWord
  <2>2. y \in Nat /\ Mdata + y \in Word /\ Mdata + y # BytesSwizzled /\ (y # w => Mdata + y # p)
    BY <2>1, <1>a, HeapWords
  <2>3. CASE y = w
    BY <2>3, <1>4, <1>5, <1>8, <1>a
  <2>4. CASE y # w
    <3>1. pm[a][Mdata + y] = Rec[a][Mdata + y]
      BY <2>2, <2>4, <1>8
    <3>2. Rec[a][BytesSwizzled] \in Int
      BY <1>0, <1>2, Consts DEF Words
    <3>3. CASE y < Rec[a][BytesSwizzled]
      <4>1. Means(Rec[a][Mdata + y], target[a][y], New(Rec), n)
        BY <3>3, <1>0, <1>2 DEF Sem, PointerSem, Arenas
      <4>2. pc = "swizzling" /\ target[a][y] = Volatile => Rec[a][Mdata + y] = 0
        BY <3>3 DEF IInv, ProgressInv
      <4>3. y < w + 1
        BY <3>2, <3>3, <2>2, <1>3, <1>4
      <4>4. QED
        BY <3>1, <4>1, <4>2, <4>3
    <3>4. CASE ~(y < Rec[a][BytesSwizzled]) /\ y < w + 1
      <4>1. Rec[a][BytesSwizzled] <= y /\ y < w
        BY <3>2, <3>4, <2>2, <2>4, <1>4
      <4>2. Settled(rangeTable, offsetTable, n, Rec[a][Mdata + y])
        BY <4>1, <1>3
      <4>3. sw[a].pc # "off"
        BY <1>1
      <4>4. /\ Means(Rec[a][Mdata + y], target[a][y], New(Rec), n)
            /\ target[a][y] = Volatile => Rec[a][Mdata + y] = 0
        BY <4>1, <4>2, <4>3, SettledStays
      <4>5. QED
        BY <3>1, <3>4, <4>4
    <3>5. CASE ~(y < w + 1)
      BY <3>1, <3>5
    <3>6. QED
      BY <3>3, <3>4, <3>5
  <2>5. QED
    BY <2>3, <2>4
<1>10. w + 1 \in ResumePoints(a)
  BY <1>3 DEF ResumePoints
<1>11. Rec[a][BytesSwizzled] <= w + 1 /\ Rec[a][BytesSwizzled] \in Int
  <2>1. Rec[a][BytesSwizzled] \in Int
    BY <1>0, <1>2, Consts DEF Words
  <2>2. QED
    BY <2>1, <1>3, <1>4
<1>12. Rec'[a][MapAddr] = Rec[a][MapAddr] /\ Rec'[a][Delta] = Rec[a][Delta]
  <2>1. MapAddr \in Word /\ MapAddr # p /\ MapAddr # BytesSwizzled
    BY <1>4, Consts
  <2>2. Delta \in Word /\ Delta # p /\ Delta # BytesSwizzled
    BY <1>4, Consts
  <2>3. QED
    BY <2>1, <2>2, <1>7, <1>8
<1>13. Sem(Rec, n, swizzleState, target)'
  <2>1. Sem(Rec, n, SwizzleOngoing, target)
    BY <1>0, <1>2
  <2>2. \A y \in PtrWords(a) :
           IF y < pm[a][BytesSwizzled] THEN Means(pm[a][Mdata + y], target[a][y], New(Rec), n)
                                       ELSE pm[a][Mdata + y] = Rec[a][Mdata + y]
    BY <1>8, <1>9
  <2>3. pm[a][BytesSwizzled] \in ResumePoints(a) /\ Rec[a][BytesSwizzled] <= pm[a][BytesSwizzled]
    BY <1>8, <1>10, <1>11
  <2>4. pm[a][MapAddr] = Rec[a][MapAddr] /\ pm[a][Delta] = Rec[a][Delta]
    BY <1>7, <1>12
  <2>5. a \in 1..n
    BY DEF Arenas
  <2>6. Sem([Rec EXCEPT ![a] = pm[a]], n, SwizzleOngoing, target)
    BY <2>1, <2>2, <2>3, <2>4, <2>5, <1>0, <1>2, <1>8, SemProgress
  <2>7. QED
    BY <2>6, <1>1, <1>2, <1>6
<1>14. /\ sw'[a].pc = "walk" /\ sw'[a].start = sw[a].start /\ sw'[a].next = w + 1
       /\ \A b \in Arena : b # a => sw'[b] = sw[b]
       /\ sw' \in [Arena -> SwizzlerState]
  <2>1. /\ sw'[a] = [sw[a] EXCEPT !.pc = "walk", !.next = w + 1, !.w = 0]
        /\ sw' = [b \in Arena |-> sw'[b]]
    BY <1>1, <1>2
  <2>2. sw'[a] = [pc |-> "walk", start |-> sw[a].start, next |-> w + 1, w |-> 0]
    BY <2>1, <1>2 DEF SwizzlerState
  <2>3. w + 1 \in 0..AllocSize /\ 0 \in 0..AllocSize
    BY <1>4, Consts
  <2>4. sw'[a] \in SwizzlerState
    BY <2>2, <2>3, <1>2 DEF SwizzlerState
  <2>5. \A b \in Arena : b # a => sw'[b] = sw[b]
    BY <1>1, <1>2
  <2>6. QED
    BY <2>1, <2>2, <2>4, <2>5, <1>2
<1>15. SwInv(a)'
  <2>1. Clean(a)' /\ Rec'[a] = nvm'[a] /\ Rec'[a][BytesSwizzled] = w + 1
    BY <1>6, <1>7, <1>8 DEF Clean
  <2>2. sw[a].start <= w + 1
    BY <1>2, <1>3, <1>4, <1>11, Consts DEF SwizzlerState
  <2>3. QED
    BY <2>1, <2>2, <1>3, <1>14 DEF SwInv
<1>16. TypeOK'
  BY <1>0, <1>1, <1>6, <1>14 DEF TypeOK, Arenas
<1>17. BeyondInv' /\ StateInv' /\ LogInv' /\ TableInv' /\ ProgressInv' /\ WalkInv' /\ RootInv'
  <2>1. \A b \in Arena : b # a => /\ pm'[b] = pm[b] /\ nvm'[b] = nvm[b] /\ log'[b] = log[b]
                                  /\ sw'[b] = sw[b] /\ Rec'[b] = Rec[b]
    BY <1>1, <1>6, <1>7, <1>14
  <2>2. pc = "swizzling" => \A y \in PtrWords(a) :
          target[a][y] = Volatile /\ y < Rec'[a][BytesSwizzled] => Rec'[a][Mdata + y] = 0
    BY <1>7, <1>8, <1>9
  <2>3. QED
    BY <2>1, <2>2, <1>1, <1>2, <1>12, <1>15, WalkFrame
<1>18. Forward
  <2>1. ASSUME NEW b \in Arenas
        PROVE  Rec'[b][BytesSwizzled] >= Rec[b][BytesSwizzled]
    <3>1. b \in Arena /\ Rec[b][BytesSwizzled] \in Int
      BY <1>0, Range, Consts DEF Words
    <3>2. CASE b = a
      BY <3>2, <1>4, <1>7, <1>8, <1>11
    <3>3. CASE b # a
      BY <3>1, <3>3, <1>7
    <3>4. QED
      BY <3>2, <3>3
  <2>2. QED
    BY <2>1 DEF Forward
<1>19. QED
  BY <1>6, <1>13, <1>16, <1>17, <1>18 DEF IInv

\* The goroutine is done: what is left needs no rewriting.
LEMMA FinishStep ==
  ASSUME IInv, ResumableLayout, NEW a \in Arenas, Finish(a)
  PROVE  IInv' /\ Forward
<1>0. TypeOK /\ CopyInv /\ Sem(Rec, n, swizzleState, target) /\ Rec \in [Arena -> Words]
  BY RecType DEF IInv
<1>1. /\ sw[a].pc = "walk" /\ Pending(a) = {}
      /\ StorePersist(a, BytesSwizzled, AllocSize)
      /\ sw' = [sw EXCEPT ![a] = [Idle0 EXCEPT !.pc = "done"]]
      /\ UNCHANGED <<log, swizzleState, rootOffset, n, pc, k, addr, offsetTable, rangeTable,
                     root, target, rootTarget, stores, crashes>>
  BY DEF Finish, tables, app
<1>2. /\ pc \in Walking /\ SwInv(a) /\ a \in Arena /\ sw[a] \in SwizzlerState
      /\ sw \in [Arena -> SwizzlerState] /\ swizzleState = SwizzleOngoing /\ n \in Arena
  BY <1>0, <1>1, Walks DEF TypeOK
<1>3. log[a] = <<>> /\ sw[a].next = Rec[a][BytesSwizzled]
  BY <1>1, <1>2 DEF SwInv, Clean
<1>4. /\ pm' \in [Arena -> [Word -> Int]]
      /\ nvm' \in [Arena -> [Word -> Int]]
      /\ CopyInv'
      /\ Rec' \in [Arena -> Words]
      /\ Rec'[a][BytesSwizzled] = AllocSize
      /\ \A y \in Word : y # BytesSwizzled => Rec'[a][y] = Rec[a][y]
      /\ \A b \in Arena : b # a => Rec'[b] = Rec[b]
      /\ \A b \in Arena : b # a => pm'[b] = pm[b] /\ nvm'[b] = nvm[b]
  <2>1. AllocSize \in Int /\ BytesSwizzled \in Word
    BY Consts
  <2>2. log[a] = <<>> \/ swizzleState = SwizzleDone
    BY <1>3
  <2>3. QED
    BY <2>1, <2>2, <1>0, <1>1, <1>2, StoreClean
<1>5. Rec' = [Rec EXCEPT ![a] = Rec'[a]] /\ Rec'[a] \in Words
  BY <1>0, <1>2, <1>4
<1>6. Rec'[a] = nvm'[a]
  <2>1. swizzleState' # SwizzleDone /\ log'[a] = <<>> /\ nvm'[a] \in Words
    BY <1>1, <1>2, <1>3, <1>4, Consts DEF Words
  <2>2. Rest(<<>>, nvm'[a]) = nvm'[a]
    BY <2>1, EmptyLog
  <2>3. QED
    BY <2>1, <2>2, <1>2 DEF Rec
<1>7. Rec[a][BytesSwizzled] \in ResumePoints(a) /\ Rec[a][BytesSwizzled] \in 0..AllocSize
  <2>1. Rec[a][BytesSwizzled] \in ResumePoints(a)
    BY <1>0, <1>2 DEF Sem, ProgressSem, Arenas
  <2>2. QED
    BY <2>1, <1>2, Resume
<1>8. ASSUME NEW y \in PtrWords(a)
      PROVE  /\ y < AllocSize
             /\ Rec'[a][Mdata + y] = Rec[a][Mdata + y]
             /\ Means(Rec[a][Mdata + y], target[a][y], New(Rec), n)
             /\ pc = "swizzling" /\ target[a][y] = Volatile => Rec[a][Mdata + y] = 0
  <2>1. y \in HeapWord
    BY <1>2, PtrWord
  <2>2. y \in Nat /\ y < AllocSize /\ Mdata + y \in Word /\ Mdata + y # BytesSwizzled
    BY <2>1, HeapWords
  <2>3. CASE y < Rec[a][BytesSwizzled]
    <3>1. Means(Rec[a][Mdata + y], target[a][y], New(Rec), n)
      BY <2>3, <1>0, <1>2 DEF Sem, PointerSem, Arenas
    <3>2. pc = "swizzling" /\ target[a][y] = Volatile => Rec[a][Mdata + y] = 0
      BY <2>3 DEF IInv, ProgressInv
    <3>3. QED
      BY <3>1, <3>2, <2>2, <1>4
  <2>4. CASE ~(y < Rec[a][BytesSwizzled])
    <3>1. Rec[a][BytesSwizzled] <= y
      BY <2>2, <2>4, <1>7
    <3>2. Settled(rangeTable, offsetTable, n, Rec[a][Mdata + y])
      BY <3>1, <1>1, <1>3, PendingWords
    <3>3. sw[a].pc # "off"
      BY <1>1
    <3>4. /\ Means(Rec[a][Mdata + y], target[a][y], New(Rec), n)
          /\ target[a][y] = Volatile => Rec[a][Mdata + y] = 0
      BY <3>1, <3>2, <3>3, SettledStays
    <3>5. QED
      BY <3>4, <2>2, <1>4
  <2>5. QED
    BY <2>3, <2>4
<1>9. Rec'[a][MapAddr] = Rec[a][MapAddr] /\ Rec'[a][Delta] = Rec[a][Delta]
  BY <1>4, Consts
<1>10. Sem(Rec, n, swizzleState, target)'
  <2> DEFINE mem == Rec'[a]
  <2>1. Sem(Rec, n, SwizzleOngoing, target)
    BY <1>0, <1>2
  <2>2. \A y \in PtrWords(a) :
           IF y < mem[BytesSwizzled] THEN Means(mem[Mdata + y], target[a][y], New(Rec), n)
                                     ELSE mem[Mdata + y] = Rec[a][Mdata + y]
    BY <1>4, <1>8
  <2>3. /\ mem[BytesSwizzled] \in ResumePoints(a) /\ Rec[a][BytesSwizzled] <= mem[BytesSwizzled]
        /\ mem[MapAddr] = Rec[a][MapAddr] /\ mem[Delta] = Rec[a][Delta] /\ mem \in Words
    <3>1. mem[BytesSwizzled] = AllocSize
      BY <1>4
    <3>2. AllocSize \in ResumePoints(a)
      BY DEF ResumePoints
    <3>3. Rec[a][BytesSwizzled] <= AllocSize
      BY <1>7, Consts
    <3>4. QED
      BY <3>1, <3>2, <3>3, <1>5, <1>9
  <2>4. a \in 1..n
    BY DEF Arenas
  <2> HIDE DEF mem
  <2>5. Sem([Rec EXCEPT ![a] = mem], n, SwizzleOngoing, target)
    BY <2>1, <2>2, <2>3, <2>4, <1>0, <1>2, SemProgress
  <2>6. [Rec EXCEPT ![a] = mem] = Rec'
    BY <1>5 DEF mem
  <2>7. QED
    BY <2>5, <2>6, <1>1, <1>2
<1>11. /\ sw'[a].pc = "done"
       /\ \A b \in Arena : b # a => sw'[b] = sw[b]
       /\ sw' \in [Arena -> SwizzlerState]
  <2>1. sw'[a] = [pc |-> "done", start |-> 0, next |-> 0, w |-> 0]
    BY <1>1, <1>2 DEF Idle0
  <2>2. sw'[a] \in SwizzlerState
    BY <2>1, Consts DEF SwizzlerState
  <2>3. sw' = [b \in Arena |-> sw'[b]] /\ \A b \in Arena : b # a => sw'[b] = sw[b]
    BY <1>1, <1>2
  <2>4. QED
    BY <2>1, <2>2, <2>3, <1>2
<1>12. SwInv(a)'
  BY <1>1, <1>3, <1>4, <1>6, <1>11 DEF SwInv, Clean
<1>13. TypeOK'
  BY <1>0, <1>1, <1>4, <1>11 DEF TypeOK, Arenas
<1>14. BeyondInv' /\ StateInv' /\ LogInv' /\ TableInv' /\ ProgressInv' /\ WalkInv' /\ RootInv'
  <2>1. \A b \in Arena : b # a => /\ pm'[b] = pm[b] /\ nvm'[b] = nvm[b] /\ log'[b] = log[b]
                                  /\ sw'[b] = sw[b] /\ Rec'[b] = Rec[b]
    BY <1>1, <1>4, <1>11
  <2>2. pc = "swizzling" => \A y \in PtrWords(a) :
          target[a][y] = Volatile /\ y < Rec'[a][BytesSwizzled] => Rec'[a][Mdata + y] = 0
    BY <1>8
  <2>3. QED
    BY <2>1, <2>2, <1>1, <1>2, <1>9, <1>12, WalkFrame
<1>15. Forward
  <2>1. ASSUME NEW b \in Arenas
        PROVE  Rec'[b][BytesSwizzled] >= Rec[b][BytesSwizzled]
    <3>1. b \in Arena /\ Rec[b][BytesSwizzled] \in Int
      BY <1>0, Range, Consts DEF Words
    <3>2. CASE b = a
      BY <3>2, <1>4, <1>7, Consts
    <3>3. CASE b # a
      BY <3>1, <3>3, <1>4
    <3>4. QED
      BY <3>2, <3>3
  <2>2. QED
    BY <2>1 DEF Forward
<1>16. QED
  BY <1>4, <1>10, <1>13, <1>14, <1>15 DEF IInv

------------------------------------------------------------------------------
(* The application.                                                        *)

\* While the application runs, every pointer is relative to the current addresses.
LEMMA Running ==
  ASSUME IInv, pc = "running"
  PROVE  /\ \A b \in Arenas : /\ b \in Arena /\ Clean(b) /\ Rec[b] = nvm[b] /\ pm[b] = nvm[b]
                              /\ New(Rec)[b] = addr[b] /\ Old(Rec)[b] = addr[b]
                              /\ nvm[b][Delta] = 0
                              /\ addr[b] \in MapAddrs /\ addr[b] \in Nat /\ addr[b] > 0
         /\ Disjoint(addr, Arenas) /\ k = 1 /\ n \in Arena
         /\ sw = [a \in Arena |-> Idle0]
<1>0. TypeOK /\ CopyInv /\ Rec \in [Arena -> Words] /\ n \in Arena /\ BaseSem(Rec, n)
  BY RecType DEF IInv, TypeOK, Sem
<1>1. \A b \in Arenas : b \in Arena
  BY <1>0, Range
<1>2. \A b \in Arenas : Clean(b) /\ nvm[b][Delta] = 0
  BY DEF IInv, LogInv
<1>3. \A b \in Arenas : Rec[b] = nvm[b] /\ pm[b] = nvm[b]
  BY <1>0, <1>1, <1>2, RecType
<1>4. \A b \in Arenas : New(Rec)[b] = addr[b]
  BY DEF IInv, TableInv
<1>5. \A b \in Arenas : addr[b] \in MapAddrs
  BY DEF IInv, StateInv
<1>6. \A b \in Arenas : addr[b] \in Nat /\ addr[b] > 0
  BY <1>5, AddrNat
<1>7. \A b \in Arenas : Old(Rec)[b] = addr[b]
  <2>1. \A b \in Arenas : Rec[b][Delta] = New(Rec)[b] - Old(Rec)[b] /\ Old(Rec)[b] \in Nat
    BY <1>0, BaseType DEF Arenas
  <2>2. QED
    BY <2>1, <1>2, <1>3, <1>4, <1>6
<1>8. Disjoint(addr, Arenas) /\ k = 1 /\ sw = [a \in Arena |-> Idle0]
  BY DEF IInv, StateInv, Walking
<1>9. QED
  BY <1>0, <1>1, <1>2, <1>3, <1>4, <1>5, <1>6, <1>7, <1>8

\* The meaning of a pointer depends only on the addresses of the arenas.
LEMMA MeansSame ==
  ASSUME NEW num \in Nat, NEW m1, NEW m2, \A b \in 1..num : m1[b] = m2[b],
         NEW t \in TargetIn(num), NEW v, Means(v, t, m1, num)
  PROVE  Means(v, t, m2, num)
<1>1. CASE t = Volatile
  BY <1>1 DEF Means
<1>2. CASE t # Volatile
  <2>1. Value(t, m1) = Value(t, m2)
    BY <1>2 DEF TargetIn, Value, Nil
  <2>2. QED
    BY <1>2, <2>1 DEF Means
<1>3. QED
  BY <1>1, <1>2

\* A store of the application.
LEMMA AppStoreStep ==
  ASSUME IInv, NEW a \in Arenas, NEW w \in PtrWords(a), NEW t \in TargetIn(n), NEW v \in Int,
         Means(v, t, addr, n), AppStore(a, w, t, v)
  PROVE  IInv' /\ Forward
<1>0. TypeOK /\ CopyInv /\ Sem(Rec, n, swizzleState, target) /\ Rec \in [Arena -> Words]
  BY RecType DEF IInv
<1>1. /\ pc = "running" /\ stores > 0
      /\ StorePersist(a, Mdata + w, v)
      /\ target' = [target EXCEPT ![a][w] = t]
      /\ stores' = stores - 1
      /\ UNCHANGED <<log, swizzleState, rootOffset, n, pc, k, addr, offsetTable, rangeTable, sw,
                     root, rootTarget, crashes>>
  BY DEF AppStore, tables
<1>2. /\ \A b \in Arenas : /\ b \in Arena /\ Clean(b)
                           /\ New(Rec)[b] = addr[b] /\ Old(Rec)[b] = addr[b]
                           /\ nvm[b][Delta] = 0
      /\ n \in Arena /\ n \in Nat /\ a \in Arena
  BY <1>0, <1>1, Running, Range
<1>3. w \in HeapWord /\ Mdata + w \in Word /\ Mdata + w \notin {MapAddr, Delta, BytesSwizzled}
  BY <1>2, PtrWord, HeapWords
<1>4. /\ pm' \in [Arena -> [Word -> Int]]
      /\ nvm' \in [Arena -> [Word -> Int]]
      /\ CopyInv'
      /\ Rec' \in [Arena -> Words]
      /\ Rec'[a][Mdata + w] = v
      /\ \A y \in Word : y # Mdata + w => Rec'[a][y] = Rec[a][y]
      /\ \A b \in Arena : b # a => Rec'[b] = Rec[b]
      /\ \A b \in Arena : b # a => pm'[b] = pm[b] /\ nvm'[b] = nvm[b]
  <2>1. log[a] = <<>> \/ swizzleState = SwizzleDone
    BY <1>2 DEF Clean
  <2>2. QED
    BY <2>1, <1>0, <1>1, <1>2, <1>3, StoreClean
<1>5. \A b \in Arena : /\ Rec'[b][MapAddr] = Rec[b][MapAddr] /\ Rec'[b][Delta] = Rec[b][Delta]
                       /\ Rec'[b][BytesSwizzled] = Rec[b][BytesSwizzled]
  BY <1>3, <1>4, Consts
<1>6. New(Rec') = New(Rec) /\ Old(Rec') = Old(Rec)
  BY <1>5, BaseSame
<1>7. /\ target \in [Arena -> [HeapWord -> Target]]
      /\ target'[a][w] = t
      /\ \A y \in HeapWord : y # w => target'[a][y] = target[a][y]
      /\ \A b \in Arena : b # a => target'[b] = target[b]
      /\ target' \in [Arena -> [HeapWord -> Target]]
  <2>1. target \in [Arena -> [HeapWord -> Target]]
    BY <1>0 DEF TypeOK, HeapWord
  <2>2. t \in Target
    BY <1>2 DEF TargetIn, Target, Arenas
  <2>3. target[a] \in [HeapWord -> Target]
    BY <2>1, <1>2
  <2>4. target' = [target EXCEPT ![a] = [target[a] EXCEPT ![w] = t]]
    BY <1>1
  <2>5. [target[a] EXCEPT ![w] = t] \in [HeapWord -> Target]
    BY <2>2, <2>3, <1>3
  <2>6. /\ target' \in [Arena -> [HeapWord -> Target]] /\ target'[a] = [target[a] EXCEPT ![w] = t]
        /\ \A b \in Arena : b # a => target'[b] = target[b]
    BY <2>1, <2>4, <2>5, <1>2
  <2>7. QED
    BY <2>1, <2>3, <2>6, <1>3
<1>8. Sem(Rec, n, swizzleState, target)'
  <2>1. BaseSem(Rec', n)
    BY <1>0, <1>6 DEF Sem, BaseSem
  <2>2. \A b \in 1..n : Rec'[b][BytesSwizzled] = Rec[b][BytesSwizzled]
    BY <1>2, <1>5 DEF Arenas
  <2>3. ApartSem(Rec', n, swizzleState) /\ ProgressSem(Rec', n, swizzleState)
    BY <2>2, <1>0, <1>6 DEF Sem, ApartSem, ProgressSem
  <2>4. ASSUME NEW b \in 1..n, NEW y \in PtrWords(b)
        PROVE  /\ target'[b][y] \in TargetIn(n)
               /\ Means(Rec'[b][Mdata + y], target'[b][y],
                        IF swizzleState = SwizzleOngoing /\ y < Rec'[b][BytesSwizzled] THEN New(Rec') ELSE Old(Rec'), n)
    <3>1. b \in Arena /\ y \in HeapWord
      BY <1>2, PtrWord DEF Arenas
    <3>2. CASE b = a /\ y = w
      <4>1. Means(v, t, New(Rec), n) /\ Means(v, t, Old(Rec), n)
        <5>1. \A c \in 1..n : addr[c] = New(Rec)[c] /\ addr[c] = Old(Rec)[c]
          BY <1>2 DEF Arenas
        <5> DEFINE m1 == New(Rec)
                   m2 == Old(Rec)
        <5>2. \A c \in 1..n : addr[c] = m1[c] /\ addr[c] = m2[c]
          BY <5>1
        <5> HIDE DEF m1, m2
        <5>3. Means(v, t, m1, n) /\ Means(v, t, m2, n)
          BY <5>2, <1>2, MeansSame
        <5>4. QED
          BY <5>3 DEF m1, m2
      <4>2. QED
        BY <4>1, <3>2, <1>4, <1>6, <1>7
    <3>3. CASE ~(b = a /\ y = w)
      <4>1. target'[b][y] = target[b][y]
        BY <3>1, <3>3, <1>7
      <4>2. Rec'[b][Mdata + y] = Rec[b][Mdata + y]
        <5>1. CASE b # a
          BY <5>1, <3>1, <1>4
        <5>2. CASE b = a
          <6>1. Mdata + y \in Word /\ Mdata + y # Mdata + w
            BY <5>2, <3>1, <3>3, <1>3, HeapWords
          <6>2. QED
            BY <6>1, <5>2, <1>4
        <5>3. QED
          BY <5>1, <5>2
      <4>3. /\ target[b][y] \in TargetIn(n)
            /\ Means(Rec[b][Mdata + y], target[b][y],
                     IF swizzleState = SwizzleOngoing /\ y < Rec[b][BytesSwizzled] THEN New(Rec) ELSE Old(Rec), n)
        BY <1>0 DEF Sem, PointerSem
      <4>4. QED
        BY <4>1, <4>2, <4>3, <2>2, <1>6
    <3>4. QED
      BY <3>2, <3>3
  <2>5. PointerSem(Rec', n, swizzleState, target')
    BY <2>4 DEF PointerSem
  <2>6. Sem(Rec', n, swizzleState, target')
    BY <2>1, <2>3, <2>5 DEF Sem
  <2>7. QED
    BY <2>6, <1>1
<1>9. TypeOK'
  <2>1. stores' \in Nat
    BY <1>0, <1>1 DEF TypeOK
  <2>2. QED
    BY <2>1, <1>0, <1>1, <1>4, <1>7 DEF TypeOK, Arenas, HeapWord
<1>10. BeyondInv'
  <2>1. ASSUME NEW b \in Arena \ Arenas
        PROVE  log'[b] = log[b] /\ pm'[b] = pm[b] /\ target'[b] = target[b] /\ sw'[b] = sw[b]
    <3>1. b # a
      OBVIOUS
    <3>2. QED
      BY <3>1, <1>1, <1>4, <1>7
  <2>2. Arenas' = Arenas
    BY <1>1 DEF Arenas
  <2>3. QED
    BY <2>1, <2>2 DEF IInv, BeyondInv, Clean
<1>11. StateInv'
  BY <1>1 DEF IInv, StateInv, Setup, Clearing, Walking, Arenas
<1>12. LogInv'
  <2>1. \A b \in Arenas : Clean(b)'
    BY <1>1, <1>2 DEF Clean
  <2>2. \A b \in Arenas : nvm'[b][Delta] = 0
    <3>1. nvm[a] \in Words /\ nvm' = [nvm EXCEPT ![a] = [nvm[a] EXCEPT ![Mdata + w] = v]] /\ nvm \in [Arena -> Words]
      BY <1>0, <1>1, <1>2 DEF StorePersist, TypeOK, Words
    <3>2. nvm'[a][Delta] = nvm[a][Delta]
      BY <3>1, <1>2, <1>3, Consts DEF Words
    <3>3. QED
      BY <3>2, <1>2, <1>4
  <2>3. QED
    BY <2>1, <2>2, <1>1 DEF LogInv, Setup, Clearing, Arenas
<1>13. TableInv'
  BY <1>1, <1>2, <1>6 DEF TableInv, Setup, Walking, Arenas
<1>14. ProgressInv' /\ WalkInv'
  BY <1>1 DEF ProgressInv, WalkInv, Setup, Clearing, Walking
<1>15. RootInv'
  BY <1>1 DEF IInv, RootInv, Arenas
<1>16. Forward
  <2>1. \A b \in Arenas : Rec'[b][BytesSwizzled] = Rec[b][BytesSwizzled] /\ Rec[b][BytesSwizzled] \in Int
    BY <1>0, <1>2, <1>5, Consts DEF Words
  <2>2. QED
    BY <2>1 DEF Forward
<1>17. QED
  BY <1>4, <1>8, <1>9, <1>10, <1>11, <1>12, <1>13, <1>14, <1>15, <1>16 DEF IInv

\* What the application stores means what it says.
LEMMA StoreSteps ==
  ASSUME IInv, StoreNil \/ StorePointer \/ StoreVolatile
  PROVE  IInv' /\ Forward
<1>0. TypeOK /\ n \in Arena
  BY DEF IInv, TypeOK
<1>1. CASE StoreNil
  <2>0. PICK a \in Arenas : \E w \in PtrWords(a) : AppStore(a, w, Nil, 0)
    BY <1>1 DEF StoreNil
  <2>1. PICK w \in PtrWords(a) : AppStore(a, w, Nil, 0)
    BY <2>0
  <2> DEFINE zero == 0
  <2>2. /\ zero \in Int /\ Nil \in TargetIn(n) /\ Nil # Volatile /\ AppStore(a, w, Nil, zero)
        /\ Value(Nil, addr) = zero
    BY <2>1 DEF TargetIn, Nil, Volatile, Value
  <2> HIDE DEF zero
  <2>3. Means(zero, Nil, addr, n)
    BY <2>2 DEF Means
  <2>4. QED
    BY <2>2, <2>3, AppStoreStep
<1>2. CASE StorePointer
  <2>0. PICK a, b \in Arenas, off \in TargetOff : \E w \in PtrWords(a) :
          AppStore(a, w, [arena |-> b, off |-> off], addr[b] + off)
    BY <1>2 DEF StorePointer
  <2>1. PICK w \in PtrWords(a) : AppStore(a, w, [arena |-> b, off |-> off], addr[b] + off)
    BY <2>0
  <2>2. pc = "running"
    BY <2>1 DEF AppStore
  <2>3. off \in Word /\ addr[b] \in Nat
    BY <2>2, Running, AddrAssumption, SizeAssumption DEF Word, Mdata, Size
  <2> DEFINE t == [arena |-> b, off |-> off]
             v == addr[b] + off
  <2>4. t \in TargetIn(n)
    BY <2>3 DEF TargetIn, Arenas
  <2>5. v \in Int
    BY <2>3, Consts
  <2>6. t # Volatile /\ v = Value(t, addr)
    <3>1. b # 0
      BY <1>0, Range DEF Arenas
    <3>2. QED
      BY <3>1 DEF Volatile, Value
  <2>7. AppStore(a, w, t, v)
    BY <2>1
  <2> HIDE DEF t, v
  <2>8. Means(v, t, addr, n)
    BY <2>6 DEF Means
  <2>9. QED
    BY <2>4, <2>5, <2>7, <2>8, AppStoreStep
<1>3. CASE StoreVolatile
  <2>0. PICK a \in Arenas, v \in VolatileAddrs : \E w \in PtrWords(a) :
          /\ \A b \in Arenas : ~(addr[b] <= v /\ v < addr[b] + Size)
          /\ AppStore(a, w, Volatile, v)
    BY <1>3 DEF StoreVolatile
  <2>1. PICK w \in PtrWords(a) :
          /\ \A b \in Arenas : ~(addr[b] <= v /\ v < addr[b] + Size)
          /\ AppStore(a, w, Volatile, v)
    BY <2>0
  <2>2. v \in Int /\ Volatile \in TargetIn(n)
    BY AddrAssumption DEF TargetIn
  <2>3. Means(v, Volatile, addr, n)
    BY <2>1 DEF Means, Arenas
  <2>4. QED
    BY <2>1, <2>2, <2>3, AppStoreStep
<1>4. QED
  BY <1>1, <1>2, <1>3

\* The application sets another root.
LEMMA AppSetRootStep ==
  ASSUME IInv, AppSetRoot
  PROVE  IInv' /\ Forward
<1>0. TypeOK /\ CopyInv
  BY DEF IInv
<1>1. /\ pc = "running" /\ stores > 0 /\ stores' = stores - 1
      /\ UNCHANGED <<pm, nvm, log, swizzleState, n, pc, k, addr, offsetTable, rangeTable, sw,
                     target, crashes>>
  BY DEF AppSetRoot, tables
<1>2. PICK a \in Arenas, off \in TargetOff :
        SetRootTo(addr[a] + off) /\ rootTarget' = [arena |-> a, off |-> off]
  BY DEF AppSetRoot
<1>3. off \in Word /\ off > 0
  BY AddrAssumption, SizeAssumption DEF Word, Mdata, Size
<1>4. Disjoint(addr, Arenas) /\ (\A b \in Arenas : addr[b] \in MapAddrs) /\ a \in Arena
  BY <1>1, Running
<1>5. root' = addr[a] + off /\ rootOffset' = (a - 1) * Size + off /\ root' \in Nat /\ rootOffset' \in Nat
  BY <1>0, <1>2, <1>3, <1>4, RootSet
<1>6. rootTarget'.arena = a /\ rootTarget'.off = off /\ rootTarget' \in [arena : Arena, off : Word]
  BY <1>2, <1>3, <1>4
<1>7. Rec' = Rec
  BY <1>1 DEF Rec
<1>8. TypeOK'
  <2>1. stores' \in Nat
    BY <1>0, <1>1 DEF TypeOK
  <2>2. QED
    BY <2>1, <1>0, <1>1, <1>5, <1>6 DEF TypeOK, Arenas
<1>9. CopyInv'
  BY <1>0, <1>1 DEF CopyInv
<1>10. StateInv'
  BY <1>1 DEF IInv, StateInv, Setup, Clearing, Walking, Arenas
<1>11. LogInv'
  BY <1>1 DEF IInv, LogInv, Setup, Clearing, Clean, Arenas
<1>12. TableInv'
  BY <1>1, <1>7 DEF IInv, TableInv, Setup, Walking, Arenas
<1>13. ProgressInv' /\ WalkInv'
  BY <1>1 DEF ProgressInv, WalkInv, Setup, Clearing, Walking
<1>14. BeyondInv'
  BY <1>1 DEF IInv, BeyondInv, Clean, Arenas
<1>15. RootInv'
  BY <1>1, <1>3, <1>5, <1>6 DEF RootInv, Arenas
<1>16. Sem(Rec, n, swizzleState, target)'
  BY <1>1, <1>7 DEF IInv
<1>17. Forward
  BY <1>0, <1>7, ForwardSame
<1>18. QED
  BY <1>8, <1>9, <1>10, <1>11, <1>12, <1>13, <1>14, <1>15, <1>16, <1>17 DEF IInv

\* The heap grows by an arena without pointers.
LEMMA GrowStep ==
  ASSUME IInv, Grow
  PROVE  IInv' /\ Forward
<1>0. TypeOK /\ CopyInv /\ Sem(Rec, n, swizzleState, target) /\ Rec \in [Arena -> Words]
  BY RecType DEF IInv
<1> DEFINE c == n + 1
<1>1. /\ pc = "running" /\ n < MaxArenas /\ n' = c
      /\ UNCHANGED <<log, swizzleState, rootOffset, pc, k, offsetTable, rangeTable, sw, root,
                     target, rootTarget, stores, crashes>>
  BY DEF Grow, tables, app
<1>2. PICK m \in MapAddrs :
        /\ Disjoint([addr EXCEPT ![c] = m], 1..c)
        /\ \A a \in Arenas : \A w \in PtrWords(a) :
              target[a][w] = Volatile => pm[a][Mdata + w] \notin m..(m + Size - 1)
        /\ addr' = [addr EXCEPT ![c] = m]
        /\ StorePersist(c, MapAddr, m)
  BY DEF Grow
<1>3. /\ \A b \in Arenas : /\ b \in Arena /\ Clean(b) /\ Rec[b] = nvm[b] /\ pm[b] = nvm[b]
                           /\ New(Rec)[b] = addr[b] /\ Old(Rec)[b] = addr[b]
                           /\ nvm[b][Delta] = 0 /\ addr[b] \in MapAddrs
      /\ Disjoint(addr, Arenas) /\ k = 1 /\ n \in Arena /\ n \in Nat
  BY <1>0, <1>1, Running, Range
<1>4. /\ c \in Arena /\ c \notin Arenas /\ Arenas' = Arenas \cup {c} /\ c \in Nat
      /\ 1..c = Arenas \cup {c}
  BY <1>1, <1>3, SizeAssumption DEF Arena, Arenas
<1>5. m \in Nat /\ m > 0 /\ m \in Int
  BY AddrNat
<1> HIDE DEF c
<1>6. /\ Clean(c) /\ pm[c] = [w \in Word |-> 0] /\ \A w \in HeapWord : target[c][w] = Nil
  BY <1>4 DEF IInv, BeyondInv
<1>7. /\ pm' \in [Arena -> [Word -> Int]]
      /\ nvm' \in [Arena -> [Word -> Int]]
      /\ CopyInv'
      /\ Rec' \in [Arena -> Words]
      /\ Rec'[c][MapAddr] = m
      /\ \A y \in Word : y # MapAddr => Rec'[c][y] = Rec[c][y]
      /\ \A b \in Arena : b # c => Rec'[b] = Rec[b]
      /\ \A b \in Arena : b # c => pm'[b] = pm[b] /\ nvm'[b] = nvm[b]
  <2>1. log[c] = <<>> \/ swizzleState = SwizzleDone
    BY <1>6 DEF Clean
  <2>2. StorePersist(c, MapAddr, m) /\ UNCHANGED <<log, swizzleState>>
    BY <1>1, <1>2
  <2>3. c \in Arena /\ MapAddr \in Word /\ m \in Int
    BY <1>4, <1>5, Consts
  <2>4. QED
    BY <2>1, <2>2, <2>3, <1>0, StoreClean
<1>8. \A y \in Word : y # MapAddr => Rec'[c][y] = 0
  <2>1. Rec[c] = pm[c]
    BY <1>0, <1>4, <1>6, RecType
  <2>2. QED
    BY <2>1, <1>6, <1>7
<1>9. /\ addr' \in [Arena -> MapAddrs \cup {0}] /\ addr'[c] = m
      /\ \A b \in Arena : b # c => addr'[b] = addr[b]
  BY <1>0, <1>2, <1>4 DEF TypeOK
<1>10. \A b \in Arenas \cup {c} : New(Rec')[b] = addr'[b] /\ Old(Rec')[b] = addr'[b] /\ addr'[b] \in MapAddrs
  <2>1. ASSUME NEW b \in Arenas
        PROVE  New(Rec')[b] = addr'[b] /\ Old(Rec')[b] = addr'[b] /\ addr'[b] \in MapAddrs
    <3>1. b # c /\ b \in Arena
      BY <1>3, <1>4
    <3>2. New(Rec')[b] = New(Rec)[b] /\ Old(Rec')[b] = Old(Rec)[b]
      BY <3>1, <1>7 DEF New, Old
    <3>3. QED
      BY <3>1, <3>2, <1>3, <1>9
  <2>2. New(Rec')[c] = m /\ Old(Rec')[c] = m
    <3>1. Rec'[c][Delta] = 0
      BY <1>8, Consts
    <3>2. QED
      BY <3>1, <1>4, <1>5, <1>7 DEF New, Old
  <2>3. QED
    BY <2>1, <2>2, <1>2, <1>9
<1>11. Disjoint(addr', Arenas') /\ \A b \in Arenas' : addr'[b] \in MapAddrs
  BY <1>2, <1>4, <1>10
<1>12. Sem(Rec, n, swizzleState, target)'
  <2>0. 1..c = Arenas'
    BY <1>4
  <2>1. BaseSem(Rec', c)
    BY <2>0, <1>4, <1>10 DEF BaseSem
  <2>2. Disjoint(Old(Rec'), 1..c) /\ Disjoint(New(Rec'), 1..c)
    BY <1>4, <1>10, <1>11 DEF Disjoint
  <2>3. ApartSem(Rec', c, swizzleState)
    BY <2>2 DEF ApartSem
  <2>4. ProgressSem(Rec', c, swizzleState)
    <3>1. ASSUME NEW b \in 1..c, swizzleState = SwizzleOngoing
          PROVE  Rec'[b][BytesSwizzled] \in ResumePoints(b)
      <4>1. CASE b = c
        <5>1. Rec'[b][BytesSwizzled] = 0
          BY <4>1, <1>8, Consts
        <5>2. QED
          BY <5>1 DEF ResumePoints
      <4>2. CASE b # c
        <5>1. b \in Arenas /\ b \in 1..n
          BY <4>2, <1>4 DEF Arenas
        <5>2. Rec'[b] = Rec[b]
          BY <5>1, <4>2, <1>3, <1>7
        <5>3. QED
          BY <5>1, <5>2, <3>1, <1>0 DEF Sem, ProgressSem
      <4>3. QED
        BY <4>1, <4>2
    <3>2. QED
      BY <3>1 DEF ProgressSem
  <2>5. ASSUME NEW b \in 1..c, NEW y \in PtrWords(b)
        PROVE  target[b][y] \in TargetIn(c) /\ Means(Rec'[b][Mdata + y], target[b][y], addr', c)
    <3>1. CASE b = c
      <4>1. y \in HeapWord /\ Mdata + y \in Word /\ Mdata + y # MapAddr
        BY <3>1, <1>4, PtrWord, HeapWords
      <4>2. target[b][y] = Nil /\ Rec'[b][Mdata + y] = 0
        BY <4>1, <3>1, <1>6, <1>8
      <4>3. Nil # Volatile /\ Nil \in TargetIn(c) /\ Value(Nil, addr') = 0
        BY DEF Nil, Volatile, TargetIn, Value
      <4>4. QED
        BY <4>2, <4>3 DEF Means
    <3>2. CASE b # c
      <4>1. b \in Arenas /\ b \in 1..n /\ b \in Arena
        BY <3>2, <1>3, <1>4 DEF Arenas
      <4>2. Rec'[b] = Rec[b]
        BY <4>1, <3>2, <1>7
      <4> DEFINE v == Rec[b][Mdata + y]
                 t == target[b][y]
                 o == IF swizzleState = SwizzleOngoing /\ y < Rec[b][BytesSwizzled] THEN New(Rec) ELSE Old(Rec)
      <4>3. t \in TargetIn(n) /\ Means(v, t, o, n)
        BY <4>1, <1>0 DEF Sem, PointerSem
      <4>4. \A d \in 1..n : o[d] = addr[d] /\ addr'[d] = addr[d]
        <5>1. \A d \in 1..n : d \in Arenas /\ d \in Arena /\ d # c
          BY <1>3, <1>4 DEF Arenas
        <5>2. QED
          BY <5>1, <1>3, <1>9
      <4>5. v \in Int
        BY <4>1, <1>0, PtrWord, HeapWords DEF Words
      <4>a. t = Volatile => v \notin m..(m + Size - 1)
        BY <4>1, <1>2, <1>3
      <4> HIDE DEF v, t, o
      <4>6. t \in TargetIn(c)
        <5>1. 1..n \subseteq 1..c
          BY <1>4 DEF Arenas
        <5>2. QED
          BY <4>3, <5>1 DEF TargetIn
      <4>7. CASE t = Volatile
        <5>1. \A d \in 1..n : ~(addr'[d] <= v /\ v < addr'[d] + Size)
          BY <4>3, <4>4, <4>7 DEF Means
        <5>2. ~(addr'[c] <= v /\ v < addr'[c] + Size)
          BY <4>5, <4>7, <4>a, <1>5, <1>9, Consts
        <5>3. \A d \in 1..c : d \in 1..n \/ d = c
          BY <1>4 DEF Arenas
        <5>4. Means(v, t, addr', c)
          BY <5>1, <5>2, <5>3, <4>7 DEF Means
        <5>5. QED
          BY <5>4, <4>2, <4>6 DEF v, t
      <4>8. CASE t # Volatile
        <5>1. v = Value(t, o)
          BY <4>3, <4>8 DEF Means
        <5>2. Value(t, o) = Value(t, addr')
          BY <4>3, <4>4, <4>8 DEF Value, TargetIn, Nil
        <5>3. Means(v, t, addr', c)
          BY <5>1, <5>2, <4>8 DEF Means
        <5>4. QED
          BY <5>3, <4>2, <4>6 DEF v, t
      <4>9. QED
        BY <4>7, <4>8
    <3>3. QED
      BY <3>1, <3>2
  <2>6. PointerSem(Rec', c, swizzleState, target)
    <3>1. ASSUME NEW b \in 1..c, NEW y \in PtrWords(b)
          PROVE  Means(Rec'[b][Mdata + y], target[b][y], New(Rec'), c)
                 /\ Means(Rec'[b][Mdata + y], target[b][y], Old(Rec'), c)
      <4> DEFINE v == Rec'[b][Mdata + y]
                 t == target[b][y]
                 m1 == addr'
                 m2 == New(Rec')
                 m3 == Old(Rec')
      <4>1. t \in TargetIn(c) /\ Means(v, t, m1, c)
        BY <2>5
      <4>2. \A d \in 1..c : m1[d] = m2[d] /\ m1[d] = m3[d]
        BY <1>4, <1>10
      <4> HIDE DEF v, t, m1, m2, m3
      <4>3. Means(v, t, m2, c) /\ Means(v, t, m3, c)
        BY <4>1, <4>2, <1>4, MeansSame
      <4>4. QED
        BY <4>3 DEF v, t, m2, m3
    <3>2. QED
      BY <3>1, <2>5 DEF PointerSem
  <2>7. Sem(Rec', c, swizzleState, target)
    BY <2>1, <2>3, <2>4, <2>6 DEF Sem
  <2>8. QED
    BY <2>7, <1>1
<1>13. TypeOK'
  <2>1. k' \in Arenas'
    BY <1>0, <1>1, <1>4 DEF TypeOK
  <2>2. n' \in Arena
    BY <1>1, <1>4
  <2>3. QED
    BY <2>1, <2>2, <1>0, <1>1, <1>7, <1>9 DEF TypeOK
<1>14. BeyondInv'
  BY <1>1, <1>4, <1>7 DEF IInv, BeyondInv, Clean
<1>15. StateInv'
  BY <1>1, <1>3, <1>11 DEF IInv, StateInv, Setup, Clearing, Walking
<1>16. LogInv'
  <2>1. \A b \in Arenas' : Clean(b)'
    BY <1>1, <1>3, <1>4, <1>6 DEF Clean
  <2>2. nvm'[c][Delta] = 0
    <3>1. /\ nvm[c] \in Words /\ nvm' = [nvm EXCEPT ![c] = [nvm[c] EXCEPT ![MapAddr] = m]]
          /\ nvm \in [Arena -> Words]
      BY <1>0, <1>2, <1>4 DEF StorePersist, TypeOK, Words
    <3>2. nvm[c] = pm[c]
      BY <1>0, <1>4, <1>6, RecType
    <3>3. nvm'[c][Delta] = nvm[c][Delta]
      BY <3>1, <1>4, Consts DEF Words
    <3>4. QED
      BY <3>2, <3>3, <1>6, Consts
  <2>3. \A b \in Arenas' : nvm'[b][Delta] = 0
    BY <2>2, <1>3, <1>4, <1>7
  <2>4. QED
    BY <2>1, <2>3, <1>1 DEF LogInv, Setup, Clearing
<1>17. TableInv'
  BY <1>1, <1>4, <1>10 DEF TableInv, Setup, Walking
<1>18. ProgressInv' /\ WalkInv'
  BY <1>1 DEF ProgressInv, WalkInv, Setup, Clearing, Walking
<1>19. RootInv'
  <2>1. rootTarget.arena \in Arenas /\ rootTarget.arena \in Arena /\ rootTarget.arena # c
    BY <1>3, <1>4 DEF IInv, RootInv
  <2>2. QED
    BY <2>1, <1>1, <1>4, <1>9 DEF IInv, RootInv
<1>20. Forward
  <2>1. \A b \in Arenas : Rec'[b][BytesSwizzled] = Rec[b][BytesSwizzled] /\ Rec[b][BytesSwizzled] \in Int
    BY <1>0, <1>3, <1>4, <1>7, Consts DEF Words
  <2>2. QED
    BY <2>1 DEF Forward
<1>21. QED
  BY <1>7, <1>12, <1>13, <1>14, <1>15, <1>16, <1>17, <1>18, <1>19, <1>20 DEF IInv

\* A crash loses at most words that are logged.
LEMMA CrashStep ==
  ASSUME IInv, Crash
  PROVE  IInv' /\ Forward
<1>0. TypeOK /\ CopyInv
  BY DEF IInv
<1>1. /\ crashes > 0 /\ crashes' = crashes - 1 /\ pc' = "down" /\ k' = 1 /\ addr' = NoMap
      /\ offsetTable' = NoTable /\ rangeTable' = NoTable /\ sw' = [a \in Arena |-> Idle0] /\ root' = 0
      /\ UNCHANGED <<log, swizzleState, rootOffset, n, target, rootTarget, stores>>
      /\ pm' = nvm'
  BY DEF Crash, app
<1>2. PICK kept \in SUBSET {aw \in Arena \X Word : pm[aw[1]][aw[2]] # nvm[aw[1]][aw[2]]} :
        nvm' = [a \in Arena |-> [w \in Word |-> IF <<a, w>> \in kept THEN pm[a][w] ELSE nvm[a][w]]]
  BY DEF Crash
<1>3. \A a \in Arena : \A w \in Word : nvm'[a][w] = pm[a][w] \/ nvm'[a][w] = nvm[a][w]
  BY <1>2
<1>4. nvm' \in [Arena -> Words] /\ nvm \in [Arena -> Words] /\ pm \in [Arena -> Words]
  <2>1. nvm \in [Arena -> Words] /\ pm \in [Arena -> Words]
    BY <1>0 DEF TypeOK, Words
  <2>2. \A a \in Arena : [w \in Word |-> IF <<a, w>> \in kept THEN pm[a][w] ELSE nvm[a][w]] \in Words
    BY <2>1 DEF Words
  <2>3. QED
    BY <2>1, <2>2, <1>2
<1>5. \A a \in Arena : \A w \in Word : pm[a][w] = nvm[a][w] => nvm'[a][w] = nvm[a][w]
  BY <1>3
<1>6. Rec' = Rec
  <2>1. CASE swizzleState = SwizzleDone
    <3>1. \A a \in Arena : pm[a] = nvm[a]
      BY <2>1, <1>0, RecType
    <3>2. \A a \in Arena : nvm'[a] = nvm[a]
      BY <3>1, <1>4, <1>5 DEF Words
    <3>3. QED
      BY <3>2, <2>1, <1>1 DEF Rec
  <2>2. CASE swizzleState # SwizzleDone
    <3>1. ASSUME NEW a \in Arena
          PROVE  Rest(log[a], nvm'[a]) = Rest(log[a], nvm[a])
      <4>1. nvm'[a] \in Words /\ nvm[a] \in Words /\ log[a] \in Seq(Entry)
        BY <1>0, <1>4 DEF TypeOK, Entry
      <4>2. \A w \in Word : w \notin In(log[a]) => nvm'[a][w] = nvm[a][w]
        BY <1>0, <1>5, RecType
      <4>3. QED
        BY <4>1, <4>2, RestOver
    <3>2. QED
      BY <3>1, <2>2, <1>1 DEF Rec
  <2>3. QED
    BY <2>1, <2>2
<1>7. TypeOK'
  <2>1. NoMap \in [Arena -> MapAddrs \cup {0}] /\ NoTable \in [Arena -> Int]
    BY DEF NoMap, NoTable
  <2>2. Idle0 \in SwizzlerState
    BY Consts DEF Idle0, SwizzlerState
  <2>3. crashes' \in Nat /\ root' \in Nat
    BY <1>0, <1>1 DEF TypeOK
  <2>4. k' \in Arenas'
    BY <1>0, <1>1, Range DEF Arenas
  <2>5. sw' \in [Arena -> SwizzlerState] /\ pc' \in PCs
    BY <2>2, <1>1 DEF PCs
  <2>6. nvm' \in [Arena -> [Word -> Int]] /\ pm' \in [Arena -> [Word -> Int]]
    BY <1>1, <1>4 DEF Words
  <2>7. QED
    BY <2>1, <2>3, <2>4, <2>5, <2>6, <1>0, <1>1 DEF TypeOK
<1>8. CopyInv'
  BY <1>0, <1>1 DEF CopyInv
<1>9. BeyondInv'
  <2>1. ASSUME NEW a \in Arena \ Arenas
        PROVE  pm'[a] = pm[a]
    <3>1. pm[a] = nvm[a]
      BY <1>0, RecType DEF IInv, BeyondInv
    <3>2. nvm'[a] \in Words /\ nvm[a] \in Words
      BY <1>4
    <3>3. nvm'[a] = nvm[a]
      BY <3>1, <3>2, <1>5 DEF Words
    <3>4. QED
      BY <3>1, <3>3, <1>1
  <2>2. Arenas' = Arenas
    BY <1>1 DEF Arenas
  <2>3. QED
    BY <2>1, <2>2, <1>1 DEF IInv, BeyondInv, Clean
<1>10. StateInv'
  BY <1>1 DEF StateInv, Setup, Clearing, Walking
<1>11. LogInv'
  BY <1>1 DEF LogInv, Setup, Clearing
<1>12. TableInv' /\ ProgressInv' /\ WalkInv'
  BY <1>1 DEF TableInv, ProgressInv, WalkInv, Setup, Clearing, Walking
<1>13. RootInv'
  BY <1>1 DEF IInv, RootInv, Arenas
<1>14. Sem(Rec, n, swizzleState, target)'
  BY <1>1, <1>6 DEF IInv
<1>15. Forward
  BY <1>0, <1>6, ForwardSame
<1>16. QED
  BY <1>7, <1>8, <1>9, <1>10, <1>11, <1>12, <1>13, <1>14, <1>15 DEF IInv

------------------------------------------------------------------------------
(* The initial states and the steps together.                              *)

\* A file that was closed in an orderly way satisfies the invariant.
LEMMA InitStep ==
  ASSUME Init
  PROVE  IInv
<1>1. PICK f \in Files : InitFrom(f)
  BY DEF Init
<1> DEFINE num == Len(f.map)
           as  == 1..num
           mem == [a \in Arena |-> [w \in Word |->
                    IF a \notin DOMAIN f.map THEN 0
                    ELSE IF w = MapAddr THEN f.map[a]
                    ELSE IF w < Mdata THEN 0
                    ELSE Value(f.target[a][w - Mdata], f.map)]]
<1>2. /\ f.map \in Seq(MapAddrs) /\ num \in Arena
      /\ Disjoint(f.map, as)
      /\ f.root \in [arena : as, off : Mdata..(Size - 1)]
      /\ f.target \in [Arena -> [0..(AllocSize - 1) -> {Nil} \cup [arena : as, off : Word]]]
      /\ \A a \in Arena \ as : \A w \in 0..(AllocSize - 1) : f.target[a][w] = Nil
      /\ f.crashes \in Nat /\ f.stores \in Nat
  BY FileAssumption
<1>3. /\ pm = mem /\ nvm = pm
      /\ log = [a \in Arena |-> <<>>] /\ swizzleState = SwizzleDone
      /\ rootOffset = (f.root.arena - 1) * Size + f.root.off
      /\ n = num /\ pc = "running" /\ k = 1
      /\ addr = [a \in Arena |-> IF a \in DOMAIN f.map THEN f.map[a] ELSE 0]
      /\ offsetTable = NoTable /\ rangeTable = NoTable
      /\ sw = [a \in Arena |-> Idle0]
      /\ root = f.map[f.root.arena] + f.root.off
      /\ target = f.target /\ rootTarget = f.root
      /\ crashes = f.crashes /\ stores = f.stores
  BY <1>1 DEF InitFrom
<1>4. /\ num \in Nat /\ num >= 1 /\ as \subseteq Arena /\ DOMAIN f.map = as
      /\ Arenas = as
      /\ \A a \in as : f.map[a] \in MapAddrs /\ f.map[a] \in Nat /\ f.map[a] > 0
  <2>1. num \in Nat /\ num >= 1 /\ as \subseteq Arena
    BY <1>2, Consts DEF Arena
  <2>2. DOMAIN f.map = as /\ \A a \in as : f.map[a] \in MapAddrs
    BY <1>2
  <2>3. Arenas = as
    BY <1>3 DEF Arenas
  <2>4. QED
    BY <2>1, <2>2, <2>3, AddrNat
<1>5. \A a \in as : addr[a] = f.map[a]
  BY <1>3, <1>4
<1>6. \A a \in Arena \ as : addr[a] = 0
  BY <1>3, <1>4
<1>7. ASSUME NEW a \in Arena, NEW w \in HeapWord
      PROVE  /\ f.target[a][w] \in TargetIn(num) /\ f.target[a][w] # Volatile
             /\ f.target[a][w] \in Target
             /\ Value(f.target[a][w], f.map) \in Int
  <2> DEFINE t == f.target[a][w]
  <2>1. t \in {Nil} \cup [arena : as, off : Word]
    BY <1>2 DEF HeapWord
  <2> HIDE DEF t
  <2>2. CASE t = Nil
    BY <2>2 DEF TargetIn, Nil, Volatile, Target, Value, t
  <2>3. CASE t \in [arena : as, off : Word]
    <3>1. t.arena \in as /\ t.off \in Word /\ t.arena # 0 /\ t.arena \in Arena
      BY <2>3, <1>4
    <3>2. t # Volatile
      BY <3>1 DEF Volatile
    <3>3. Value(t, f.map) \in Int
      <4>1. f.map[t.arena] \in Nat /\ t.off \in Nat
        BY <3>1, <1>4, Consts
      <4>2. Value(t, f.map) = f.map[t.arena] + t.off
        BY <3>1 DEF Value
      <4>3. QED
        BY <4>1, <4>2
    <3>4. t \in TargetIn(num) /\ t \in Target
      BY <2>3, <1>4 DEF TargetIn, Target
    <3>5. QED
      BY <3>2, <3>3, <3>4 DEF t
  <2>4. QED
    BY <2>1, <2>2, <2>3
<1>8. \A a \in Arena : \A w \in Word :
        mem[a][w] = IF a \notin as THEN 0
                    ELSE IF w = MapAddr THEN f.map[a]
                    ELSE IF w < Mdata THEN 0
                    ELSE Value(f.target[a][w - Mdata], f.map)
  BY <1>4
<1>9. mem \in [Arena -> Words]
  <2>1. ASSUME NEW a \in Arena, NEW w \in Word
        PROVE  mem[a][w] \in Int
    <3>1. CASE a \notin as
      BY <3>1, <1>8
    <3>2. CASE a \in as /\ w = MapAddr
      BY <3>2, <1>4, <1>8
    <3>3. CASE a \in as /\ w # MapAddr /\ w < Mdata
      BY <3>3, <1>8
    <3>4. CASE a \in as /\ w # MapAddr /\ ~(w < Mdata)
      <4>1. w - Mdata \in HeapWord
        BY <3>4, Consts DEF Word, HeapWord, Mdata
      <4>2. mem[a][w] = Value(f.target[a][w - Mdata], f.map)
        BY <3>4, <1>8
      <4>3. QED
        BY <4>1, <4>2, <1>7
    <3>5. QED
      BY <3>1, <3>2, <3>3, <3>4
  <2>2. QED
    BY <2>1 DEF Words
<1>10. \A a \in as : /\ mem[a][MapAddr] = f.map[a] /\ mem[a][Delta] = 0 /\ mem[a][BytesSwizzled] = 0
  <2>1. Delta < Mdata /\ BytesSwizzled < Mdata
    BY DEF Delta, BytesSwizzled, Mdata
  <2>2. QED
    BY <2>1, <1>4, <1>8, Consts
<1>11. \A a \in as : \A w \in HeapWord : mem[a][Mdata + w] = Value(f.target[a][w], f.map)
  <2>1. \A w \in HeapWord : /\ Mdata + w \in Word /\ Mdata + w # MapAddr /\ ~(Mdata + w < Mdata)
                            /\ (Mdata + w) - Mdata = w
    BY HeapWords DEF Mdata
  <2>2. QED
    BY <2>1, <1>4, <1>8
<1> HIDE DEF mem
<1>12. Rec = mem
  <2>1. Rec = [a \in Arena |-> mem[a]]
    BY <1>3 DEF Rec
  <2>2. QED
    BY <2>1, <1>9
<1>13. \A a \in as : New(mem)[a] = f.map[a] /\ Old(mem)[a] = f.map[a]
  BY <1>4, <1>10 DEF New, Old
<1>14. \A a \in Arena : Clean(a) /\ log[a] = <<>>
  BY <1>3 DEF Clean
<1>15. f.root.arena \in as /\ f.root.off \in Word /\ f.root.off > 0 /\ f.root.arena \in Arena
  BY <1>2, <1>4, Consts DEF Word, Mdata
<1>16. rootOffset \in Nat /\ root \in Nat
  <2> DEFINE c == f.root.arena
             off == f.root.off
  <2>1. c \in 1..num /\ off \in Word /\ f.map[c] \in Nat /\ num \in Nat
    BY <1>4, <1>15
  <2>2. rootOffset = (c - 1) * Size + off /\ root = f.map[c] + off
    BY <1>3
  <2> HIDE DEF c, off, num
  <2>3. c - 1 \in Nat /\ Size \in Nat /\ off \in Nat
    BY <2>1, Consts
  <2>4. (c - 1) * Size \in Nat
    BY <2>3
  <2>5. QED
    BY <2>1, <2>2, <2>3, <2>4
<1>17. TypeOK
  <2>1. log \in [Arena -> Seq([off : Word, val : Int])]
    BY <1>3
  <2>2. NoTable \in [Arena -> Int]
    BY DEF NoTable
  <2>3. addr \in [Arena -> MapAddrs \cup {0}]
    BY <1>3, <1>4
  <2>4. sw \in [Arena -> SwizzlerState]
    BY <1>3, Consts DEF Idle0, SwizzlerState
  <2>5. target \in [Arena -> [0..(AllocSize - 1) -> Target]]
    BY <1>2, <1>3, <1>7 DEF HeapWord
  <2>6. rootTarget \in [arena : Arena, off : Word]
    BY <1>2, <1>3, <1>15
  <2>7. pm \in [Arena -> [Word -> Int]] /\ nvm \in [Arena -> [Word -> Int]]
    BY <1>3, <1>9 DEF Words
  <2>8. n \in Arena /\ k \in Arenas
    BY <1>2, <1>3, <1>4
  <2>9. QED
    BY <2>1, <2>2, <2>3, <2>4, <2>5, <2>6, <2>7, <2>8, <1>2, <1>3, <1>16 DEF TypeOK, PCs
<1>18. CopyInv
  <2>1. \A a \in Arena : Distinct(log[a])
    BY <1>14 DEF Distinct
  <2>2. QED
    BY <2>1, <1>3 DEF CopyInv
<1>19. BeyondInv
  <2>1. ASSUME NEW a \in Arena \ Arenas
        PROVE  pm[a] = [w \in Word |-> 0]
    <3>1. \A w \in Word : mem[a][w] = 0
      BY <1>4, <1>8 DEF mem
    <3>2. mem[a] \in Words
      BY <1>9
    <3>3. QED
      BY <3>1, <3>2, <1>3 DEF Words
  <2>2. QED
    BY <2>1, <1>2, <1>3, <1>4, <1>14 DEF BeyondInv, HeapWord
<1>20. Sem(Rec, n, swizzleState, target)
  <2>1. BaseSem(mem, num)
    BY <1>4, <1>13 DEF BaseSem
  <2>2. ApartSem(mem, num, SwizzleDone)
    BY <1>2, <1>13, Consts DEF ApartSem, Disjoint
  <2>3. ProgressSem(mem, num, SwizzleDone)
    BY Consts DEF ProgressSem
  <2>4. ASSUME NEW a \in as, NEW w \in PtrWords(a)
        PROVE  /\ f.target[a][w] \in TargetIn(num)
               /\ Means(mem[a][Mdata + w], f.target[a][w], Old(mem), num)
    <3> DEFINE t == f.target[a][w]
               v == mem[a][Mdata + w]
               m1 == f.map
               m2 == Old(mem)
    <3>1. a \in Arena /\ w \in HeapWord
      BY <1>4, PtrWord
    <3>2. t \in TargetIn(num) /\ t # Volatile /\ v = Value(t, m1)
      BY <3>1, <1>7, <1>11
    <3>3. \A b \in 1..num : m1[b] = m2[b]
      BY <1>13
    <3> HIDE DEF t, v, m1, m2
    <3>4. Means(v, t, m1, num)
      BY <3>2 DEF Means
    <3>5. Means(v, t, m2, num)
      BY <3>2, <3>3, <3>4, <1>4, MeansSame
    <3>6. QED
      BY <3>2, <3>5 DEF t, v, m2
  <2>5. PointerSem(mem, num, SwizzleDone, f.target)
    BY <2>4, Consts DEF PointerSem
  <2>6. Sem(mem, num, SwizzleDone, f.target)
    BY <2>1, <2>2, <2>3, <2>5 DEF Sem
  <2>7. QED
    BY <2>6, <1>3, <1>12
<1>21. StateInv
  <2>1. Disjoint(addr, Arenas) /\ \A a \in Arenas : addr[a] \in MapAddrs
    BY <1>2, <1>4, <1>5 DEF Disjoint
  <2>2. QED
    BY <2>1, <1>3, Consts DEF StateInv, Setup, Clearing, Walking
<1>22. LogInv
  <2>1. \A b \in Arenas : Clean(b) /\ nvm[b][Delta] = 0
    BY <1>3, <1>4, <1>10, <1>14
  <2>2. QED
    BY <2>1, <1>3 DEF LogInv, Setup, Clearing
<1>23. TableInv
  <2>1. \A b \in Arenas : New(Rec)[b] = addr[b]
    BY <1>4, <1>5, <1>12, <1>13
  <2>2. QED
    BY <2>1, <1>3 DEF TableInv, Setup, Walking
<1>24. ProgressInv /\ WalkInv
  BY <1>3 DEF ProgressInv, WalkInv, Setup, Clearing, Walking
<1>25. RootInv
  BY <1>3, <1>4, <1>5, <1>15 DEF RootInv
<1>26. QED
  BY <1>17, <1>18, <1>19, <1>20, <1>21, <1>22, <1>23, <1>24, <1>25 DEF IInv

\* A step that changes nothing.
LEMMA Stutter ==
  ASSUME IInv, UNCHANGED vars
  PROVE  IInv' /\ Forward
<1>1. UNCHANGED <<pm, nvm, log, swizzleState, rootOffset, n, pc, k, addr, offsetTable, rangeTable,
                  sw, root, target, rootTarget, crashes, stores>>
  BY DEF vars
<1>2. Rec' = Rec
  BY <1>1 DEF Rec
<1>3. TypeOK'
  BY <1>1 DEF IInv, TypeOK, Arenas
<1>4. CopyInv' /\ BeyondInv'
  BY <1>1 DEF IInv, CopyInv, BeyondInv, Clean, Arenas
<1>5. StateInv'
  BY <1>1 DEF IInv, StateInv, Arenas
<1>6. LogInv'
  <2>1. \A b : (Clean(b)' <=> Clean(b)) /\ (Cleared(b)' <=> Cleared(b))
    BY <1>1 DEF Clean, Cleared
  <2>2. LogInv
    BY DEF IInv
  <2>3. QED
    BY <1>1, <1>2, <2>1, <2>2 DEF LogInv, Arenas
<1>7. TableInv'
  BY <1>1, <1>2 DEF IInv, TableInv, Arenas
<1>8. ProgressInv'
  BY <1>1, <1>2 DEF IInv, ProgressInv, Arenas
<1>9. WalkInv'
  BY <1>1, <1>2 DEF IInv, WalkInv, SwInv, Clean, Arenas
<1>10. RootInv'
  BY <1>1 DEF IInv, RootInv, Arenas
<1>11. Sem(Rec, n, swizzleState, target)'
  BY <1>1, <1>2 DEF IInv
<1>12. Forward
  BY <1>2, ForwardSame DEF IInv
<1>13. QED
  BY <1>3, <1>4, <1>5, <1>6, <1>7, <1>8, <1>9, <1>10, <1>11, <1>12 DEF IInv

\* A goroutine that swizzles an arena.
LEMMA SwizzlerStep ==
  ASSUME IInv, ResumableLayout, NEW a \in Arenas, Swizzler(a)
  PROVE  IInv' /\ Forward
<1>1. CASE LogProgress(a)
  BY <1>1, LogProgressStep
<1>2. CASE LogPtr(a)
  BY <1>2, LogPtrStep
<1>3. CASE StorePtr(a)
  BY <1>3, StorePtrStep
<1>4. CASE CommitPtr(a)
  BY <1>4, CommitPtrStep
<1>5. CASE Finish(a)
  BY <1>5, FinishStep
<1>6. QED
  BY <1>1, <1>2, <1>3, <1>4, <1>5 DEF Swizzler

\* The goroutine that runs PmemInit.
LEMMA MainStep ==
  ASSUME IInv, Main
  PROVE  IInv' /\ Forward
<1>1. CASE MapArenas
  BY <1>1, MapArenasStep
<1>2. CASE RevertStore \/ RevertSetup \/ RevertOngoing
  BY <1>2, RevertStoreStep, RevertSetupStep, RevertOngoingStep
<1>3. CASE Complete \/ Start
  BY <1>3, SpawnStep
<1>4. CASE Completed \/ Swizzled
  BY <1>4, JoinStep
<1>5. CASE CompleteLog \/ ClearLog
  BY <1>5, LogDeltaStep
<1>6. CASE CompleteDelta \/ ClearDelta
  BY <1>6, ClearDeltaStep
<1>7. CASE SetDone
  BY <1>7, SetDoneStep
<1>8. CASE Prepare \/ PrepareTables
  BY <1>8, PrepareStep, PrepareTablesStep
<1>9. CASE SetSetup \/ SetupLogMap \/ SetupLogDelta
  BY <1>9, SetSetupStep, SetupLogMapStep, SetupLogDeltaStep
<1>10. CASE SetupStore \/ SetupCommit
  BY <1>10, SetupStoreStep, SetupCommitStep
<1>11. CASE SetOngoing \/ CallBack
  BY <1>11, SetOngoingStep, CallBackStep
<1>12. CASE FinalReset \/ SetRoot
  BY <1>12, FinalResetStep, SetRootStep
<1>13. QED
  BY <1>1, <1>2, <1>3, <1>4, <1>5, <1>6, <1>7, <1>8, <1>9, <1>10, <1>11, <1>12 DEF Main

\* Every step preserves the invariant and the recorded progress.
LEMMA NextStep ==
  ASSUME IInv, ResumableLayout, [Next]_vars
  PROVE  IInv' /\ Forward
<1>1. CASE Main
  BY <1>1, MainStep
<1>2. ASSUME NEW a \in Arenas, Swizzler(a)
      PROVE  IInv' /\ Forward
  BY <1>2, SwizzlerStep
<1>3. CASE StoreNil \/ StorePointer \/ StoreVolatile
  BY <1>3, StoreSteps
<1>4. CASE AppSetRoot \/ Grow
  BY <1>4, AppSetRootStep, GrowStep
<1>5. CASE Compute \/ UNCHANGED vars
  BY <1>5, Stutter DEF Compute
<1>6. CASE Crash
  BY <1>6, CrashStep
<1>7. QED
  BY <1>1, <1>2, <1>3, <1>4, <1>5, <1>6 DEF Next, Application

------------------------------------------------------------------------------
(* What the invariant says of each property.                               *)

\* Rec is Recovered, of all arenas.
LEMMA RecIs ==
  ASSUME NEW a \in Arena
  PROVE  Recovered(a) = Rec[a]
BY DEF Recovered, Rec, Restored, Rest, LoggedIn, In, LoggedVal, LastVal

\* An entry of the log is free wherever logEntry is called.
LEMMA InvLogRoom ==
  ASSUME IInv
  PROVE  LogRoom
<1>0. TypeOK /\ CopyInv
  BY DEF IInv
<1>1. \A a \in Arena : log[a] \in Seq(Entry) /\ Distinct(log[a])
  BY <1>0 DEF TypeOK, CopyInv, Entry
<1>2. ASSUME NEW a \in Arena, Clean(a)
      PROVE  Len(log[a]) < MaxLogEntries
  BY <1>2, SizeAssumption DEF Clean
<1>3. ASSUME NEW a \in Arena, NEW off, In(log[a]) = {off}
      PROVE  Len(log[a]) < MaxLogEntries
  BY <1>1, <1>3, OneEntry
<1>4. k \in Arenas /\ k \in Arena /\ \A a \in Arenas : a \in Arena
  BY <1>0, Range
<1>5. ASSUME pc \in {"completeLog", "clearLog"}
      PROVE  Len(log[k]) < MaxLogEntries
  BY <1>2, <1>4, <1>5 DEF IInv, LogInv
<1>6. ASSUME pc = "setupLogMap"
      PROVE  Len(log[k]) < MaxLogEntries
  BY <1>2, <1>4, <1>6 DEF IInv, LogInv
<1>7. ASSUME pc = "setupLogDelta"
      PROVE  Len(log[k]) < MaxLogEntries
  BY <1>3, <1>4, <1>7 DEF IInv, LogInv
<1>8. ASSUME NEW a \in Arenas, sw[a].pc \in {"walk", "logPtr"}
      PROVE  Len(log[a]) < MaxLogEntries
  <2>1. SwInv(a)
    BY <1>8, Walks
  <2>2. Clean(a) \/ In(log[a]) = {BytesSwizzled}
    BY <2>1, <1>8 DEF SwInv
  <2>3. QED
    BY <2>2, <1>2, <1>3, <1>4
<1>9. QED
  BY <1>5, <1>6, <1>7, <1>8 DEF LogRoom

\* The recovered pointers are relative to the address that the progress selects.
LEMMA InvRecoverable ==
  ASSUME IInv
  PROVE  Recoverable
<1>0. TypeOK /\ n \in Nat /\ Sem(Rec, n, swizzleState, target)
  BY Range DEF IInv
<1>1. \A b \in Arenas : /\ b \in Arena /\ Recovered(b) = Rec[b]
                        /\ OldBase[b] = Old(Rec)[b] /\ NewBase[b] = New(Rec)[b]
  <2>1. \A b \in Arenas : b \in Arena /\ Recovered(b) = Rec[b]
    BY <1>0, Range, RecIs
  <2>2. QED
    BY <2>1 DEF OldBase, NewBase, Old, New
<1>2. ASSUME NEW a \in Arenas, NEW w \in PtrWords(a)
      PROVE  Denotes(Recovered(a)[Mdata + w], target[a][w],
                     IF swizzleState = SwizzleOngoing /\ w < Recovered(a)[BytesSwizzled]
                     THEN NewBase ELSE OldBase)
  <2> DEFINE v == Rec[a][Mdata + w]
             t == target[a][w]
             c == swizzleState = SwizzleOngoing /\ w < Rec[a][BytesSwizzled]
             m1 == IF c THEN New(Rec) ELSE Old(Rec)
             m2 == IF c THEN NewBase ELSE OldBase
  <2>1. t \in TargetIn(n) /\ Means(v, t, m1, n)
    BY <1>0 DEF Sem, PointerSem, Arenas
  <2>2. \A b \in 1..n : m1[b] = m2[b]
    BY <1>1 DEF Arenas
  <2>3. Recovered(a) = Rec[a]
    BY <1>1
  <2> HIDE DEF v, t, m1, m2
  <2>4. Means(v, t, m2, n)
    BY <2>1, <2>2, <1>0, MeansSame
  <2>5. Denotes(v, t, m2)
    BY <2>4 DEF Means, Denotes, Arenas
  <2>6. QED
    BY <2>3, <2>5 DEF v, t, m2
<1>3. QED
  BY <1>2 DEF Recoverable

\* While the application runs, the words it sees are the recovered ones, relative to
\* the addresses of this run.
LEMMA InvPointers ==
  ASSUME IInv
  PROVE  PointersPreserved
<1> SUFFICES ASSUME pc = "running", NEW a \in Arenas, NEW w \in PtrWords(a)
             PROVE  Denotes(pm[a][Mdata + w], target[a][w], addr)
  BY DEF PointersPreserved
<1>0. TypeOK /\ n \in Nat /\ Sem(Rec, n, swizzleState, target)
  BY Range DEF IInv
<1> DEFINE v == Rec[a][Mdata + w]
           t == target[a][w]
           m == IF swizzleState = SwizzleOngoing /\ w < Rec[a][BytesSwizzled] THEN New(Rec) ELSE Old(Rec)
<1>1. t \in TargetIn(n) /\ Means(v, t, m, n)
  BY <1>0 DEF Sem, PointerSem, Arenas
<1>2. pm[a][Mdata + w] = v
  BY Running
<1>3. \A b \in 1..n : m[b] = addr[b]
  BY Running DEF Arenas
<1> HIDE DEF v, t, m
<1>4. Means(v, t, addr, n)
  BY <1>0, <1>1, <1>3, MeansSame
<1>5. Denotes(v, t, addr)
  BY <1>4 DEF Means, Denotes, Arenas
<1>6. QED
  BY <1>2, <1>5 DEF t

\* When all arenas are swizzled, no pointer to volatile memory is left.
LEMMA InvVolatile ==
  ASSUME IInv
  PROVE  VolatileDropped
<1> SUFFICES ASSUME pc = "setRoot", NEW a \in Arenas, NEW w \in PtrWords(a), target[a][w] = Volatile
             PROVE  pm[a][Mdata + w] = 0
  BY DEF VolatileDropped
<1>0. TypeOK /\ CopyInv /\ a \in Arena
  BY Range DEF IInv
<1>1. Rec[a][BytesSwizzled] = AllocSize /\ w \in Nat /\ w < AllocSize
  BY <1>0, PtrWord, HeapWords DEF IInv, ProgressInv
<1>2. Rec[a][Mdata + w] = 0
  BY <1>1 DEF IInv, ProgressInv
<1>3. Clean(a)
  BY DEF IInv, LogInv
<1>4. Rec[a] = nvm[a] /\ pm[a] = nvm[a]
  BY <1>0, <1>3, RecType
<1>5. QED
  BY <1>2, <1>4

\* The root offset always leads to the object given to SetRoot.
LEMMA RootLeads ==
  ASSUME IInv
  PROVE  ComputeRootAddr(rootOffset) = Value(rootTarget, addr)
<1> DEFINE c == rootTarget.arena
           off == rootTarget.off
<1>0. TypeOK /\ c \in Arenas /\ off \in Word /\ rootOffset = (c - 1) * Size + off
  BY DEF IInv, RootInv, TypeOK
<1>1. Value(rootTarget, addr) = addr[c] + off
  <2>1. c # 0
    BY <1>0, Range DEF Arenas
  <2>2. QED
    BY <2>1 DEF Value
<1> HIDE DEF c, off
<1>2. QED
  BY <1>0, <1>1, RootFound

\* The root of a run is the object given to SetRoot.
LEMMA InvRoot ==
  ASSUME IInv
  PROVE  RootPreserved
<1>1. ASSUME pc = "running"
      PROVE  root = Value(rootTarget, addr)
  <2>1. TypeOK /\ rootTarget.arena \in Arenas /\ root = addr[rootTarget.arena] + rootTarget.off
    BY <1>1 DEF IInv, RootInv
  <2>2. rootTarget.arena # 0
    BY <2>1, Range DEF Arenas
  <2>3. QED
    BY <2>1, <2>2 DEF Value
<1>2. QED
  BY <1>1, RootLeads DEF RootPreserved

\* In AppCallBack every pointer is still relative to the old addresses.
LEMMA InvCallBack ==
  ASSUME IInv
  PROVE  CallBackBeforeSwizzle
<1> SUFFICES ASSUME pc = "callback"
             PROVE  \A a \in Arenas : \A w \in PtrWords(a) :
                      LET v == pm[a][Mdata + w]
                      IN  target[a][w] # Volatile =>
                            (IF v = 0 THEN 0 ELSE SwizzlePointer(v)) = Value(target[a][w], addr)
  BY RootLeads DEF CallBackBeforeSwizzle
<1>0. /\ TypeOK /\ CopyInv /\ n \in Arena /\ n \in Nat /\ Sem(Rec, n, swizzleState, target)
      /\ Rec \in [Arena -> Words]
  BY Range, RecType DEF IInv, TypeOK
<1>1. /\ swizzleState = SwizzleOngoing
      /\ \A b \in Arenas : /\ b \in Arena /\ Clean(b) /\ New(Rec)[b] = addr[b]
                           /\ rangeTable[b] = Old(Rec)[b] /\ offsetTable[b] = Rec[b][Delta]
                           /\ Rec[b][BytesSwizzled] = 0
  BY <1>0, Range DEF IInv, StateInv, LogInv, TableInv, ProgressInv
<1>2. \A b \in Arenas : Rec[b] = nvm[b] /\ pm[b] = nvm[b]
  BY <1>0, <1>1, RecType
<1> DEFINE o == Old(Rec)
<1>3. \A b \in Arenas : /\ o[b] \in MapAddrs /\ addr[b] \in MapAddrs
                        /\ rangeTable[b] = o[b] /\ offsetTable[b] = addr[b] - o[b]
  <2>1. \A b \in Arenas : Rec[b][Delta] = New(Rec)[b] - o[b]
    BY <1>0, BaseType DEF Sem, Arenas
  <2>2. \A b \in Arenas : New(Rec)[b] \in MapAddrs /\ o[b] \in MapAddrs
    BY <1>0 DEF Sem, BaseSem, Arenas
  <2>3. QED
    BY <2>1, <2>2, <1>1
<1>4. Disjoint(o, Arenas)
  <2>1. 1 \in Arenas /\ Rec[1][BytesSwizzled] # AllocSize
    BY <1>0, <1>1, Range, Consts
  <2>2. QED
    BY <2>1, <1>0, <1>1 DEF Sem, ApartSem, Arenas
<1>5. ASSUME NEW a \in Arenas, NEW w \in PtrWords(a), target[a][w] # Volatile
      PROVE  (IF pm[a][Mdata + w] = 0 THEN 0 ELSE SwizzlePointer(pm[a][Mdata + w]))
               = Value(target[a][w], addr)
  <2> DEFINE v == pm[a][Mdata + w]
             t == target[a][w]
  <2>1. w \in HeapWord /\ w \in Nat /\ Mdata + w \in Word
    BY <1>1, PtrWord, HeapWords
  <2>2. v \in Int /\ v = Rec[a][Mdata + w]
    BY <2>1, <1>0, <1>1, <1>2, ZenonT(40) DEF Words
  <2>3. ~(w < Rec[a][BytesSwizzled])
    BY <2>1, <1>1
  <2>4. t \in TargetIn(n) /\ Means(v, t, o, n) /\ t # Volatile
    BY <2>2, <2>3, <1>0, <1>5 DEF Sem, PointerSem, Arenas
  <2> HIDE DEF v, t, o
  <2>5. CASE v # 0
    <3>1. SwizzlePointer(v) = Value(t, addr)
      BY <2>2, <2>4, <2>5, <1>0, <1>3, <1>4, SwizzleMeans
    <3>2. QED
      BY <2>5, <3>1 DEF v, t
  <2>6. CASE v = 0
    <3>1. Settled(rangeTable, offsetTable, n, v)
      BY <2>6 DEF Settled
    <3>2. Means(v, t, addr, n)
      BY <3>1, <2>2, <2>4, <1>0, <1>3, <1>4, SettledMeans
    <3>3. v = Value(t, addr)
      BY <3>2, <2>4 DEF Means
    <3>4. QED
      BY <2>6, <3>3 DEF v, t
  <2>7. QED
    BY <2>5, <2>6
<1>6. QED
  BY <1>5

------------------------------------------------------------------------------
(* The theorems.  Their hypothesis is that the walk of swizzle() finds all *)
(* remaining pointers wherever it resumes; on a layout where it does not,  *)
(* swizzling loses pointers.                                               *)

\* The invariant holds in every reachable state, through any number of crashes of
\* swizzleArenas and swizzle (pmemHeap.go 768-1040).
THEOREM SwizzleInvariant ==
  ASSUME ResumableLayout
  PROVE  Spec => []IInv
<1>1. Init => IInv
  BY InitStep
<1>2. IInv /\ [Next]_vars => IInv'
  BY NextStep
<1>3. QED
  BY <1>1, <1>2, PTL DEF Spec

\* The words, tables and program counters of swizzleArenas stay in their ranges, and
\* its loops inside the slice of arenas.
THEOREM TypeCorrect ==
  ASSUME ResumableLayout
  PROVE  Spec => []TypeOK
<1>1. IInv => TypeOK
  BY DEF IInv
<1>2. QED
  BY <1>1, SwizzleInvariant, PTL

\* logEntry never runs out of the two entries of an arena's log, however often the
\* swizzle is interrupted and resumed.
THEOREM LogRoomAlways ==
  ASSUME ResumableLayout
  PROVE  Spec => []LogRoom
<1>1. IInv => LogRoom
  BY InvLogRoom
<1>2. QED
  BY <1>1, SwizzleInvariant, PTL

\* When PmemInit has returned, every pointer leads to the object that the application
\* made it point to, whatever was mapped where and crashed when.
THEOREM PointersPreservedAlways ==
  ASSUME ResumableLayout
  PROVE  Spec => []PointersPreserved
<1>1. IInv => PointersPreserved
  BY InvPointers
<1>2. QED
  BY <1>1, SwizzleInvariant, PTL

\* swizzle() leaves no pointer to the volatile memory of an earlier run.
THEOREM VolatileDroppedAlways ==
  ASSUME ResumableLayout
  PROVE  Spec => []VolatileDropped
<1>1. IInv => VolatileDropped
  BY InvVolatile
<1>2. QED
  BY <1>1, SwizzleInvariant, PTL

\* The root that PmemInit returns, and the one that computeRootAddr finds, is the
\* object last given to SetRoot.
THEOREM RootPreservedAlways ==
  ASSUME ResumableLayout
  PROVE  Spec => []RootPreserved
<1>1. IInv => RootPreserved
  BY InvRoot
<1>2. QED
  BY <1>1, SwizzleInvariant, PTL

\* Whenever the process crashes, persistent memory and the undo logs hold enough to
\* tell, of every pointer, which addresses it is relative to.
THEOREM RecoverableAlways ==
  ASSUME ResumableLayout
  PROVE  Spec => []Recoverable
<1>1. IInv => Recoverable
  BY InvRecoverable
<1>2. QED
  BY <1>1, SwizzleInvariant, PTL

\* AppCallBack sees a heap of which no pointer has been rewritten for this run.
THEOREM CallBackBeforeSwizzleAlways ==
  ASSUME ResumableLayout
  PROVE  Spec => []CallBackBeforeSwizzle
<1>1. IInv => CallBackBeforeSwizzle
  BY InvCallBack
<1>2. QED
  BY <1>1, SwizzleInvariant, PTL

\* No step, a crash included, takes back the recorded progress of an arena.
THEOREM ProgressKeptAlways ==
  ASSUME ResumableLayout
  PROVE  Spec => ProgressKept
<1>1. IInv /\ [Next]_vars =>
        [swizzleState = SwizzleOngoing /\ swizzleState' = SwizzleOngoing
           => \A a \in Arenas : Recovered(a)'[BytesSwizzled] >= Recovered(a)[BytesSwizzled]]_vars
  <2> SUFFICES ASSUME IInv, [Next]_vars, swizzleState = SwizzleOngoing, swizzleState' = SwizzleOngoing,
                      NEW a \in Arenas
               PROVE  Recovered(a)'[BytesSwizzled] >= Recovered(a)[BytesSwizzled]
    OBVIOUS
  <2>1. a \in Arena
    BY Range DEF IInv
  <2>2. Recovered(a) = Rec[a]
    BY <2>1, RecIs
  <2>3. Recovered(a)' = Rec'[a]
    BY <2>1 DEF Recovered, Rec, Restored, Rest, LoggedIn, In, LoggedVal, LastVal
  <2>4. Forward
    BY NextStep
  <2>5. QED
    BY <2>2, <2>3, <2>4 DEF Forward
<1>2. QED
  BY <1>1, SwizzleInvariant, PTL DEF Spec, ProgressKept
==============================================================================
