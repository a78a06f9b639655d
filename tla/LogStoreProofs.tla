---------------------------- MODULE LogStoreProofs ----------------------------
(***************************************************************************)
(* What the logStore pass makes of a txn() block keeps the stores and      *)
(* their order, leaves a control flow graph, and puts a call of Log3 in    *)
(* front of every marked store, so that recovery undoes all but the words  *)
(* that lowering leaves out; the goroutine has a transaction handle        *)
(* exactly while it is in a block.  For every program, every number of     *)
(* calls and every nesting.                                                *)
(*                                                                         *)
(* The parts: the recursive functions of the model; lowering (which words  *)
(* the marked stores of a statement list cover); what the pass keeps of    *)
(* the source (BlocksOK) and that each of its steps does; the invariant of *)
(* the pass (PassInv); where a call is in its blocks and what the log has  *)
(* there (InBody); the stack of calls and the handle (StackInv, LevelInv); *)
(* recovery (MemInv); the theorems.                                        *)
(***************************************************************************)
EXTENDS LogStore, FiniteSetTheorems, WellFoundedInduction, TLAPS

------------------------------------------------------------------------------
(* Numbers and recursive functions.                                        *)

\* A set of numbers has a least element.
LEMMA LeastElement ==
  ASSUME NEW S \in SUBSET Nat, S # {}
  PROVE  \E m \in S : \A x \in S : m <= x
<1>1. IsWellFoundedOn(OpToRel(<, Nat), Nat)
  BY NatLessThanWellFounded
<1>2. PICK m \in S : \A y \in S : ~(<<y, m>> \in OpToRel(<, Nat))
  BY <1>1, WFMin
<1>3. \A x \in S : ~(x < m)
  BY <1>2 DEF OpToRel
<1>4. QED
  BY <1>3

\* The minimum of a set of numbers.
LEMMA MinOf ==
  ASSUME NEW S \in SUBSET Nat, S # {}
  PROVE  Min(S) \in S /\ \A x \in S : Min(S) <= x
BY LeastElement DEF Min

\* The maximum of a bounded set of numbers.
LEMMA MaxOf ==
  ASSUME NEW N \in Nat, NEW S \in SUBSET (0..N), S # {}
  PROVE  Max(S) \in S /\ \A x \in S : Max(S) >= x
<1> DEFINE T == {N - x : x \in S}
<1>1. T \subseteq Nat /\ T # {}
  <2>1. \A x \in S : x \in Nat /\ x <= N /\ N - x \in Nat
    OBVIOUS
  <2>2. QED
    BY <2>1
<1> HIDE DEF T
<1>2. PICK m \in T : \A x \in T : m <= x
  BY <1>1, LeastElement
<1>3. PICK k \in S : m = N - k
  BY DEF T
<1>4. \A x \in S : k >= x
  <2>1. SUFFICES ASSUME NEW x \in S PROVE k >= x
    OBVIOUS
  <2>2. N - x \in T
    BY DEF T
  <2>3. QED
    BY <2>2, <1>2, <1>3
<1>5. QED
  BY <1>4 DEF Max

\* The numbers of two more blocks.
LEMMA TwoMore ==
  ASSUME NEW n \in Nat
  PROVE  \A z \in 1..(n + 2) : z \in 1..n \/ z = n + 1 \/ z = n + 2
OBVIOUS

\* Induction: a set of numbers that has the first one and with each its successor, up
\* to n, has all.
LEMMA UpTo ==
  ASSUME NEW k \in Nat, NEW n \in Nat, NEW S,
         k \in S, \A i \in k..n : i \in S /\ i < n => i + 1 \in S
  PROVE  \A i \in k..n : i \in S
<1> DEFINE T == {i \in k..n : i \notin S}
<1>1. SUFFICES ASSUME T # {} PROVE FALSE
  OBVIOUS
<1>2. T \in SUBSET Nat
  OBVIOUS
<1>3. PICK m \in T : \A x \in T : m <= x
  <2> HIDE DEF T
  <2> QED
    BY <1>1, <1>2, LeastElement
<1>4. m \in Nat /\ m # k /\ m > k /\ m <= n
  OBVIOUS
<1>5. m - 1 \in k..n /\ m - 1 \notin T
  BY <1>3, <1>4
<1>6. QED
  BY <1>4, <1>5

\* What LET off[j \in 1..n] in FieldOff satisfies.
IsOff(f, t, n) == f = [j \in 1..(n + 1) |-> IF j = 1 THEN 0 ELSE f[j - 1] + Size(t.fields[j - 1])]

\* There is such a function.
LEMMA OffExists ==
  ASSUME NEW t, NEW n \in Nat
  PROVE  \E f : IsOff(f, t, n)
<1> DEFINE S == {m \in Nat : \E f : IsOff(f, t, m)}
<1>1. 0 \in S
  <2>1. IsOff([j \in 1..1 |-> 0], t, 0)
    BY DEF IsOff
  <2>2. QED
    BY <2>1
<1>2. ASSUME NEW m \in 0..n, m \in S
      PROVE  m + 1 \in S
  <2>1. PICK f : IsOff(f, t, m)
    BY <1>2
  <2> DEFINE g == [j \in 1..((m + 1) + 1) |-> IF j = m + 2 THEN f[m + 1] + Size(t.fields[m + 1]) ELSE f[j]]
  <2>2. \A j \in 1..((m + 1) + 1) : g[j] = IF j = 1 THEN 0 ELSE g[j - 1] + Size(t.fields[j - 1])
    <3>1. ASSUME NEW j \in 1..(m + 1)
          PROVE  g[j] = IF j = 1 THEN 0 ELSE g[j - 1] + Size(t.fields[j - 1])
      <4>1. g[j] = f[j] /\ (j # 1 => g[j - 1] = f[j - 1])
        OBVIOUS
      <4>2. f[j] = IF j = 1 THEN 0 ELSE f[j - 1] + Size(t.fields[j - 1])
        BY <2>1 DEF IsOff
      <4>3. QED
        BY <4>1, <4>2
    <3>2. g[m + 2] = g[m + 1] + Size(t.fields[m + 1])
      OBVIOUS
    <3> HIDE DEF g
    <3>3. ASSUME NEW j \in 1..((m + 1) + 1)
          PROVE  g[j] = IF j = 1 THEN 0 ELSE g[j - 1] + Size(t.fields[j - 1])
      <4>1. CASE j = m + 2
        BY <4>1, <3>2
      <4>2. CASE j # m + 2
        BY <4>2, <3>1
      <4>3. QED
        BY <4>1, <4>2
    <3>4. QED
      BY <3>3
  <2>3. g = [j \in 1..((m + 1) + 1) |-> g[j]]
    OBVIOUS
  <2> HIDE DEF g
  <2>4. IsOff(g, t, m + 1)
    BY <2>2, <2>3 DEF IsOff
  <2>5. QED
    BY <2>4
<1>3. n \in S
  <2> HIDE DEF S
  <2>1. \A i \in 0..n : i \in S
    BY <1>1, <1>2, UpTo
  <2>2. QED
    BY <2>1
<1>4. QED
  BY <1>3

\* The offsets of the fields add up.
LEMMA FieldOffDef ==
  ASSUME NEW t, t.fields \in Seq(Kind)
  PROVE  /\ FieldOff(t, 1) = 0
         /\ \A i \in 1..Len(t.fields) : FieldOff(t, i + 1) = FieldOff(t, i) + Size(t.fields[i])
<1> DEFINE n == Len(t.fields)
           off == CHOOSE f : IsOff(f, t, n)
<1>1. n \in Nat
  OBVIOUS
<1>2. IsOff(off, t, n)
  BY <1>1, OffExists
<1>3. ASSUME NEW i
      PROVE  FieldOff(t, i) = off[i]
  BY DEF FieldOff, IsOff
<1> HIDE DEF off
<1>4. \A i \in 1..(n + 1) : off[i] = IF i = 1 THEN 0 ELSE off[i - 1] + Size(t.fields[i - 1])
  <2> HIDE DEF n
  <2> QED
    BY <1>2 DEF IsOff
<1>5. QED
  BY <1>3, <1>4, <1>1

\* What LET low[i] in Lower satisfies.
IsLow(f, stmts, n) == f = [i \in 0..n |-> IF i = 0 THEN <<>> ELSE LowerStmt(f[i - 1], stmts[i])]

\* There is such a function.
LEMMA LowExists ==
  ASSUME NEW stmts, NEW n \in Nat, n >= 0
  PROVE  \E f : IsLow(f, stmts, n)
<1> DEFINE S == {m \in Nat : \E f : IsLow(f, stmts, m)}
<1>1. 0 \in S
  <2>1. IsLow([i \in 0..0 |-> <<>>], stmts, 0)
    BY DEF IsLow
  <2>2. QED
    BY <2>1
<1>2. ASSUME NEW m \in 0..n, m \in S
      PROVE  m + 1 \in S
  <2>1. PICK f : IsLow(f, stmts, m)
    BY <1>2
  <2> DEFINE g == [i \in 0..(m + 1) |-> IF i = m + 1 THEN LowerStmt(f[m], stmts[m + 1]) ELSE f[i]]
  <2>2. \A i \in 0..(m + 1) : g[i] = IF i = 0 THEN <<>> ELSE LowerStmt(g[i - 1], stmts[i])
    <3>1. ASSUME NEW i \in 0..m
          PROVE  g[i] = IF i = 0 THEN <<>> ELSE LowerStmt(g[i - 1], stmts[i])
      <4>1. g[i] = f[i] /\ (i # 0 => g[i - 1] = f[i - 1])
        OBVIOUS
      <4>2. f[i] = IF i = 0 THEN <<>> ELSE LowerStmt(f[i - 1], stmts[i])
        BY <2>1 DEF IsLow
      <4>3. QED
        BY <4>1, <4>2
    <3>2. g[m + 1] = LowerStmt(g[m], stmts[m + 1])
      <4>1. g[m + 1] = LowerStmt(f[m], stmts[m + 1]) /\ g[m] = f[m]
        OBVIOUS
      <4> HIDE DEF g
      <4>2. QED
        BY <4>1
    <3> HIDE DEF g
    <3>3. ASSUME NEW i \in 0..(m + 1)
          PROVE  g[i] = IF i = 0 THEN <<>> ELSE LowerStmt(g[i - 1], stmts[i])
      <4>1. CASE i = m + 1
        <5>1. i # 0 /\ i - 1 = m
          BY <4>1
        <5>2. QED
          BY <4>1, <5>1, <3>2
      <4>2. CASE i # m + 1
        BY <4>2, <3>1
      <4>3. QED
        BY <4>1, <4>2
    <3>4. QED
      BY <3>3
  <2>3. g = [i \in 0..(m + 1) |-> g[i]]
    OBVIOUS
  <2> HIDE DEF g
  <2>4. IsLow(g, stmts, m + 1)
    BY <2>2, <2>3 DEF IsLow
  <2>5. QED
    BY <2>4
<1>3. n \in S
  <2> HIDE DEF S
  <2>1. \A i \in 0..n : i \in S
    BY <1>1, <1>2, UpTo
  <2>2. QED
    BY <2>1
<1>4. QED
  BY <1>3

LowerFn(stmts) == CHOOSE f : IsLow(f, stmts, Len(stmts))

\* Statements are lowered one after the other.
LEMMA LowerDef ==
  ASSUME NEW stmts, Len(stmts) \in Nat
  PROVE  /\ Lower(stmts) = LowerFn(stmts)[Len(stmts)]
         /\ LowerFn(stmts)[0] = <<>>
         /\ \A i \in 1..Len(stmts) : LowerFn(stmts)[i] = LowerStmt(LowerFn(stmts)[i - 1], stmts[i])
<1> DEFINE n == Len(stmts)
<1>1. IsLow(LowerFn(stmts), stmts, n)
  BY LowExists DEF LowerFn
<1>2. Lower(stmts) = LowerFn(stmts)[n]
  BY DEF Lower, LowerFn, IsLow
<1>3. \A i \in 0..n : LowerFn(stmts)[i] = IF i = 0 THEN <<>> ELSE LowerStmt(LowerFn(stmts)[i - 1], stmts[i])
  <2> HIDE DEF n
  <2> QED
    BY <1>1 DEF IsLow
<1>4. QED
  BY <1>2, <1>3

Cat(s, t) == s \o t

\* What LET flatten[i] in FlattenSeq satisfies.
IsFlat(f, seqs, n) == f = [i \in 1..n |-> IF i = 1 THEN seqs[i] ELSE Cat(f[i - 1], seqs[i])]

\* There is such a function.
LEMMA FlatExists ==
  ASSUME NEW seqs, NEW n \in Nat, n >= 1
  PROVE  \E f : IsFlat(f, seqs, n)
<1> DEFINE S == {m \in Nat : \E f : IsFlat(f, seqs, m)}
<1>1. 1 \in S
  <2>1. IsFlat([i \in 1..1 |-> seqs[i]], seqs, 1)
    BY DEF IsFlat
  <2>2. QED
    BY <2>1
<1>2. ASSUME NEW m \in 1..n, m \in S
      PROVE  m + 1 \in S
  <2>1. PICK f : IsFlat(f, seqs, m)
    BY <1>2
  <2> DEFINE g == [i \in 1..(m + 1) |-> IF i = m + 1 THEN Cat(f[m], seqs[m + 1]) ELSE f[i]]
  <2>2. \A i \in 1..(m + 1) : g[i] = IF i = 1 THEN seqs[i] ELSE Cat(g[i - 1], seqs[i])
    <3>1. ASSUME NEW i \in 1..m
          PROVE  g[i] = IF i = 1 THEN seqs[i] ELSE Cat(g[i - 1], seqs[i])
      <4>1. g[i] = f[i] /\ (i # 1 => g[i - 1] = f[i - 1])
        OBVIOUS
      <4>2. f[i] = IF i = 1 THEN seqs[i] ELSE Cat(f[i - 1], seqs[i])
        BY <2>1 DEF IsFlat
      <4>3. QED
        BY <4>1, <4>2
    <3>2. g[m + 1] = Cat(g[m], seqs[m + 1])
      <4>1. g[m + 1] = Cat(f[m], seqs[m + 1]) /\ g[m] = f[m]
        OBVIOUS
      <4> HIDE DEF g
      <4>2. QED
        BY <4>1
    <3> HIDE DEF g
    <3>3. ASSUME NEW i \in 1..(m + 1)
          PROVE  g[i] = IF i = 1 THEN seqs[i] ELSE Cat(g[i - 1], seqs[i])
      <4>1. CASE i = m + 1
        <5>1. i # 1 /\ i - 1 = m
          BY <4>1
        <5>2. QED
          BY <4>1, <5>1, <3>2
      <4>2. CASE i # m + 1
        BY <4>2, <3>1
      <4>3. QED
        BY <4>1, <4>2
    <3>4. QED
      BY <3>3
  <2>3. g = [i \in 1..(m + 1) |-> g[i]]
    OBVIOUS
  <2> HIDE DEF g
  <2>4. IsFlat(g, seqs, m + 1)
    BY <2>2, <2>3 DEF IsFlat
  <2>5. QED
    BY <2>4
<1>3. n \in S
  <2> HIDE DEF S
  <2>1. \A i \in 1..n : i \in S
    BY <1>1, <1>2, UpTo
  <2>2. QED
    BY <2>1
<1>4. QED
  BY <1>3

FlatFn(seqs) == CHOOSE f : IsFlat(f, seqs, Len(seqs))

\* Sequences are flattened one after the other.
LEMMA FlattenDef ==
  ASSUME NEW seqs, Len(seqs) \in Nat, Len(seqs) >= 1
  PROVE  /\ FlattenSeq(seqs) = FlatFn(seqs)[Len(seqs)]
         /\ FlatFn(seqs)[1] = seqs[1]
         /\ \A i \in 2..Len(seqs) : FlatFn(seqs)[i] = Cat(FlatFn(seqs)[i - 1], seqs[i])
<1> DEFINE n == Len(seqs)
<1>1. IsFlat(FlatFn(seqs), seqs, n)
  BY FlatExists DEF FlatFn
<1>2. FlattenSeq(seqs) = FlatFn(seqs)[n]
  BY DEF FlattenSeq, FlatFn, IsFlat, Cat
<1> HIDE DEF n
<1>3. \A i \in 1..n : FlatFn(seqs)[i] = IF i = 1 THEN seqs[i] ELSE Cat(FlatFn(seqs)[i - 1], seqs[i])
  BY <1>1 DEF IsFlat
<1>4. n \in Nat /\ n >= 1
  BY DEF n
<1>5. FlatFn(seqs)[1] = seqs[1]
  BY <1>3, <1>4
<1>6. \A i \in 2..n : FlatFn(seqs)[i] = Cat(FlatFn(seqs)[i - 1], seqs[i])
  BY <1>3, <1>4
<1>7. QED
  BY <1>2, <1>5, <1>6 DEF n

\* What LET back[i] in Recovered satisfies.
IsBack(f, m0, u, n) == f = [i \in 0..n |-> IF i = 0 THEN m0 ELSE Undone(f[i - 1], u[Len(u) + 1 - i])]

\* There is such a function.
LEMMA BackExists ==
  ASSUME NEW m0, NEW u, NEW n \in Nat, n >= 0
  PROVE  \E f : IsBack(f, m0, u, n)
<1> DEFINE S == {m \in Nat : \E f : IsBack(f, m0, u, m)}
<1>1. 0 \in S
  <2>1. IsBack([i \in 0..0 |-> m0], m0, u, 0)
    BY DEF IsBack
  <2>2. QED
    BY <2>1
<1>2. ASSUME NEW m \in 0..n, m \in S
      PROVE  m + 1 \in S
  <2>1. PICK f : IsBack(f, m0, u, m)
    BY <1>2
  <2> DEFINE g == [i \in 0..(m + 1) |-> IF i = m + 1 THEN Undone(f[m], u[Len(u) + 1 - (m + 1)]) ELSE f[i]]
  <2>2. \A i \in 0..(m + 1) : g[i] = IF i = 0 THEN m0 ELSE Undone(g[i - 1], u[Len(u) + 1 - i])
    <3>1. ASSUME NEW i \in 0..m
          PROVE  g[i] = IF i = 0 THEN m0 ELSE Undone(g[i - 1], u[Len(u) + 1 - i])
      <4>1. g[i] = f[i] /\ (i # 0 => g[i - 1] = f[i - 1])
        OBVIOUS
      <4>2. f[i] = IF i = 0 THEN m0 ELSE Undone(f[i - 1], u[Len(u) + 1 - i])
        BY <2>1 DEF IsBack
      <4>3. QED
        BY <4>1, <4>2
    <3>2. g[m + 1] = Undone(g[m], u[Len(u) + 1 - (m + 1)])
      <4>1. g[m + 1] = Undone(f[m], u[Len(u) + 1 - (m + 1)]) /\ g[m] = f[m]
        OBVIOUS
      <4> HIDE DEF g
      <4>2. QED
        BY <4>1
    <3> HIDE DEF g
    <3>3. ASSUME NEW i \in 0..(m + 1)
          PROVE  g[i] = IF i = 0 THEN m0 ELSE Undone(g[i - 1], u[Len(u) + 1 - i])
      <4>1. CASE i = m + 1
        <5>1. i # 0 /\ i - 1 = m
          BY <4>1
        <5>2. QED
          BY <4>1, <5>1, <3>2
      <4>2. CASE i # m + 1
        BY <4>2, <3>1
      <4>3. QED
        BY <4>1, <4>2
    <3>4. QED
      BY <3>3
  <2>3. g = [i \in 0..(m + 1) |-> g[i]]
    OBVIOUS
  <2> HIDE DEF g
  <2>4. IsBack(g, m0, u, m + 1)
    BY <2>2, <2>3 DEF IsBack
  <2>5. QED
    BY <2>4
<1>3. n \in S
  <2> HIDE DEF S
  <2>1. \A i \in 0..n : i \in S
    BY <1>1, <1>2, UpTo
  <2>2. QED
    BY <2>1
<1>4. QED
  BY <1>3

BackFn(m0, u) == CHOOSE f : IsBack(f, m0, u, Len(u))

BackOK(f, m0, u) == f[0] = m0 /\ \A i \in 1..Len(u) : f[i] = Undone(f[i - 1], u[Len(u) + 1 - i])

\* The log is undone from its end.
LEMMA BackDef ==
  ASSUME NEW m0, NEW u, Len(u) \in Nat
  PROVE  BackOK(BackFn(m0, u), m0, u)
<1>1. PICK n, f : n = Len(u) /\ f = BackFn(m0, u)
  OBVIOUS
<1>2. n \in Nat /\ n >= 0
  BY <1>1
<1>3. IsBack(f, m0, u, n)
  <2>1. \E g : IsBack(g, m0, u, n)
    BY <1>2, BackExists
  <2>2. QED
    BY <2>1, <1>1 DEF BackFn
<1>4. ASSUME NEW i \in 0..n PROVE f[i] = IF i = 0 THEN m0 ELSE Undone(f[i - 1], u[Len(u) + 1 - i])
  BY <1>3 DEF IsBack
<1>5. f[0] = m0
  BY <1>2, <1>4
<1>6. ASSUME NEW i \in 1..n PROVE f[i] = Undone(f[i - 1], u[Len(u) + 1 - i])
  <2>1. i \in 0..n /\ i # 0
    BY <1>2
  <2>2. QED
    BY <2>1, <1>4
<1>7. QED
  BY <1>1, <1>5, <1>6 DEF BackOK

------------------------------------------------------------------------------
(* What assignments are lowered to.                                        *)

StoreRec == [op : {"Store", "Move", "Zero"}, words : SUBSET Nat, at : Nat, elem : Nat, left : BOOLEAN]
StoreVal == [op : {"store"}, s : StoreRec, addr : Seq(Node), st : Assignment, mark : BOOLEAN]
SrcVal   == StoreVal \cup {Call}
Stmt     == Assignment \cup {Call}

\* Fields have one to three words.
LEMMA SizeType ==
  ASSUME NEW k \in Kind
  PROVE  Size(k) \in 1..3
BY DEF Kind, Size

\* Where the fields are.
LEMMA Offsets ==
  ASSUME NEW t, t.fields \in Seq(Kind)
  PROVE  /\ \A i \in 1..(Len(t.fields) + 1) : FieldOff(t, i) \in Nat
         /\ \A i \in 1..Len(t.fields) : \A j \in (i + 1)..(Len(t.fields) + 1) :
              FieldOff(t, i) + Size(t.fields[i]) <= FieldOff(t, j)
<1> DEFINE n == Len(t.fields)
<1>0. n \in Nat /\ 1 \in Nat /\ n + 1 \in Nat
  OBVIOUS
<1>1. FieldOff(t, 1) = 0 /\ \A i \in 1..n : FieldOff(t, i + 1) = FieldOff(t, i) + Size(t.fields[i])
  BY FieldOffDef
<1>2. \A i \in 1..n : Size(t.fields[i]) \in 1..3
  BY SizeType
<1> HIDE DEF n
<1>3. \A i \in 1..(n + 1) : FieldOff(t, i) \in Nat
  <2> DEFINE S == {i \in 1..(n + 1) : FieldOff(t, i) \in Nat}
  <2>1. 1 \in S
    BY <1>0, <1>1
  <2>2. \A i \in 1..(n + 1) : i \in S /\ i < n + 1 => i + 1 \in S
    BY <1>0, <1>1, <1>2
  <2> HIDE DEF S
  <2>3. \A i \in 1..(n + 1) : i \in S
    BY <2>1, <2>2, <1>0, UpTo
  <2>4. QED
    BY <2>3 DEF S
<1>4. ASSUME NEW i \in 1..n, NEW j \in (i + 1)..(n + 1)
      PROVE  FieldOff(t, i) + Size(t.fields[i]) <= FieldOff(t, j)
  <2> DEFINE S == {k \in (i + 1)..(n + 1) : FieldOff(t, i) + Size(t.fields[i]) <= FieldOff(t, k)}
  <2>0. i \in Nat /\ i + 1 \in Nat /\ i \in 1..(n + 1) /\ i + 1 \in 1..(n + 1)
    BY <1>0
  <2>1. i + 1 \in S
    BY <1>0, <2>0, <1>1, <1>2, <1>3
  <2>2. ASSUME NEW k \in (i + 1)..(n + 1), k \in S, k < n + 1
        PROVE  k + 1 \in S
    <3>1. k \in 1..n /\ k + 1 \in (i + 1)..(n + 1) /\ k + 1 \in 1..(n + 1) /\ k \in 1..(n + 1)
      BY <2>2, <1>0, <2>0
    <3>2. FieldOff(t, k + 1) = FieldOff(t, k) + Size(t.fields[k]) /\ FieldOff(t, i) + Size(t.fields[i]) <= FieldOff(t, k)
      BY <3>1, <1>1, <2>2
    <3>3. FieldOff(t, k) \in Nat /\ Size(t.fields[k]) \in Nat /\ FieldOff(t, i) \in Nat /\ Size(t.fields[i]) \in Nat
      <4>1. Size(t.fields[k]) \in Nat /\ Size(t.fields[i]) \in Nat
        BY <3>1, <1>2
      <4>2. QED
        BY <4>1, <3>1, <2>0, <1>3
    <3>4. FieldOff(t, i) + Size(t.fields[i]) <= FieldOff(t, k + 1)
      BY <3>2, <3>3
    <3>5. QED
      BY <3>1, <3>4
  <2> HIDE DEF S
  <2>3. \A k \in (i + 1)..(n + 1) : k \in S
    BY <2>0, <2>1, <2>2, <1>0, UpTo
  <2>4. QED
    BY <2>3 DEF S
<1>5. QED
  BY <1>3, <1>4 DEF n


\* c is s followed by t.
IsCat(c, s, t) == /\ Len(c) = Len(s) + Len(t) /\ Len(s) \in Nat /\ Len(t) \in Nat
                  /\ \A i \in 1..Len(s) : c[i] = s[i]
                  /\ \A i \in 1..Len(t) : c[Len(s) + i] = t[i]
                  /\ \A i \in (Len(s) + 1)..(Len(s) + Len(t)) : c[i] = t[i - Len(s)]

\* Concatenation of two sequences.
LEMMA CatFacts ==
  ASSUME NEW S, NEW s \in Seq(S), NEW t \in Seq(S)
  PROVE  Cat(s, t) \in Seq(S) /\ IsCat(Cat(s, t), s, t)
BY DEF Cat, IsCat

\* The elements of s come from the sequences up to j.
From(s, seqs, j) == \A m \in 1..Len(s) : \E i \in 1..j : \E k \in 1..Len(seqs[i]) : s[m] = seqs[i][k]

\* One more sequence.
LEMMA FromStep ==
  ASSUME NEW S, NEW seqs, NEW j \in Nat, NEW a \in Seq(S), From(a, seqs, j), NEW b \in Seq(S), b = seqs[j + 1]
  PROVE  Cat(a, b) \in Seq(S) /\ From(Cat(a, b), seqs, j + 1)
<1>0. Cat(a, b) \in Seq(S) /\ IsCat(Cat(a, b), a, b)
  BY CatFacts, Zenon
<1> DEFINE c == Cat(a, b)
           la == Len(a)
           lb == Len(b)
<1>1. /\ c \in Seq(S) /\ Len(c) = la + lb /\ la \in Nat /\ lb \in Nat
      /\ \A i \in 1..la : c[i] = a[i]
      /\ \A i \in (la + 1)..(la + lb) : c[i] = b[i - la]
  BY <1>0 DEF IsCat
<1> HIDE DEF c, la, lb
<1>2. ASSUME NEW m \in 1..Len(c)
      PROVE  \E i \in 1..(j + 1) : \E k \in 1..Len(seqs[i]) : c[m] = seqs[i][k]
  <2>1. CASE m \in 1..la
    <3>1. PICK i \in 1..j : \E k \in 1..Len(seqs[i]) : a[m] = seqs[i][k]
      BY <2>1 DEF From, la
    <3>2. i \in 1..(j + 1) /\ c[m] = a[m]
      BY <2>1, <1>1
    <3>3. QED
      BY <3>1, <3>2
  <2>2. CASE m \in (la + 1)..(la + lb)
    <3>1. m - la \in 1..lb /\ c[m] = b[m - la]
      BY <2>2, <1>1
    <3>2. j + 1 \in 1..(j + 1) /\ lb = Len(seqs[j + 1])
      BY DEF lb
    <3>3. m - la \in 1..Len(seqs[j + 1]) /\ c[m] = seqs[j + 1][m - la]
      BY <3>1, <3>2
    <3>4. QED
      BY <3>2, <3>3
  <2>3. QED
    BY <2>1, <2>2, <1>1
<1>3. QED
  BY <1>1, <1>2 DEF From, c

\* The recursion of FlattenSeq on sequences.
LEMMA FlattenRec ==
  ASSUME NEW S, NEW n \in Nat, n >= 1, NEW seqs \in [1..n -> Seq(S)]
  PROVE  /\ FlattenSeq(seqs) = FlatFn(seqs)[n] /\ FlatFn(seqs)[1] = seqs[1]
         /\ \A i \in 1..n : i < n => FlatFn(seqs)[i + 1] = Cat(FlatFn(seqs)[i], seqs[i + 1])
<1>1. Len(seqs) = n
  OBVIOUS
<1>2. /\ FlattenSeq(seqs) = FlatFn(seqs)[n] /\ FlatFn(seqs)[1] = seqs[1]
      /\ \A i \in 2..n : FlatFn(seqs)[i] = Cat(FlatFn(seqs)[i - 1], seqs[i])
  BY <1>1, FlattenDef
<1>3. ASSUME NEW i \in 1..n, i < n
      PROVE  FlatFn(seqs)[i + 1] = Cat(FlatFn(seqs)[i], seqs[i + 1])
  <2>1. i + 1 \in 2..n /\ (i + 1) - 1 = i
    BY <1>3
  <2>2. QED
    BY <2>1, <1>2
<1>4. QED
  BY <1>2, <1>3

\* Every element of a flattened sequence comes from one of the sequences.
LEMMA FlattenType ==
  ASSUME NEW S, NEW n \in Nat, NEW seqs \in [1..n -> Seq(S)]
  PROVE  FlattenSeq(seqs) \in Seq(S) /\ From(FlattenSeq(seqs), seqs, n)
<1>1. CASE n = 0
  <2>1. Len(seqs) = 0 /\ seqs \in Seq(S)
    BY <1>1
  <2>2. FlattenSeq(seqs) = seqs
    BY <2>1 DEF FlattenSeq
  <2>3. QED
    BY <2>1, <2>2 DEF From
<1>2. CASE n # 0
  <2>0. n >= 1
    BY <1>2
  <2> DEFINE F == FlatFn(seqs)
             T == {j \in 1..n : F[j] \in Seq(S) /\ From(F[j], seqs, j)}
  <2>1. /\ FlattenSeq(seqs) = F[n] /\ F[1] = seqs[1]
        /\ \A i \in 1..n : i < n => F[i + 1] = Cat(F[i], seqs[i + 1])
    BY <2>0, FlattenRec, Zenon
  <2> HIDE DEF F
  <2>2. 1 \in T
    <3>1. From(seqs[1], seqs, 1)
      BY DEF From
    <3>2. QED
      BY <2>1, <1>2, <3>1
  <2>3. ASSUME NEW j \in 1..n, j \in T, j < n
        PROVE  j + 1 \in T
    <3>1. seqs[j + 1] \in Seq(S) /\ j + 1 \in 1..n /\ j \in Nat
      BY <2>3
    <3>2. F[j] \in Seq(S) /\ From(F[j], seqs, j)
      BY <2>3
    <3>3. Cat(F[j], seqs[j + 1]) \in Seq(S) /\ From(Cat(F[j], seqs[j + 1]), seqs, j + 1)
      BY <3>1, <3>2, FromStep
    <3>4. F[j + 1] = Cat(F[j], seqs[j + 1])
      BY <2>1, <2>3
    <3>5. QED
      BY <3>1, <3>3, <3>4
  <2> HIDE DEF T
  <2>4. \A j \in 1..n : j \in T
    BY <2>2, <2>3, UpTo
  <2>5. n \in T
    BY <2>4, <1>2
  <2>6. QED
    BY <2>1, <2>5 DEF T
<1>3. QED
  BY <1>1, <1>2

\* F is the row of the only elements of the sequences up to n that have one, and src says
\* which.
Sparse(seqs, S, F, src, n) ==
  /\ F \in Seq(S) /\ src \in [1..Len(F) -> 1..n]
  /\ \A m \in 1..Len(F) : Len(seqs[src[m]]) = 1 /\ seqs[src[m]][1] = F[m]
  /\ \A m1, m2 \in 1..Len(F) : m1 < m2 => src[m1] < src[m2]
  /\ \A j \in 1..n : Len(seqs[j]) = 1 => Len(F) > 0 /\ j <= src[Len(F)]

\* One more sequence.
LEMMA SparseStep ==
  ASSUME NEW S, NEW seqs, NEW j \in Nat, NEW a, NEW src, Sparse(seqs, S, a, src, j),
         NEW b \in Seq(S), b = seqs[j + 1], Len(b) <= 1
  PROVE  \E new : Sparse(seqs, S, Cat(a, b), new, j + 1)
<1>1. a \in Seq(S)
  BY DEF Sparse
<1>0. Cat(a, b) \in Seq(S) /\ IsCat(Cat(a, b), a, b)
  BY <1>1, CatFacts, Zenon
<1> DEFINE c == Cat(a, b)
           la == Len(a)
           lb == Len(b)
           lc == Len(c)
<1>2. /\ c \in Seq(S) /\ lc = la + lb /\ la \in Nat /\ lb \in 0..1
      /\ \A i \in 1..la : c[i] = a[i]
      /\ \A i \in 1..lb : c[la + i] = b[i]
  <2> HIDE DEF c
  <2>1. c \in Seq(S) /\ IsCat(c, a, b)
    BY <1>0 DEF c
  <2>2. /\ lc = la + lb /\ la \in Nat /\ lb \in Nat
        /\ \A i \in 1..la : c[i] = a[i]
        /\ \A i \in 1..lb : c[la + i] = b[i]
    BY <2>1 DEF IsCat
  <2>3. lb <= 1
    OBVIOUS
  <2> HIDE DEF la, lb, lc
  <2>4. lb \in 0..1
    BY <2>2, <2>3
  <2>5. QED
    BY <2>1, <2>2, <2>4
<1>3. /\ src \in [1..la -> 1..j]
      /\ \A m \in 1..la : Len(seqs[src[m]]) = 1 /\ seqs[src[m]][1] = a[m]
      /\ \A m1, m2 \in 1..la : m1 < m2 => src[m1] < src[m2]
      /\ \A i \in 1..j : Len(seqs[i]) = 1 => la > 0 /\ i <= src[la]
  BY DEF Sparse
<1>4. lb = Len(seqs[j + 1])
  OBVIOUS
<1> DEFINE new == [m \in 1..lc |-> IF m <= la THEN src[m] ELSE j + 1]
<1> HIDE DEF c, la, lb, lc
<1>5. \A m \in 1..la : m \in 1..lc /\ new[m] = src[m] /\ src[m] \in 1..j
  BY <1>2, <1>3
<1>6. new \in [1..lc -> 1..(j + 1)]
  BY <1>2, <1>3
<1>7. CASE lb = 0
  <2>1. lc = la
    BY <1>2, <1>7
  <2> HIDE DEF new
  <2>2. \A m \in 1..lc : Len(seqs[new[m]]) = 1 /\ seqs[new[m]][1] = c[m]
    BY <1>2, <1>3, <1>5, <2>1
  <2>3. \A m1, m2 \in 1..lc : m1 < m2 => new[m1] < new[m2]
    BY <1>3, <1>5, <2>1
  <2>4. ASSUME NEW i \in 1..(j + 1), Len(seqs[i]) = 1
        PROVE  lc > 0 /\ i <= new[lc]
    <3>1. i # j + 1
      <4>1. i = j + 1 => Len(seqs[i]) = lb
        BY <1>4
      <4>2. QED
        BY <4>1, <2>4, <1>7
    <3>2. i \in 1..j
      BY <3>1
    <3>3. la > 0 /\ i <= src[la]
      BY <3>2, <2>4, <1>3
    <3>4. la \in 1..la
      BY <3>3, <1>2
    <3>5. QED
      BY <3>3, <3>4, <1>5, <2>1
  <2>5. Sparse(seqs, S, c, new, j + 1)
    BY <1>2, <1>6, <2>2, <2>3, <2>4 DEF Sparse, lc
  <2>6. QED
    BY <2>5 DEF c
<1>8. CASE lb = 1
  <2>1. lc = la + 1 /\ c[la + 1] = b[1] /\ la + 1 \in 1..lc /\ ~(la + 1 <= la)
    BY <1>2, <1>8
  <2>2. new[la + 1] = j + 1
    BY <2>1
  <2> HIDE DEF new
  <2>3. \A m \in 1..lc : m = la + 1 \/ m \in 1..la
    BY <1>2, <2>1
  <2>4. ASSUME NEW m \in 1..lc
        PROVE  Len(seqs[new[m]]) = 1 /\ seqs[new[m]][1] = c[m]
    <3>1. CASE m = la + 1
      BY <3>1, <2>1, <2>2, <1>4, <1>8
    <3>2. CASE m \in 1..la
      BY <3>2, <1>2, <1>3, <1>5
    <3>3. QED
      BY <3>1, <3>2, <2>3
  <2>5. ASSUME NEW m1 \in 1..lc, NEW m2 \in 1..lc, m1 < m2
        PROVE  new[m1] < new[m2]
    <3>1. m1 \in 1..la
      BY <2>1, <2>3, <2>5, <1>2
    <3>2. CASE m2 = la + 1
      <4>1. new[m1] \in 1..j
        BY <3>1, <1>5
      <4>2. QED
        BY <4>1, <3>2, <2>2
    <3>3. CASE m2 \in 1..la
      BY <3>1, <3>3, <2>5, <1>3, <1>5
    <3>4. QED
      BY <3>2, <3>3, <2>3
  <2>6. \A i \in 1..(j + 1) : lc > 0 /\ i <= new[lc]
    BY <1>2, <2>1, <2>2
  <2>7. Sparse(seqs, S, c, new, j + 1)
    BY <1>2, <1>6, <2>4, <2>5, <2>6 DEF Sparse, lc
  <2>8. QED
    BY <2>7 DEF c
<1>9. QED
  BY <1>2, <1>7, <1>8

\* The first sequence.
LEMMA SparseFirst ==
  ASSUME NEW S, NEW seqs, seqs[1] \in Seq(S), Len(seqs[1]) <= 1
  PROVE  \E src : Sparse(seqs, S, seqs[1], src, 1)
<1>1. PICK a : a = seqs[1]
  OBVIOUS
<1>2. PICK l : l = Len(a)
  OBVIOUS
<1>3. a \in Seq(S) /\ l \in 0..1
  <2>1. a \in Seq(S)
    BY <1>1
  <2>2. l <= 1
    BY <1>1, <1>2
  <2>3. l \in Nat
    BY <2>1, <1>2
  <2>4. QED
    BY <2>1, <2>2, <2>3
<1> DEFINE src == [m \in 1..l |-> 1]
<1>4. src \in [1..l -> 1..1] /\ \A m \in 1..l : src[m] = 1
  OBVIOUS
<1> HIDE DEF src
<1>5. \A m \in 1..l : m = 1 /\ l = 1
  BY <1>3
<1>6. \A m \in 1..l : Len(seqs[src[m]]) = 1 /\ seqs[src[m]][1] = a[m]
  BY <1>1, <1>2, <1>4, <1>5
<1>7. \A m1, m2 \in 1..l : m1 < m2 => src[m1] < src[m2]
  BY <1>5
<1>8. \A j \in 1..1 : l = 1 => l > 0 /\ j <= src[l]
  BY <1>4
<1>9. \A j \in 1..1 : Len(seqs[j]) = 1 => l > 0 /\ j <= src[l]
  BY <1>8, <1>1, <1>2
<1>10. QED
  BY <1>1, <1>2, <1>3, <1>4, <1>6, <1>7, <1>9 DEF Sparse

\* Flattening sequences of one element at most.
LEMMA SparseFlatten ==
  ASSUME NEW S, NEW n \in Nat, n >= 1, NEW seqs \in [1..n -> Seq(S)], \A i \in 1..n : Len(seqs[i]) <= 1
  PROVE  \E src : Sparse(seqs, S, FlattenSeq(seqs), src, n)
<1> DEFINE F == FlatFn(seqs)
           T == {j \in 1..n : \E src : Sparse(seqs, S, F[j], src, j)}
<1>1. /\ FlattenSeq(seqs) = F[n] /\ F[1] = seqs[1]
      /\ \A i \in 1..n : i < n => F[i + 1] = Cat(F[i], seqs[i + 1])
  BY FlattenRec
<1> HIDE DEF F
<1>2. 1 \in T
  <2>1. seqs[1] \in Seq(S) /\ Len(seqs[1]) <= 1 /\ 1 \in 1..n
    OBVIOUS
  <2>2. \E src : Sparse(seqs, S, seqs[1], src, 1)
    BY <2>1, SparseFirst
  <2>3. QED
    BY <2>1, <2>2, <1>1
<1>3. ASSUME NEW j \in 1..n, j \in T, j < n
      PROVE  j + 1 \in T
  <2>1. PICK src : Sparse(seqs, S, F[j], src, j)
    BY <1>3
  <2>2. F[j + 1] = Cat(F[j], seqs[j + 1]) /\ j + 1 \in 1..n /\ j \in Nat
    BY <1>1, <1>3
  <2>3. seqs[j + 1] \in Seq(S) /\ Len(seqs[j + 1]) <= 1
    BY <2>2
  <2>4. \E new : Sparse(seqs, S, Cat(F[j], seqs[j + 1]), new, j + 1)
    BY <2>1, <2>2, <2>3, SparseStep
  <2>5. QED
    BY <2>2, <2>4
<1> HIDE DEF T
<1>4. \A j \in 1..n : j \in T
  BY <1>2, <1>3, UpTo
<1>5. n \in T
  BY <1>4
<1>6. QED
  BY <1>1, <1>5 DEF T

\* A store of one word between lo and hi, not through the address of the assignment.
WordStore(r, lo, hi) == r \in StoreRec /\ r.left = FALSE /\ r.words = {r.at} /\ r.elem >= 1 /\ r.at \in lo..hi

\* Where the pointer of a field is.
PtrWord(k, off) == off + (IF k = "iface" THEN 1 ELSE 0)

\* What storeTypeScalars stores of a field lies in the field and is not its pointer.
ScalarsOf(fs, k, off) == /\ fs \in Seq(StoreRec)
                         /\ \A m \in 1..Len(fs) : /\ WordStore(fs[m], off, off + Size(k) - 1)
                                                  /\ k # "int" => fs[m].at # PtrWord(k, off)
                         /\ k = "int" => Len(fs) = 1
\* What storeTypePtrs stores of it is its pointer.
PtrsOf(ps, k, off) == /\ ps \in Seq(StoreRec) /\ Len(ps) <= 1 /\ (Len(ps) = 1 <=> k # "int")
                      /\ \A m \in 1..Len(ps) : /\ WordStore(ps[m], off, off + Size(k) - 1)
                                               /\ ps[m].at = PtrWord(k, off)

\* What a store of one word in a field is.
Is1(r, w, e) == r \in StoreRec /\ ~r.left /\ r.words = {w} /\ r.at = w /\ r.elem = e

\* Stores of one word in a field.
LEMMA Store1Is ==
  ASSUME NEW w \in Nat, NEW e \in Nat
  PROVE  Is1(Store1(w, e, FALSE), w, e)
<1>1. FALSE \in BOOLEAN
  OBVIOUS
<1>2. Store1(w, e, FALSE) \in StoreRec
  BY <1>1 DEF Store1, StoreRec
<1>3. Store1(w, e, FALSE).words = {w} /\ Store1(w, e, FALSE).at = w /\ Store1(w, e, FALSE).elem = e
  BY DEF Store1
<1>4. ~Store1(w, e, FALSE).left
  BY DEF Store1
<1>5. QED
  BY <1>2, <1>3, <1>4 DEF Is1

\* They are WordStores.
LEMMA IsWord ==
  ASSUME NEW r, NEW w \in Nat, NEW e \in Nat, e >= 1, Is1(r, w, e), NEW lo \in Nat, NEW hi \in Int, lo <= w, w <= hi
  PROVE  r \in StoreRec /\ WordStore(r, lo, hi) /\ r.at = w
BY DEF WordStore, Is1

\* A row of one store.
LEMMA Row1 ==
  ASSUME NEW x \in StoreRec
  PROVE  <<x>> \in Seq(StoreRec) /\ Len(<<x>>) = 1 /\ \A m \in 1..Len(<<x>>) : <<x>>[m] = x
<1> HIDE DEF StoreRec
<1> QED
  OBVIOUS

\* A row of two stores.
LEMMA Row2 ==
  ASSUME NEW x \in StoreRec, NEW y \in StoreRec
  PROVE  /\ <<x>> \o <<y>> \in Seq(StoreRec) /\ Len(<<x>> \o <<y>>) = 2
         /\ (<<x>> \o <<y>>)[1] = x /\ (<<x>> \o <<y>>)[2] = y
<1> DEFINE a == <<x>>
           b == <<y>>
<1>1. a \in Seq(StoreRec) /\ Len(a) = 1 /\ a[1] = x /\ b \in Seq(StoreRec) /\ Len(b) = 1 /\ b[1] = y
  BY Row1
<1> HIDE DEF a, b
<1>2. Cat(a, b) \in Seq(StoreRec) /\ IsCat(Cat(a, b), a, b)
  BY <1>1, CatFacts, Zenon
<1>4. Len(Cat(a, b)) = 2 /\ Cat(a, b)[1] = x /\ Cat(a, b)[2] = y
  BY <1>1, <1>2 DEF IsCat
<1>3. QED
  BY <1>2, <1>4 DEF a, b, Cat

\* The stores of a field of a struct.
LEMMA FieldStores ==
  ASSUME NEW k \in Kind, NEW off \in Nat
  PROVE  /\ ScalarsOf(StoreTypeScalars(k, off, FALSE, {}), k, off)
         /\ PtrsOf(StoreTypePtrs(k, off, FALSE), k, off)
<1> DEFINE hi == off + Size(k) - 1
           w0 == Store1(off, 1, FALSE)
           w2 == Store1(off, 2, FALSE)
           w3 == Store1(off, 3, FALSE)
           x1 == Store1(off + 1, 1, FALSE)
           x2 == Store1(off + 2, 1, FALSE)
<1>1. Size("int") = 1 /\ Size("ptr") = 1 /\ Size("string") = 2 /\ Size("iface") = 2 /\ Size("slice") = 3
  BY DEF Size
<1>2. /\ StoreTypeScalars("int", off, FALSE, {}) = <<w0>> /\ StoreTypeScalars("ptr", off, FALSE, {}) = <<>>
      /\ StoreTypeScalars("string", off, FALSE, {}) = <<x1>> /\ StoreTypeScalars("iface", off, FALSE, {}) = <<w2>>
      /\ StoreTypePtrs("int", off, FALSE) = <<>> /\ StoreTypePtrs("ptr", off, FALSE) = <<w0>>
      /\ StoreTypePtrs("string", off, FALSE) = <<w2>> /\ StoreTypePtrs("slice", off, FALSE) = <<w3>>
      /\ StoreTypePtrs("iface", off, FALSE) = <<x1>>
  BY DEF StoreTypeScalars, StoreTypePtrs, Size
<1>3. StoreTypeScalars("slice", off, FALSE, {}) = <<x1>> \o <<x2>>
  <2>1. "len" \notin {} /\ "cap" \notin {}
    OBVIOUS
  <2>2. StoreTypeScalars("slice", off, FALSE, {}) =
              (IF "len" \in {} THEN <<>> ELSE <<x1>>) \o (IF "cap" \in {} THEN <<>> ELSE <<x2>>)
    BY DEF StoreTypeScalars
  <2>3. QED
    BY <2>1, <2>2, Zenon
<1>n. 1 \in Nat /\ 2 \in Nat /\ 3 \in Nat /\ off + 1 \in Nat /\ off + 2 \in Nat /\ hi \in Int /\ Size(k) \in 1..3
  BY SizeType
<1>4. Is1(w0, off, 1) /\ Is1(w2, off, 2) /\ Is1(w3, off, 3) /\ Is1(x1, off + 1, 1) /\ Is1(x2, off + 2, 1)
  BY <1>n, Store1Is, Zenon
<1> HIDE DEF w0, w2, w3, x1, x2
<1>5. \A s \in {w0, w2, w3} : s \in StoreRec /\ WordStore(s, off, hi) /\ s.at = off
  BY <1>4, <1>n, IsWord
<1>6. x1 \in StoreRec /\ x2 \in StoreRec /\ x1.at = off + 1 /\ x2.at = off + 2
  BY <1>4 DEF Is1
<1>7. ASSUME 2 <= Size(k) PROVE WordStore(x1, off, hi)
  <2>1. off <= off + 1 /\ off + 1 <= hi /\ 1 >= 1
    BY <1>7, <1>n
  <2> HIDE DEF hi
  <2>2. QED
    BY <1>4, <1>n, <2>1, IsWord
<1>8. ASSUME 3 <= Size(k) PROVE WordStore(x2, off, hi)
  <2>1. off <= off + 2 /\ off + 2 <= hi /\ 1 >= 1
    BY <1>8, <1>n
  <2> HIDE DEF hi
  <2>2. QED
    BY <1>4, <1>n, <2>1, IsWord
<1>9. k = "int" \/ k = "ptr" \/ k = "string" \/ k = "slice" \/ k = "iface"
  BY DEF Kind
<1>o. <<>> \in Seq(StoreRec) /\ Len(<<>>) = 0
  OBVIOUS
<1>10. /\ <<>> \in Seq(StoreRec) /\ Len(<<>>) = 0
       /\ \A x \in {w0, w2, w3, x1} : <<x>> \in Seq(StoreRec) /\ Len(<<x>>) = 1 /\ \A m \in 1..Len(<<x>>) : <<x>>[m] = x
  BY <1>5, <1>6, <1>o, Row1, Zenon
<1>11. /\ <<x1>> \o <<x2>> \in Seq(StoreRec)
       /\ \A m \in 1..Len(<<x1>> \o <<x2>>) : (<<x1>> \o <<x2>>)[m] \in {x1, x2}
  <2>1. /\ <<x1>> \o <<x2>> \in Seq(StoreRec) /\ Len(<<x1>> \o <<x2>>) = 2
        /\ (<<x1>> \o <<x2>>)[1] = x1 /\ (<<x1>> \o <<x2>>)[2] = x2
    BY <1>6, Row2
  <2>2. QED
    BY <2>1
<1>12. PICK z0, z1, z2, z3, y, yy : z0 = <<>> /\ z1 = <<w0>> /\ z2 = <<w2>> /\ z3 = <<w3>> /\ y = <<x1>> /\ yy = <<x1>> \o <<x2>>
  OBVIOUS
<1>13. /\ z0 \in Seq(StoreRec) /\ Len(z0) = 0
       /\ z1 \in Seq(StoreRec) /\ Len(z1) = 1 /\ \A m \in 1..Len(z1) : z1[m] = w0
       /\ z2 \in Seq(StoreRec) /\ Len(z2) = 1 /\ \A m \in 1..Len(z2) : z2[m] = w2
       /\ z3 \in Seq(StoreRec) /\ Len(z3) = 1 /\ \A m \in 1..Len(z3) : z3[m] = w3
       /\ y \in Seq(StoreRec) /\ Len(y) = 1 /\ \A m \in 1..Len(y) : y[m] = x1
       /\ yy \in Seq(StoreRec) /\ \A m \in 1..Len(yy) : yy[m] \in {x1, x2}
  BY <1>10, <1>11, <1>12
<1>14. CASE k = "int"
  <2>1. PtrWord(k, off) = off
    BY <1>14 DEF PtrWord
  <2>2. StoreTypeScalars(k, off, FALSE, {}) = z1 /\ StoreTypePtrs(k, off, FALSE) = z0
    BY <1>14, <1>2, <1>3, <1>12
  <2>3. ScalarsOf(z1, k, off)
    BY <1>14, <1>1, <1>5, <1>6, <1>7, <1>8, <1>13, <2>1 DEF ScalarsOf, hi
  <2>4. PtrsOf(z0, k, off)
    BY <1>14, <1>1, <1>5, <1>6, <1>7, <1>8, <1>13, <2>1 DEF PtrsOf, hi
  <2>5. QED
    BY <2>2, <2>3, <2>4
<1>15. CASE k = "ptr"
  <2>1. PtrWord(k, off) = off
    BY <1>15 DEF PtrWord
  <2>2. StoreTypeScalars(k, off, FALSE, {}) = z0 /\ StoreTypePtrs(k, off, FALSE) = z1
    BY <1>15, <1>2, <1>3, <1>12
  <2>3. ScalarsOf(z0, k, off)
    BY <1>15, <1>1, <1>5, <1>6, <1>7, <1>8, <1>13, <2>1 DEF ScalarsOf, hi
  <2>4. PtrsOf(z1, k, off)
    BY <1>15, <1>1, <1>5, <1>6, <1>7, <1>8, <1>13, <2>1 DEF PtrsOf, hi
  <2>5. QED
    BY <2>2, <2>3, <2>4
<1>16. CASE k = "string"
  <2>1. PtrWord(k, off) = off
    BY <1>16 DEF PtrWord
  <2>2. StoreTypeScalars(k, off, FALSE, {}) = y /\ StoreTypePtrs(k, off, FALSE) = z2
    BY <1>16, <1>2, <1>3, <1>12
  <2>3. ScalarsOf(y, k, off)
    BY <1>16, <1>1, <1>5, <1>6, <1>7, <1>8, <1>13, <2>1 DEF ScalarsOf, hi
  <2>4. PtrsOf(z2, k, off)
    BY <1>16, <1>1, <1>5, <1>6, <1>7, <1>8, <1>13, <2>1 DEF PtrsOf, hi
  <2>5. QED
    BY <2>2, <2>3, <2>4
<1>17. CASE k = "slice"
  <2>1. PtrWord(k, off) = off
    BY <1>17 DEF PtrWord
  <2>2. StoreTypeScalars(k, off, FALSE, {}) = yy /\ StoreTypePtrs(k, off, FALSE) = z3
    BY <1>17, <1>2, <1>3, <1>12
  <2>3. ScalarsOf(yy, k, off)
    BY <1>17, <1>1, <1>5, <1>6, <1>7, <1>8, <1>13, <2>1 DEF ScalarsOf, hi
  <2>4. PtrsOf(z3, k, off)
    BY <1>17, <1>1, <1>5, <1>6, <1>7, <1>8, <1>13, <2>1 DEF PtrsOf, hi
  <2>5. QED
    BY <2>2, <2>3, <2>4
<1>18. CASE k = "iface"
  <2>1. PtrWord(k, off) = off + 1
    BY <1>18 DEF PtrWord
  <2>2. StoreTypeScalars(k, off, FALSE, {}) = z2 /\ StoreTypePtrs(k, off, FALSE) = y
    BY <1>18, <1>2, <1>3, <1>12
  <2>3. ScalarsOf(z2, k, off)
    BY <1>18, <1>1, <1>5, <1>6, <1>7, <1>8, <1>13, <2>1 DEF ScalarsOf, hi
  <2>4. PtrsOf(y, k, off)
    BY <1>18, <1>1, <1>5, <1>6, <1>7, <1>8, <1>13, <2>1 DEF PtrsOf, hi
  <2>5. QED
    BY <2>2, <2>3, <2>4
<1>19. QED
  BY <1>9, <1>14, <1>15, <1>16, <1>17, <1>18

\* Fields do not overlap, and lie in the struct.
LEMMA FieldsApart ==
  ASSUME NEW t, t.fields \in Seq(Kind)
  PROVE  /\ \A i \in 1..Len(t.fields) : \A x \in FieldOff(t, i)..(FieldOff(t, i) + Size(t.fields[i]) - 1) :
              x \in 0..(TypeSize(t) - 1)
         /\ \A i, j \in 1..Len(t.fields) : i # j =>
              \A x \in FieldOff(t, i)..(FieldOff(t, i) + Size(t.fields[i]) - 1),
                 y \in FieldOff(t, j)..(FieldOff(t, j) + Size(t.fields[j]) - 1) : x # y
<1> DEFINE n == Len(t.fields)
<1>0. n \in Nat
  OBVIOUS
<1>1. /\ \A i \in 1..(n + 1) : FieldOff(t, i) \in Nat
      /\ \A i \in 1..n : \A j \in (i + 1)..(n + 1) : FieldOff(t, i) + Size(t.fields[i]) <= FieldOff(t, j)
  BY Offsets
<1>2. \A i \in 1..n : Size(t.fields[i]) \in Nat
  BY SizeType
<1>3. TypeSize(t) = FieldOff(t, n + 1)
  BY DEF TypeSize
<1> HIDE DEF n
<1>4. ASSUME NEW i \in 1..n, NEW x \in FieldOff(t, i)..(FieldOff(t, i) + Size(t.fields[i]) - 1)
      PROVE  x \in 0..(TypeSize(t) - 1)
  <2>1. i \in 1..(n + 1) /\ n + 1 \in (i + 1)..(n + 1) /\ n + 1 \in 1..(n + 1)
    BY <1>0
  <2>2. FieldOff(t, i) + Size(t.fields[i]) <= TypeSize(t) /\ FieldOff(t, i) \in Nat /\ TypeSize(t) \in Nat
    BY <2>1, <1>1, <1>3
  <2>3. QED
    BY <2>2, <1>2
<1>5. ASSUME NEW i \in 1..n, NEW j \in 1..n, i < j,
             NEW x \in FieldOff(t, i)..(FieldOff(t, i) + Size(t.fields[i]) - 1),
             NEW y \in FieldOff(t, j)..(FieldOff(t, j) + Size(t.fields[j]) - 1)
      PROVE  x < y
  <2>1. i \in 1..(n + 1) /\ j \in (i + 1)..(n + 1) /\ j \in 1..(n + 1)
    BY <1>0, <1>5
  <2>2. FieldOff(t, i) + Size(t.fields[i]) <= FieldOff(t, j) /\ FieldOff(t, i) \in Nat /\ FieldOff(t, j) \in Nat
    BY <2>1, <1>1
  <2>3. Size(t.fields[i]) \in Nat /\ Size(t.fields[j]) \in Nat
    BY <1>2
  <2>4. QED
    BY <2>2, <2>3
<1>6. ASSUME NEW i \in 1..n, NEW j \in 1..n, i # j,
             NEW x \in FieldOff(t, i)..(FieldOff(t, i) + Size(t.fields[i]) - 1),
             NEW y \in FieldOff(t, j)..(FieldOff(t, j) + Size(t.fields[j]) - 1)
      PROVE  x # y
  <2>1. CASE i < j
    <3>1. x < y
      BY <2>1, <1>5
    <3>2. QED
      BY <3>1
  <2>2. CASE j < i
    <3>1. y < x
      BY <2>2, <1>5
    <3>2. QED
      BY <3>1
  <2>3. QED
    BY <2>1, <2>2, <1>6, <1>0
<1>7. QED
  BY <1>4, <1>6 DEF n

\* The stores of a struct: one word each, and only the last one writes LastWord.
StructOK(F, t) == /\ F \in Seq(StoreRec)
                  /\ \A m \in 1..Len(F) : /\ WordStore(F[m], 0, TypeSize(t) - 1)
                                          /\ m < Len(F) => F[m].at # LastWord(t)


\* The sequences that StoreStruct flattens.
LEMMA StructFields ==
  ASSUME NEW t, t.fields \in Seq(Kind), NEW fs, NEW ps,
         fs = [i \in DOMAIN t.fields |-> StoreTypeScalars(t.fields[i], FieldOff(t, i), FALSE, {})],
         ps = [i \in DOMAIN t.fields |-> StoreTypePtrs(t.fields[i], FieldOff(t, i), FALSE)]
  PROVE  /\ fs \in [1..Len(t.fields) -> Seq(StoreRec)] /\ ps \in [1..Len(t.fields) -> Seq(StoreRec)]
         /\ \A i \in 1..Len(t.fields) : /\ t.fields[i] \in Kind /\ FieldOff(t, i) \in Nat
                                        /\ ScalarsOf(fs[i], t.fields[i], FieldOff(t, i))
                                        /\ PtrsOf(ps[i], t.fields[i], FieldOff(t, i))
<1> DEFINE n == Len(t.fields)
<1>1. n \in Nat /\ DOMAIN t.fields = 1..n /\ \A i \in 1..n : t.fields[i] \in Kind
  OBVIOUS
<1>2. \A i \in 1..n : FieldOff(t, i) \in Nat
  BY <1>1, Offsets
<1> HIDE DEF n
<1>3. \A i \in 1..n : /\ fs[i] = StoreTypeScalars(t.fields[i], FieldOff(t, i), FALSE, {})
                      /\ ps[i] = StoreTypePtrs(t.fields[i], FieldOff(t, i), FALSE)
  BY <1>1
<1>4. \A i \in 1..n : ScalarsOf(fs[i], t.fields[i], FieldOff(t, i)) /\ PtrsOf(ps[i], t.fields[i], FieldOff(t, i))
  BY <1>1, <1>2, <1>3, FieldStores
<1>5. \A i \in 1..n : fs[i] \in Seq(StoreRec) /\ ps[i] \in Seq(StoreRec)
  BY <1>4 DEF ScalarsOf, PtrsOf
<1>6. fs \in [1..n -> Seq(StoreRec)] /\ ps \in [1..n -> Seq(StoreRec)]
  <2>1. \A i \in 1..n : StoreTypeScalars(t.fields[i], FieldOff(t, i), FALSE, {}) \in Seq(StoreRec)
    BY <1>3, <1>5
  <2>2. \A i \in 1..n : StoreTypePtrs(t.fields[i], FieldOff(t, i), FALSE) \in Seq(StoreRec)
    BY <1>3, <1>5
  <2>3. QED
    BY <1>1, <2>1, <2>2
<1>7. QED
  BY <1>1, <1>2, <1>4, <1>6 DEF n

\* A store of a field is one of the struct.
LEMMA InStruct ==
  ASSUME NEW t, t.fields \in Seq(Kind), NEW i \in 1..Len(t.fields), NEW r, WordStore(r, FieldOff(t, i), FieldOff(t, i) + Size(t.fields[i]) - 1)
  PROVE  WordStore(r, 0, TypeSize(t) - 1)
BY FieldsApart DEF WordStore

\* A flattened sequence in which all sequences are empty is empty.
LEMMA FromNothing ==
  ASSUME NEW S, NEW F \in Seq(S), NEW seqs, NEW n, From(F, seqs, n), \A i \in 1..n : Len(seqs[i]) = 0
  PROVE  Len(F) = 0
<1>1. Len(F) \in Nat
  OBVIOUS
<1>2. Len(F) # 0 => 1 \in 1..Len(F)
  BY <1>1
<1>3. 1 \in 1..Len(F) => \E i \in 1..n : \E k \in 1..Len(seqs[i]) : F[1] = seqs[i][k]
  BY DEF From
<1>4. ASSUME NEW i \in 1..n, NEW k \in 1..Len(seqs[i]) PROVE FALSE
  BY <1>4
<1>5. QED
  BY <1>2, <1>3, <1>4

\* Which word LastWord is.
LEMMA LastWordIs ==
  ASSUME NEW t, t.fields \in Seq(Kind), Len(t.fields) >= 1
  PROVE  \E i \in 1..Len(t.fields) :
           /\ LastWord(t) = PtrWord(t.fields[i], FieldOff(t, i))
           /\ LastWord(t) \in FieldOff(t, i)..(FieldOff(t, i) + Size(t.fields[i]) - 1)
           /\ \A j \in 1..Len(t.fields) : t.fields[j] # "int" => j <= i
           /\ t.fields[i] = "int" => i = Len(t.fields) /\ \A j \in 1..Len(t.fields) : t.fields[j] = "int"
<1> DEFINE n == Len(t.fields)
           ptrs == {i \in DOMAIN t.fields : t.fields[i] # "int"}
           i == IF ptrs = {} THEN n ELSE Max(ptrs)
<1>1. n \in Nat /\ n >= 1 /\ DOMAIN t.fields = 1..n /\ \A j \in 1..n : t.fields[j] \in Kind
  OBVIOUS
<1>2. LastWord(t) = FieldOff(t, i) + (IF t.fields[i] = "iface" THEN 1 ELSE 0)
  BY DEF LastWord
<1>3. \A j \in 1..n : FieldOff(t, j) \in Nat /\ Size(t.fields[j]) \in 1..3 /\ (t.fields[j] = "iface" => Size(t.fields[j]) = 2)
  <2>1. \A j \in 1..n : FieldOff(t, j) \in Nat
    BY <1>1, Offsets
  <2>2. Size("iface") = 2
    BY DEF Size
  <2>3. \A j \in 1..n : Size(t.fields[j]) \in 1..3
    BY <1>1, SizeType
  <2>4. QED
    BY <2>1, <2>2, <2>3
<1> HIDE DEF n
<1>4. /\ i \in 1..n /\ (\A j \in 1..n : t.fields[j] # "int" => j <= i)
      /\ (t.fields[i] = "int" => i = n /\ \A j \in 1..n : t.fields[j] = "int")
  <2>1. CASE ptrs = {}
    <3>1. i = n /\ \A j \in 1..n : t.fields[j] = "int"
      BY <1>1, <2>1
    <3>2. QED
      BY <3>1, <1>1
  <2>2. CASE ptrs # {}
    <3>1. ptrs \in SUBSET (0..n)
      BY <1>1
    <3>2. i = Max(ptrs)
      BY <2>2
    <3>3. ptrs = {j \in 1..n : t.fields[j] # "int"}
      BY <1>1
    <3> HIDE DEF ptrs, i
    <3>4. Max(ptrs) \in ptrs /\ \A x \in ptrs : Max(ptrs) >= x
      BY <2>2, <3>1, <1>1, MaxOf
    <3>5. QED
      BY <3>2, <3>3, <3>4, <1>1
  <2>3. QED
    BY <2>1, <2>2
<1> HIDE DEF i
<1>5. LastWord(t) = PtrWord(t.fields[i], FieldOff(t, i))
  BY <1>2 DEF PtrWord
<1>6. FieldOff(t, i) \in Nat /\ Size(t.fields[i]) \in 1..3 /\ (t.fields[i] = "iface" => Size(t.fields[i]) = 2)
  BY <1>3, <1>4
<1>7. LastWord(t) \in FieldOff(t, i)..(FieldOff(t, i) + Size(t.fields[i]) - 1)
  BY <1>2, <1>6
<1>8. QED
  BY <1>4, <1>5, <1>7 DEF n

\* The stores of a struct.
LEMMA StructStores ==
  ASSUME NEW t, t.fields \in Seq(Kind)
  PROVE  StructOK(StoreStruct(t), t)
<1> DEFINE n == Len(t.fields)
<1>1. PICK fs, ps :
        /\ fs = [i \in DOMAIN t.fields |-> StoreTypeScalars(t.fields[i], FieldOff(t, i), FALSE, {})]
        /\ ps = [i \in DOMAIN t.fields |-> StoreTypePtrs(t.fields[i], FieldOff(t, i), FALSE)]
  OBVIOUS
<1>2. PICK A, B : A = FlattenSeq(fs) /\ B = FlattenSeq(ps)
  OBVIOUS
<1>3. StoreStruct(t) = Cat(A, B)
  BY <1>1, <1>2 DEF StoreStruct, Cat
<1>4. /\ fs \in [1..n -> Seq(StoreRec)] /\ ps \in [1..n -> Seq(StoreRec)]
      /\ \A i \in 1..n : /\ t.fields[i] \in Kind /\ FieldOff(t, i) \in Nat
                         /\ ScalarsOf(fs[i], t.fields[i], FieldOff(t, i))
                         /\ PtrsOf(ps[i], t.fields[i], FieldOff(t, i))
  BY <1>1, StructFields
<1>0. n \in Nat
  OBVIOUS
<1>5. A \in Seq(StoreRec) /\ From(A, fs, n) /\ B \in Seq(StoreRec) /\ From(B, ps, n)
  <2> HIDE DEF n, StoreRec
  <2> QED
    BY <1>0, <1>2, <1>4, FlattenType
<1> DEFINE L == LastWord(t)
           Lo(i) == FieldOff(t, i)
           Hi(i) == FieldOff(t, i) + Size(t.fields[i]) - 1
           la == Len(A)
           lb == Len(B)
           F == Cat(A, B)
<1>6. F \in Seq(StoreRec) /\ IsCat(F, A, B)
  BY <1>5, CatFacts
<1> HIDE DEF F, n
<1>7. /\ Len(F) = la + lb /\ la \in Nat /\ lb \in Nat
      /\ \A i \in 1..la : F[i] = A[i]
      /\ \A i \in (la + 1)..(la + lb) : F[i] = B[i - la]
  BY <1>6 DEF IsCat
\* where the stores come from
<1>8. ASSUME NEW m \in 1..la
      PROVE  \E i \in 1..n : WordStore(A[m], Lo(i), Hi(i)) /\ (t.fields[i] # "int" => A[m].at # PtrWord(t.fields[i], Lo(i)))
  <2>1. PICK i \in 1..n : \E k \in 1..Len(fs[i]) : A[m] = fs[i][k]
    BY <1>5 DEF From
  <2>2. ScalarsOf(fs[i], t.fields[i], FieldOff(t, i))
    BY <1>4
  <2>3. QED
    BY <2>1, <2>2 DEF ScalarsOf
<1>9. ASSUME NEW m \in 1..lb
      PROVE  \E i \in 1..n : WordStore(B[m], Lo(i), Hi(i)) /\ t.fields[i] # "int" /\ B[m].at = PtrWord(t.fields[i], Lo(i))
  <2>1. PICK i \in 1..n : \E k \in 1..Len(ps[i]) : B[m] = ps[i][k]
    BY <1>5 DEF From
  <2>2. PtrsOf(ps[i], t.fields[i], FieldOff(t, i))
    BY <1>4
  <2>3. Len(ps[i]) = 1
    <3>1. PICK l : l = Len(ps[i])
      OBVIOUS
    <3>2. l \in Nat /\ l <= 1
      BY <2>2, <3>1 DEF PtrsOf
    <3>3. l # 0
      BY <2>1, <3>1
    <3>4. l = 1
      BY <3>2, <3>3
    <3>5. QED
      BY <3>1, <3>4
  <2>4. QED
    BY <2>1, <2>2, <2>3 DEF PtrsOf
<1>10. ASSUME NEW m \in 1..Len(F)
       PROVE  WordStore(F[m], 0, TypeSize(t) - 1)
  <2>1. \E i \in 1..n : WordStore(F[m], Lo(i), Hi(i))
    <3>1. CASE m \in 1..la
      BY <3>1, <1>7, <1>8
    <3>2. CASE m \in (la + 1)..(la + lb)
      <4>1. m - la \in 1..lb /\ F[m] = B[m - la]
        BY <3>2, <1>7
      <4>2. QED
        BY <4>1, <1>9
    <3>3. QED
      BY <3>1, <3>2, <1>7
  <2>2. QED
    BY <2>1, InStruct DEF n
<1>11. ASSUME NEW m \in 1..Len(F), m < Len(F)
       PROVE  F[m].at # L
  <2>0. n >= 1
    <3>1. n = 0 => la = 0 /\ lb = 0
      <4>1. n = 0 => (1..n) = {}
        BY <1>0
      <4>2. QED
        BY <4>1, <1>5, <1>7 DEF From
    <3>2. QED
      BY <3>1, <1>7, <1>0
  <2>1. PICK top \in 1..n :
           /\ L = PtrWord(t.fields[top], Lo(top))
           /\ L \in Lo(top)..Hi(top)
           /\ \A j \in 1..n : t.fields[j] # "int" => j <= top
           /\ t.fields[top] = "int" => top = n /\ \A j \in 1..n : t.fields[j] = "int"
    BY <2>0, LastWordIs DEF n
  <2>2. ASSUME NEW i \in 1..n, i # top, NEW r, WordStore(r, Lo(i), Hi(i))
        PROVE  r.at # L
    <3>1. r.at \in Lo(i)..Hi(i)
      BY <2>2 DEF WordStore
    <3>2. QED
      BY <3>1, <2>1, <2>2, FieldsApart DEF n
  <2> HIDE DEF L
  <2>3. CASE t.fields[top] # "int"
    <3>1. CASE m \in 1..la
      <4>1. PICK i \in 1..n : WordStore(A[m], Lo(i), Hi(i)) /\ (t.fields[i] # "int" => A[m].at # PtrWord(t.fields[i], Lo(i)))
        BY <3>1, <1>8
      <4>2. F[m] = A[m]
        BY <3>1, <1>7
      <4>3. CASE i = top
        BY <4>1, <4>2, <4>3, <2>1, <2>3
      <4>4. CASE i # top
        BY <4>1, <4>2, <4>4, <2>2
      <4>5. QED
        BY <4>3, <4>4
    <3>2. CASE m \in (la + 1)..(la + lb)
      <4>1. m - la \in 1..lb /\ F[m] = B[m - la] /\ m - la < lb
        BY <3>2, <1>7, <1>11
      <4>2. PICK src : Sparse(ps, StoreRec, B, src, n)
        <5>1. \A i \in 1..n : Len(ps[i]) <= 1
          BY <1>4 DEF PtrsOf
        <5>2. QED
          BY <5>1, <2>0, <1>0, <1>2, <1>4, SparseFlatten
      <4> DEFINE k == m - la
      <4>3. /\ src[k] \in 1..n /\ src[lb] \in 1..n /\ src[k] < src[lb]
            /\ Len(ps[src[k]]) = 1 /\ ps[src[k]][1] = B[k] /\ Len(ps[src[lb]]) = 1
        <5>1. lb \in 1..lb
          BY <4>1, <1>7
        <5>2. k \in 1..lb /\ k < lb
          BY <4>1
        <5> HIDE DEF k
        <5>3. QED
          BY <4>2, <5>1, <5>2 DEF Sparse
      <4>4. src[lb] <= top
        <5>1. PtrsOf(ps[src[lb]], t.fields[src[lb]], FieldOff(t, src[lb]))
          BY <4>3, <1>4
        <5>2. t.fields[src[lb]] # "int"
          BY <5>1, <4>3 DEF PtrsOf
        <5>3. QED
          BY <5>2, <4>3, <2>1
      <4>5. src[k] # top
        BY <4>3, <4>4
      <4>6. WordStore(B[k], Lo(src[k]), Hi(src[k]))
        <5>1. PtrsOf(ps[src[k]], t.fields[src[k]], FieldOff(t, src[k]))
          BY <4>3, <1>4
        <5>2. 1 \in 1..Len(ps[src[k]])
          BY <4>3
        <5>3. QED
          BY <5>1, <5>2, <4>3 DEF PtrsOf
      <4>7. QED
        BY <4>1, <4>3, <4>5, <4>6, <2>2
    <3>3. QED
      BY <3>1, <3>2, <1>7
  <2>4. CASE t.fields[top] = "int"
    <3>1. top = n /\ \A j \in 1..n : t.fields[j] = "int"
      BY <2>4, <2>1
    <3>2. lb = 0
      <4>1. \A i \in 1..n : Len(ps[i]) = 0
        <5>1. ASSUME NEW i \in 1..n PROVE Len(ps[i]) = 0
          <6>1. PICK l : l = Len(ps[i])
            OBVIOUS
          <6>2. PtrsOf(ps[i], t.fields[i], FieldOff(t, i)) /\ t.fields[i] = "int"
            BY <1>4, <3>1
          <6>3. l \in Nat /\ l <= 1
            BY <6>1, <6>2 DEF PtrsOf
          <6>4. l # 1
            BY <6>1, <6>2 DEF PtrsOf
          <6>5. l = 0
            BY <6>3, <6>4
          <6>6. QED
            BY <6>1, <6>5
        <5>2. QED
          BY <5>1
      <4>2. QED
        BY <4>1, <1>5, FromNothing
    <3>3. Len(F) = la /\ m \in 1..la /\ m < la /\ F[m] = A[m]
      BY <3>2, <1>7, <1>11
    <3>4. \A i \in 1..n : Len(fs[i]) = 1
      BY <1>4, <3>1 DEF ScalarsOf
    <3>5. PICK src : Sparse(fs, StoreRec, A, src, n)
      <4>0. ASSUME NEW l, l = 1 PROVE l <= 1
        BY <4>0
      <4>1. \A i \in 1..n : Len(fs[i]) <= 1
        BY <3>4, <4>0, Zenon
      <4>2. QED
        BY <4>1, <2>0, <1>0, <1>2, <1>4, SparseFlatten
    <3>6. /\ src[m] \in 1..n /\ src[la] \in 1..n /\ src[m] < src[la]
          /\ Len(fs[src[m]]) = 1 /\ fs[src[m]][1] = A[m]
      <4>1. la \in 1..la
        BY <3>3, <1>7
      <4>2. m \in 1..la /\ m < la
        BY <3>3
      <4>3. QED
        BY <4>1, <4>2, <3>5 DEF Sparse
    <3>7. src[m] # top
      BY <3>1, <3>6
    <3>8. WordStore(A[m], Lo(src[m]), Hi(src[m]))
      <4>1. ScalarsOf(fs[src[m]], t.fields[src[m]], FieldOff(t, src[m]))
        BY <3>6, <1>4
      <4>2. 1 \in 1..Len(fs[src[m]])
        BY <3>6
      <4>3. QED
        BY <4>1, <4>2, <3>6 DEF ScalarsOf
    <3>9. QED
      BY <3>3, <3>6, <3>7, <3>8, <2>2
  <2>5. QED
    BY <2>3, <2>4
<1>12. StructOK(F, t)
  BY <1>6, <1>10, <1>11 DEF StructOK
<1>13. QED
  BY <1>3, <1>12 DEF F

------------------------------------------------------------------------------
(* Which words of an assignment the log covers.                            *)

\* The words that Log3 records of a store.
Span(r) == r.at..(r.at + r.elem - 1)

\* The store that assign marks, if the assignment has stores.
MarkOf(stores) == LET hits == {i \in DOMAIN stores : stores[i].left}
                  IN  IF hits # {} THEN Min(hits) ELSE Len(stores)

\* Every word that is stored and is not in U is recorded before.
GoodStores(stores, U) ==
  /\ stores \in Seq(StoreRec)
  /\ Len(stores) > 0 => MarkOf(stores) \in 1..Len(stores)
  /\ \A q \in 1..Len(stores) : \A w \in stores[q].words :
       w \in U \/ (MarkOf(stores) <= q /\ w \in Span(stores[MarkOf(stores)]))

\* The marked store is the first one through the address of the assignment.
LEMMA MarkFirst ==
  ASSUME NEW stores \in Seq(StoreRec), NEW i \in 1..Len(stores), stores[i].left, \A j \in 1..Len(stores) : j < i => ~stores[j].left
  PROVE  MarkOf(stores) = i
<1> DEFINE hits == {j \in DOMAIN stores : stores[j].left}
<1>1. i \in hits /\ hits \in SUBSET Nat /\ hits # {} /\ \A j \in hits : j \in 1..Len(stores) /\ stores[j].left
  OBVIOUS
<1>2. MarkOf(stores) = Min(hits)
  BY <1>1 DEF MarkOf
<1> HIDE DEF hits
<1>3. Min(hits) \in hits /\ \A x \in hits : Min(hits) <= x
  BY <1>1, MinOf
<1>4. Min(hits) \in Nat /\ Min(hits) <= i /\ ~(Min(hits) < i)
  BY <1>1, <1>3
<1>5. QED
  BY <1>2, <1>4

\* Or else the last one.
LEMMA MarkLast ==
  ASSUME NEW stores \in Seq(StoreRec), \A j \in 1..Len(stores) : ~stores[j].left
  PROVE  MarkOf(stores) = Len(stores)
<1>1. {j \in DOMAIN stores : stores[j].left} = {}
  OBVIOUS
<1>2. QED
  BY <1>1 DEF MarkOf

\* No store.
LEMMA Good0 ==
  ASSUME NEW U
  PROVE  GoodStores(<<>>, U)
BY DEF GoodStores

\* One store, that records what it writes.
LEMMA Good1 ==
  ASSUME NEW x \in StoreRec, x.words \subseteq Span(x), NEW U
  PROVE  GoodStores(<<x>>, U)
<1>0. PICK s : s = <<x>>
  OBVIOUS
<1>1. s \in Seq(StoreRec) /\ Len(s) = 1 /\ \A i \in 1..Len(s) : i = 1 /\ s[i] = x
  BY <1>0, Row1
<1>2. MarkOf(s) = 1
  <2>1. CASE x.left
    BY <2>1, <1>1, MarkFirst
  <2>2. CASE ~x.left
    BY <2>2, <1>1, MarkLast
  <2>3. QED
    BY <2>1, <2>2
<1>3. \A q \in 1..Len(s) : \A w \in s[q].words : MarkOf(s) <= q /\ w \in Span(s[MarkOf(s)])
  BY <1>1, <1>2
<1>4. GoodStores(s, U)
  BY <1>1, <1>2, <1>3 DEF GoodStores
<1>5. QED
  BY <1>0, <1>4

\* Two stores, the first of which is through the address and records both.
LEMMA Good2First ==
  ASSUME NEW x \in StoreRec, NEW y \in StoreRec, x.left, x.words \subseteq Span(x), y.words \subseteq Span(x), NEW U
  PROVE  GoodStores(<<x>> \o <<y>>, U)
<1>0. PICK s : s = <<x>> \o <<y>>
  OBVIOUS
<1>1. s \in Seq(StoreRec) /\ Len(s) = 2 /\ s[1] = x /\ s[2] = y
  BY <1>0, Row2
<1>2. MarkOf(s) = 1
  BY <1>1, MarkFirst
<1>3. \A q \in 1..Len(s) : \A w \in s[q].words : MarkOf(s) <= q /\ w \in Span(s[MarkOf(s)])
  BY <1>1, <1>2
<1>4. GoodStores(s, U)
  BY <1>1, <1>2, <1>3 DEF GoodStores
<1>5. QED
  BY <1>0, <1>4

\* Two stores, the second of which is marked and the first is not covered.
LEMMA Good2Second ==
  ASSUME NEW x \in StoreRec, NEW y \in StoreRec, ~x.left, NEW U, x.words \subseteq U, y.words \subseteq Span(y)
  PROVE  GoodStores(<<x>> \o <<y>>, U)
<1>0. PICK s : s = <<x>> \o <<y>>
  OBVIOUS
<1>1. s \in Seq(StoreRec) /\ Len(s) = 2 /\ s[1] = x /\ s[2] = y
  BY <1>0, Row2
<1>n. \A j \in 1..Len(s) : j = 1 \/ j = 2
  BY <1>1
<1>2. MarkOf(s) = 2
  <2>1. CASE y.left
    <3>1. \A j \in 1..Len(s) : j < 2 => ~s[j].left
      BY <1>1
    <3>2. 2 \in 1..Len(s)
      BY <1>1
    <3>3. QED
      BY <2>1, <3>1, <3>2, <1>1, MarkFirst
  <2>2. CASE ~y.left
    <3>1. \A j \in 1..Len(s) : ~s[j].left
      BY <1>1, <1>n, <2>2
    <3>2. QED
      BY <3>1, <1>1, MarkLast
  <2>3. QED
    BY <2>1, <2>2
<1>3. \A q \in 1..Len(s) : \A w \in s[q].words : w \in U \/ (MarkOf(s) <= q /\ w \in Span(s[MarkOf(s)]))
  BY <1>1, <1>2, <1>n
<1>4. GoodStores(s, U)
  BY <1>1, <1>2, <1>3 DEF GoodStores
<1>5. QED
  BY <1>0, <1>4

\* Three stores, the first of which is through the address and records all.
LEMMA Good3 ==
  ASSUME NEW x \in StoreRec, NEW y \in StoreRec, NEW z \in StoreRec, x.left, NEW U,
         x.words \subseteq Span(x), y.words \subseteq Span(x), z.words \subseteq Span(x)
  PROVE  GoodStores(<<x>> \o (<<y>> \o <<z>>), U)
<1>0. PICK a, b : a = <<x>> /\ b = <<y>> \o <<z>>
  OBVIOUS
<1>1. /\ a \in Seq(StoreRec) /\ Len(a) = 1 /\ a[1] = x
      /\ b \in Seq(StoreRec) /\ Len(b) = 2 /\ b[1] = y /\ b[2] = z
  BY <1>0, Row1, Row2
<1>2. PICK s : s = Cat(a, b)
  OBVIOUS
<1>3. s \in Seq(StoreRec) /\ IsCat(s, a, b)
  BY <1>1, <1>2, CatFacts
<1>4. Len(s) = 3 /\ s[1] = x /\ s[2] = y /\ s[3] = z
  BY <1>1, <1>3 DEF IsCat
<1>5. MarkOf(s) = 1
  BY <1>3, <1>4, MarkFirst
<1>6. \A q \in 1..Len(s) : \A w \in s[q].words : MarkOf(s) <= q /\ w \in Span(s[MarkOf(s)])
  <2>1. \A q \in 1..Len(s) : q = 1 \/ q = 2 \/ q = 3
    BY <1>4
  <2>2. QED
    BY <2>1, <1>4, <1>5
<1>7. GoodStores(s, U)
  BY <1>3, <1>4, <1>5, <1>6 DEF GoodStores
<1>8. QED
  BY <1>0, <1>2, <1>7 DEF Cat

\* A struct.
LEMMA GoodStruct ==
  ASSUME NEW t, NEW F, StructOK(F, t)
  PROVE  GoodStores(F, (0..(TypeSize(t) - 1)) \ {LastWord(t)})
<1> DEFINE U == (0..(TypeSize(t) - 1)) \ {LastWord(t)}
<1>1. F \in Seq(StoreRec) /\ Len(F) \in Nat
  BY DEF StructOK
<1>2. \A m \in 1..Len(F) : /\ ~F[m].left /\ F[m].words = {F[m].at} /\ F[m].at \in 0..(TypeSize(t) - 1)
                           /\ (F[m].at # LastWord(t) => F[m].at \in U) /\ F[m].at \in Span(F[m])
                           /\ (m < Len(F) => F[m].at # LastWord(t))
  <2> TAKE m \in 1..Len(F)
  <2>1. WordStore(F[m], 0, TypeSize(t) - 1) /\ (m < Len(F) => F[m].at # LastWord(t))
    BY DEF StructOK
  <2>2. ~F[m].left /\ F[m].words = {F[m].at} /\ F[m].at \in 0..(TypeSize(t) - 1) /\ F[m].elem >= 1 /\ F[m] \in StoreRec
    BY <2>1 DEF WordStore
  <2>3. F[m].at \in Nat /\ F[m].elem \in Nat
    BY <2>2 DEF StoreRec
  <2>4. QED
    BY <2>1, <2>2, <2>3 DEF Span
<1>3. MarkOf(F) = Len(F)
  BY <1>1, <1>2, MarkLast
<1> HIDE DEF U
<1>4. ASSUME NEW q \in 1..Len(F), NEW w \in F[q].words
      PROVE  w \in U \/ (Len(F) <= q /\ w \in Span(F[Len(F)]))
  <2>1. CASE q < Len(F)
    BY <2>1, <1>2
  <2>2. CASE q = Len(F)
    BY <2>2, <1>2
  <2>3. QED
    BY <2>1, <2>2, <1>1
<1>5. Len(F) > 0 => Len(F) \in 1..Len(F)
  BY <1>1
<1>6. GoodStores(F, U)
  BY <1>1, <1>3, <1>4, <1>5 DEF GoodStores
<1>7. QED
  BY <1>6 DEF U

\* A store of one word through the address of the assignment or not.
IsS(r, w, e, l) == r \in StoreRec /\ (r.left <=> l) /\ r.words = {w} /\ w \in Span(r) /\ Span(r) = w..(w + e - 1)

\* The stores of a single value.
LEMMA StoreIs ==
  /\ IsS(Store1(0, 1, TRUE), 0, 1, TRUE) /\ IsS(Store1(0, 2, TRUE), 0, 2, TRUE) /\ IsS(Store1(0, 3, TRUE), 0, 3, TRUE)
  /\ IsS(Store1(1, 1, FALSE), 1, 1, FALSE) /\ IsS(Store1(2, 1, FALSE), 2, 1, FALSE)
  /\ IsS(Store1(0, 3, FALSE), 0, 3, FALSE)
<1> USE DEF IsS, Span
<1>1. IsS(Store1(0, 1, TRUE), 0, 1, TRUE)
  BY DEF Store1, StoreRec
<1>2. IsS(Store1(0, 2, TRUE), 0, 2, TRUE)
  BY DEF Store1, StoreRec
<1>3. IsS(Store1(0, 3, TRUE), 0, 3, TRUE)
  BY DEF Store1, StoreRec
<1>4. IsS(Store1(1, 1, FALSE), 1, 1, FALSE)
  BY DEF Store1, StoreRec
<1>5. IsS(Store1(2, 1, FALSE), 2, 1, FALSE)
  BY DEF Store1, StoreRec
<1>6. IsS(Store1(0, 3, FALSE), 0, 3, FALSE)
  BY DEF Store1, StoreRec
<1>7. QED
  BY <1>1, <1>2, <1>3, <1>4, <1>5, <1>6

\* The stores of a field that is assigned by itself.
LEMMA SingleStores ==
  ASSUME NEW skip
  PROVE  /\ StoreTypeScalars("int", 0, TRUE, skip) = <<Store1(0, 1, TRUE)>>
         /\ StoreTypeScalars("ptr", 0, TRUE, skip) = <<>>
         /\ StoreTypeScalars("string", 0, TRUE, skip) = IF "len" \in skip THEN <<>> ELSE <<Store1(1, 1, FALSE)>>
         /\ StoreTypeScalars("iface", 0, TRUE, skip) = <<Store1(0, 2, TRUE)>>
         /\ StoreTypePtrs("int", 0, TRUE) = <<>>
         /\ StoreTypePtrs("ptr", 0, TRUE) = <<Store1(0, 1, TRUE)>>
         /\ StoreTypePtrs("string", 0, TRUE) = <<Store1(0, 2, TRUE)>>
         /\ StoreTypePtrs("slice", 0, TRUE) = <<Store1(0, 3, TRUE)>>
         /\ StoreTypePtrs("iface", 0, TRUE) = <<Store1(1, 1, FALSE)>>
         /\ StoreTypeScalars("slice", 0, TRUE, skip) =
              (IF "len" \in skip THEN <<>> ELSE <<Store1(1, 1, FALSE)>>)
              \o (IF "cap" \in skip THEN <<>> ELSE <<Store1(2, 1, FALSE)>>)
<1>0. 0 + 1 = 1 /\ 0 + 2 = 2
  OBVIOUS
<1>1. /\ StoreTypeScalars("int", 0, TRUE, skip) = <<Store1(0, 1, TRUE)>>
      /\ StoreTypeScalars("ptr", 0, TRUE, skip) = <<>>
      /\ StoreTypeScalars("string", 0, TRUE, skip) = IF "len" \in skip THEN <<>> ELSE <<Store1(1, 1, FALSE)>>
      /\ StoreTypeScalars("iface", 0, TRUE, skip) = <<Store1(0, 2, TRUE)>>
  BY <1>0 DEF StoreTypeScalars
<1>2. /\ StoreTypePtrs("int", 0, TRUE) = <<>>
      /\ StoreTypePtrs("ptr", 0, TRUE) = <<Store1(0, 1, TRUE)>>
      /\ StoreTypePtrs("string", 0, TRUE) = <<Store1(0, 2, TRUE)>>
      /\ StoreTypePtrs("slice", 0, TRUE) = <<Store1(0, 3, TRUE)>>
      /\ StoreTypePtrs("iface", 0, TRUE) = <<Store1(1, 1, FALSE)>>
  BY <1>0 DEF StoreTypePtrs, Size
<1>3. StoreTypeScalars("slice", 0, TRUE, skip) =
              (IF "len" \in skip THEN <<>> ELSE <<Store1(1, 1, FALSE)>>)
              \o (IF "cap" \in skip THEN <<>> ELSE <<Store1(2, 1, FALSE)>>)
  BY <1>0 DEF StoreTypeScalars
<1>4. QED
  BY <1>1, <1>2, <1>3

\* Nothing before and nothing behind.
LEMMA CatNone ==
  ASSUME NEW s \in Seq(StoreRec)
  PROVE  <<>> \o s = s /\ s \o <<>> = s
<1>1. <<>> \o s = s
  OBVIOUS
<1>2. s \o <<>> = s
  OBVIOUS
<1>3. QED
  BY <1>1, <1>2

\* The stores of a single value: what the mark covers.
LEMMA GoodSingle ==
  ASSUME NEW t, NEW k \in Kind, t.fields[1] = k, NEW skip \in SUBSET {"ptr", "len", "cap"}, NEW U,
         IF k = "string" THEN "ptr" \notin skip => 1 \in U ELSE skip = {"ptr"} => 1 \in U
  PROVE  GoodStores(StoreSingle(t, skip), U)
<1>0. PICK a1, a2, a3, b1, b2 : /\ a1 = Store1(0, 1, TRUE) /\ a2 = Store1(0, 2, TRUE) /\ a3 = Store1(0, 3, TRUE)
                                /\ b1 = Store1(1, 1, FALSE) /\ b2 = Store1(2, 1, FALSE)
  OBVIOUS
<1>1. /\ IsS(a1, 0, 1, TRUE) /\ IsS(a2, 0, 2, TRUE) /\ IsS(a3, 0, 3, TRUE)
      /\ IsS(b1, 1, 1, FALSE) /\ IsS(b2, 2, 1, FALSE)
  BY <1>0, StoreIs
<1>2. /\ a1 \in StoreRec /\ a1.words \subseteq Span(a1)
      /\ a2 \in StoreRec /\ a2.words \subseteq Span(a2) /\ a2.left
      /\ a3 \in StoreRec /\ a3.words \subseteq Span(a3) /\ a3.left
      /\ b1 \in StoreRec /\ b1.words \subseteq Span(b1) /\ ~b1.left /\ b1.words = {1}
      /\ b2 \in StoreRec /\ b2.words \subseteq Span(b2) /\ ~b2.left
      /\ b1.words \subseteq Span(a2) /\ b1.words \subseteq Span(a3) /\ b2.words \subseteq Span(a3)
  BY <1>1 DEF IsS
<1> HIDE DEF StoreRec
<1>3. \A s \in {a1, a2, a3, b1, b2} : <<s>> \in Seq(StoreRec) /\ <<>> \o <<s>> = <<s>> /\ <<s>> \o <<>> = <<s>>
  <2>1. ASSUME NEW s \in StoreRec PROVE <<s>> \in Seq(StoreRec) /\ <<>> \o <<s>> = <<s>> /\ <<s>> \o <<>> = <<s>>
    <3>1. <<s>> \in Seq(StoreRec)
      BY <2>1, Row1
    <3>2. QED
      BY <3>1, CatNone
  <2>2. QED
    BY <2>1, <1>2
<1>4. PICK e : e = <<>>
  OBVIOUS
<1>5. e \o e = e
  BY <1>4
<1>6. CASE k = "int"
  <2>1. StoreSingle(t, skip) = <<a1>>
    BY <1>0, <1>3, <1>6, SingleStores DEF StoreSingle
  <2>2. QED
    BY <2>1, <1>2, Good1
<1>7. CASE k = "ptr"
  <2>1. CASE "ptr" \in skip
    <3>1. StoreSingle(t, skip) = <<>>
      BY <2>1, <1>4, <1>5, <1>7, SingleStores DEF StoreSingle
    <3>2. QED
      BY <3>1, Good0
  <2>2. CASE "ptr" \notin skip
    <3>1. StoreSingle(t, skip) = <<a1>>
      BY <2>2, <1>0, <1>3, <1>7, SingleStores DEF StoreSingle
    <3>2. QED
      BY <3>1, <1>2, Good1
  <2>3. QED
    BY <2>1, <2>2
<1>8. CASE k = "string"
  <2> DEFINE len == IF "len" \in skip THEN <<>> ELSE <<b1>>
  <2>1. StoreSingle(t, skip) = len \o (IF "ptr" \in skip THEN <<>> ELSE <<a2>>)
    BY <1>0, <1>8, SingleStores DEF StoreSingle
  <2>2. /\ "len" \in skip => len = <<>>
        /\ "len" \notin skip => len = <<b1>>
    OBVIOUS
  <2> HIDE DEF len
  <2>3. CASE "ptr" \in skip /\ "len" \in skip
    BY <2>1, <2>2, <2>3, <1>4, <1>5, Good0
  <2>4. CASE "ptr" \in skip /\ "len" \notin skip
    BY <2>1, <2>2, <2>4, <1>2, <1>3, Good1
  <2>5. CASE "ptr" \notin skip /\ "len" \in skip
    BY <2>1, <2>2, <2>5, <1>2, <1>3, Good1
  <2>6. CASE "ptr" \notin skip /\ "len" \notin skip
    <3>1. StoreSingle(t, skip) = <<b1>> \o <<a2>>
      BY <2>1, <2>2, <2>6
    <3>2. b1.words \subseteq U
      BY <1>2, <1>8, <2>6
    <3>3. QED
      BY <3>1, <3>2, <1>2, Good2Second
  <2>7. QED
    BY <2>3, <2>4, <2>5, <2>6
<1>9. CASE k = "iface"
  <2>1. CASE "ptr" \in skip
    <3>1. StoreSingle(t, skip) = <<a2>>
      <4>1. StoreSingle(t, skip) = StoreTypeScalars("iface", 0, TRUE, skip) \o <<>>
        BY <2>1, <1>9 DEF StoreSingle
      <4>2. StoreTypeScalars("iface", 0, TRUE, skip) = <<a2>>
        BY <1>0, SingleStores
      <4>3. <<a2>> \o <<>> = <<a2>>
        BY <1>3
      <4>4. QED
        BY <4>1, <4>2, <4>3
    <3>2. QED
      BY <3>1, <1>2, Good1
  <2>2. CASE "ptr" \notin skip
    <3>1. StoreSingle(t, skip) = <<a2>> \o <<b1>>
      BY <2>2, <1>0, <1>9, SingleStores DEF StoreSingle
    <3>2. QED
      BY <3>1, <1>2, Good2First
  <2>3. QED
    BY <2>1, <2>2
<1>10. CASE k = "slice"
  <2> DEFINE tail == (IF "len" \in skip THEN <<>> ELSE <<b1>>) \o (IF "cap" \in skip THEN <<>> ELSE <<b2>>)
  <2>1. StoreSingle(t, skip) = (IF "ptr" \in skip THEN <<>> ELSE <<a3>>) \o tail
    BY <1>0, <1>10, SingleStores DEF StoreSingle
  <2>2. /\ "len" \in skip /\ "cap" \in skip => tail = <<>>
        /\ "len" \in skip /\ "cap" \notin skip => tail = <<b2>>
        /\ "len" \notin skip /\ "cap" \in skip => tail = <<b1>>
        /\ "len" \notin skip /\ "cap" \notin skip => tail = <<b1>> \o <<b2>>
    BY <1>3, <1>4, <1>5
  <2>3. <<b1>> \o <<b2>> \in Seq(StoreRec)
    BY <1>2, Row2
  <2>4. <<>> \o (<<b1>> \o <<b2>>) = <<b1>> \o <<b2>>
    BY <2>3, CatNone
  <2> HIDE DEF tail
  <2>5. CASE "ptr" \in skip
    <3>1. StoreSingle(t, skip) = <<>> \o tail
      BY <2>1, <2>5
    <3>2. CASE tail = <<>>
      BY <3>1, <3>2, <1>4, <1>5, Good0
    <3>3. CASE tail = <<b2>>
      BY <3>1, <3>3, <1>3, <1>2, Good1
    <3>4. CASE tail = <<b1>>
      BY <3>1, <3>4, <1>3, <1>2, Good1
    <3>5. CASE "len" \notin skip /\ "cap" \notin skip
      <4>1. skip = {"ptr"}
        BY <2>5, <3>5
      <4>2. b1.words \subseteq U
        BY <4>1, <1>2, <1>10
      <4>3. StoreSingle(t, skip) = <<b1>> \o <<b2>>
        BY <3>1, <3>5, <2>2, <2>4
      <4>4. QED
        BY <4>2, <4>3, <1>2, Good2Second
    <3>6. QED
      BY <3>2, <3>3, <3>4, <3>5, <2>2
  <2>6. CASE "ptr" \notin skip
    <3>1. StoreSingle(t, skip) = <<a3>> \o tail
      BY <2>1, <2>6
    <3>2. CASE tail = <<>>
      BY <3>1, <3>2, <1>3, <1>2, Good1
    <3>3. CASE tail = <<b2>>
      <4>1. GoodStores(<<a3>> \o <<b2>>, U)
        BY <1>2, Good2First
      <4>2. QED
        BY <4>1, <3>1, <3>3, Zenon
    <3>4. CASE tail = <<b1>>
      <4>1. GoodStores(<<a3>> \o <<b1>>, U)
        BY <1>2, Good2First
      <4>2. QED
        BY <4>1, <3>1, <3>4, Zenon
    <3>5. CASE tail = <<b1>> \o <<b2>>
      <4>1. GoodStores(<<a3>> \o (<<b1>> \o <<b2>>), U)
        BY <1>2, Good3
      <4>2. QED
        BY <4>1, <3>1, <3>5, Zenon
    <3>6. QED
      BY <3>2, <3>3, <3>4, <3>5, <2>2
  <2>7. QED
    BY <2>5, <2>6
<1>11. QED
  BY <1>6, <1>7, <1>8, <1>9, <1>10 DEF Kind

\* A slice that is stored with its pointer writes the words 0 to 2.
LEMMA SliceWords ==
  ASSUME NEW t, t.fields[1] = "slice", NEW skip \in SUBSET {"ptr", "len", "cap"}, "ptr" \notin skip
  PROVE  \A q \in 1..Len(StoreSingle(t, skip)) : StoreSingle(t, skip)[q].words \subseteq 0..2
<1>0. PICK a3, b1, b2 : a3 = Store1(0, 3, TRUE) /\ b1 = Store1(1, 1, FALSE) /\ b2 = Store1(2, 1, FALSE)
  OBVIOUS
<1>1. IsS(a3, 0, 3, TRUE) /\ IsS(b1, 1, 1, FALSE) /\ IsS(b2, 2, 1, FALSE)
  BY <1>0, StoreIs
<1>2. a3 \in StoreRec /\ b1 \in StoreRec /\ b2 \in StoreRec /\ a3.left /\ Span(a3) = 0..2
  BY <1>1 DEF IsS
<1>3. PICK tail : tail = (IF "len" \in skip THEN <<>> ELSE <<b1>>) \o (IF "cap" \in skip THEN <<>> ELSE <<b2>>)
  OBVIOUS
<1>4. tail \in Seq(StoreRec)
  <2>1. <<b1>> \in Seq(StoreRec) /\ <<b2>> \in Seq(StoreRec) /\ <<>> \in Seq(StoreRec)
    BY <1>2, Row1
  <2>2. PICK x, y : x = (IF "len" \in skip THEN <<>> ELSE <<b1>>) /\ y = (IF "cap" \in skip THEN <<>> ELSE <<b2>>)
    OBVIOUS
  <2>3. x \in Seq(StoreRec) /\ y \in Seq(StoreRec) /\ tail = Cat(x, y)
    BY <2>1, <2>2, <1>3 DEF Cat
  <2>4. QED
    BY <2>3, CatFacts
<1>5. PICK s : s = StoreSingle(t, skip)
  OBVIOUS
<1>6. s = Cat(<<a3>>, tail)
  BY <1>0, <1>3, <1>5, SingleStores DEF StoreSingle, Cat
<1>7. PICK a : a = <<a3>>
  OBVIOUS
<1>8. a \in Seq(StoreRec) /\ Len(a) = 1 /\ a[1] = a3
  BY <1>2, <1>7, Row1
<1>9. s \in Seq(StoreRec) /\ IsCat(s, a, tail)
  BY <1>4, <1>6, <1>7, <1>8, CatFacts
<1>10. Len(s) \in Nat /\ 1 \in 1..Len(s) /\ s[1] = a3
  BY <1>8, <1>9 DEF IsCat
<1>11. MarkOf(s) = 1
  BY <1>2, <1>9, <1>10, MarkFirst
<1>12. GoodStores(s, {})
  <2>1. "slice" # "string" /\ skip # {"ptr"} /\ "slice" \in Kind
    BY DEF Kind
  <2>2. QED
    BY <2>1, <1>5, GoodSingle
<1>13. \A q \in 1..Len(s) : \A w \in s[q].words : w \in Span(s[1])
  BY <1>11, <1>12 DEF GoodStores
<1>14. QED
  BY <1>2, <1>5, <1>10, <1>13

\* The address that the stores of an assignment carry.
LEMMA AddrType ==
  ASSUME NEW st \in Assignment, \E i \in DOMAIN st.addr : st.addr[i].op \notin Derived \cup {"Load"}
  PROVE  /\ AddrOf(st) \in Seq(Node) /\ DOMAIN AddrOf(st) = DOMAIN st.addr
         /\ \A i \in DOMAIN st.addr : AddrOf(st)[i].op = st.addr[i].op
         /\ \A i \in DOMAIN st.addr : i # 1 => AddrOf(st)[i] = st.addr[i]
         /\ AddrOf(st)[1].vheap => st.addr[1].vheap \/ (StoresSlice(st) /\ st.rhs = "vheap")
<1> DEFINE a == st.addr
<1>1. a \in Seq(Node) /\ Len(a) \in Nat /\ DOMAIN a = 1..Len(a) /\ 1 \in 1..Len(a) /\ a[1] \in Node
  <2>1. a \in Seq(Node)
    BY DEF Assignment
  <2> HIDE DEF a
  <2>2. Len(a) \in Nat /\ DOMAIN a = 1..Len(a) /\ DOMAIN a # {}
    BY <2>1 DEF a
  <2>3. 1 \in 1..Len(a)
    BY <2>2
  <2>4. QED
    BY <2>1, <2>2, <2>3
<1>2. CASE StoresSlice(st)
  <2>0. PICK p, h : p = (a[1].pmem \/ st.rhs = "pmem") /\ h = (a[1].vheap \/ st.rhs = "vheap")
    OBVIOUS
  <2>1. PICK n : n = [a[1] EXCEPT !.pmem = p, !.vheap = h]
    OBVIOUS
  <2>2. n \in Node /\ n.op = a[1].op /\ (n.vheap => a[1].vheap \/ st.rhs = "vheap")
    <3>1. p \in BOOLEAN /\ h \in BOOLEAN
      BY <2>0, Zenon
    <3>2. PICK r \in Node : r = a[1]
      BY <1>1
    <3>3. [r EXCEPT !.pmem = p, !.vheap = h] \in Node
      BY <3>1 DEF Node
    <3>4. [r EXCEPT !.pmem = p, !.vheap = h].op = r.op /\ [r EXCEPT !.pmem = p, !.vheap = h].vheap = h
      BY DEF Node
    <3>5. n \in Node /\ n.op = a[1].op /\ n.vheap = h
      BY <2>1, <3>2, <3>3, <3>4
    <3>6. h => a[1].vheap \/ st.rhs = "vheap"
      BY <2>0, Zenon
    <3>7. QED
      BY <3>5, <3>6, Zenon
  <2>3. AddrOf(st) = [i \in 1..Len(a) |-> IF i = 1 THEN n ELSE a[i]]
    <3>1. AddrOf(st) = [a EXCEPT ![1].pmem = @ \/ st.rhs = "pmem", ![1].vheap = @ \/ st.rhs = "vheap"]
      BY <1>2 DEF AddrOf
    <3>2. [a[1] EXCEPT !.pmem = @ \/ st.rhs = "pmem", !.vheap = @ \/ st.rhs = "vheap"] = n
      BY <2>0, <2>1, Zenon
    <3> HIDE DEF a
    <3>3. [a EXCEPT ![1].pmem = @ \/ st.rhs = "pmem", ![1].vheap = @ \/ st.rhs = "vheap"]
            = [a EXCEPT ![1] = [a[1] EXCEPT !.pmem = @ \/ st.rhs = "pmem", !.vheap = @ \/ st.rhs = "vheap"]]
      BY <1>1
    <3>4. [a EXCEPT ![1] = n] = [i \in 1..Len(a) |-> IF i = 1 THEN n ELSE a[i]]
      BY <1>1
    <3>5. QED
      BY <3>1, <3>2, <3>3, <3>4
  <2>4. PICK b : b = AddrOf(st)
    OBVIOUS
  <2>5. b = [i \in 1..Len(a) |-> IF i = 1 THEN n ELSE a[i]]
    BY <2>3, <2>4
  <2>6. \A i \in 1..Len(a) : (IF i = 1 THEN n ELSE a[i]) \in Node
    BY <1>1, <2>2
  <2>7. b \in Seq(Node)
    BY <1>1, <2>5, <2>6
  <2>8. DOMAIN b = DOMAIN a /\ b[1] = n /\ \A i \in DOMAIN a : i # 1 => b[i] = a[i]
    BY <1>1, <2>5
  <2>9. \A i \in DOMAIN a : b[i].op = a[i].op
    BY <2>8, <2>2
  <2>10. b[1].vheap => a[1].vheap \/ (StoresSlice(st) /\ st.rhs = "vheap")
    BY <2>2, <2>8, <1>2
  <2>11. QED
    BY <2>4, <2>7, <2>8, <2>9, <2>10
<1>3. CASE ~StoresSlice(st)
  BY <1>1, <1>3 DEF AddrOf
<1>4. QED
  BY <1>2, <1>3

\* A store of a persistent object goes through an address that is taken for volatile
\* only if the compiler has noted a volatile slice on a pointer just loaded.
LEMMA VmemAddr ==
  ASSUME NEW st \in Assignment, GoodStmt(st), st # Call, st.obj \in Persistent, WillAccessVmem(AddrOf(st))
  PROVE  StoresSlice(st) /\ st.rhs = "vheap" /\ st.addr[1].op = "Load"
<1>1. \E i \in DOMAIN st.addr : st.addr[i].op \notin Derived \cup {"Load"}
  BY DEF GoodStmt
<1>2. ~WillAccessVmem(st.addr)
  BY DEF GoodStmt
<1>3. PICK a, b : a = st.addr /\ b = AddrOf(st)
  OBVIOUS
<1>4. /\ DOMAIN b = DOMAIN a
      /\ \A i \in DOMAIN a : b[i].op = a[i].op
      /\ \A i \in DOMAIN a : i # 1 => b[i] = a[i]
      /\ b[1].vheap => a[1].vheap \/ (StoresSlice(st) /\ st.rhs = "vheap")
  BY <1>1, <1>3, AddrType
<1>5. PICK D : D = {i \in DOMAIN a : a[i].op \notin Derived}
  OBVIOUS
<1>6. D = {i \in DOMAIN b : b[i].op \notin Derived}
  BY <1>4, <1>5
<1>7. PICK m : m = Min(D)
  OBVIOUS
<1>8. m \in DOMAIN a
  <2>1. a \in Seq(Node)
    BY <1>3 DEF Assignment
  <2>2. D \in SUBSET Nat
    BY <2>1, <1>5
  <2>3. D # {}
    BY <1>1, <1>3, <1>5
  <2>4. m \in D
    BY <2>2, <2>3, <1>7, MinOf
  <2>5. QED
    BY <2>4, <1>5
<1>9. ~(a[m].op \in {"SP", "LocalAddr"} \/ (a[m].op = "Load" /\ a[m].vheap))
  BY <1>2, <1>3, <1>5, <1>7 DEF WillAccessVmem
<1>10. b[m].op \in {"SP", "LocalAddr"} \/ (b[m].op = "Load" /\ b[m].vheap)
  BY <1>3, <1>6, <1>7 DEF WillAccessVmem
<1>11. b[m].op = a[m].op
  BY <1>4, <1>8
<1>12. a[m].op = "Load" /\ b[m].vheap /\ ~a[m].vheap
  BY <1>9, <1>10, <1>11
<1>13. m = 1
  BY <1>4, <1>8, <1>12
<1>14. QED
  BY <1>3, <1>4, <1>12, <1>13

\* Its stores, what the mark covers, and when the pass drops the mark.
LEMMA StmtStores ==
  ASSUME NEW st \in Assignment, GoodStmt(st), st # Call
  PROVE  /\ StoresOf(st) \in Seq(StoreRec) /\ AddrOf(st) \in Seq(Node)
         /\ st.op # "append" => GoodStores(StoresOf(st), Uncovered(st))
         /\ st.op = "append" \/ (st.obj \in Persistent /\ WillAccessVmem(AddrOf(st))) =>
              \A q \in 1..Len(StoresOf(st)) : StoresOf(st)[q].words \subseteq Uncovered(st)
<1>1. /\ st.op \in {"assign", "append", "Move", "Zero"} /\ st.typ \in Type /\ st.grows \in BOOLEAN
      /\ st.skip \in SUBSET {"ptr", "len", "cap"}
  BY DEF Assignment
<1>2. st.typ.fields \in Seq(Kind) /\ st.typ.struct \in BOOLEAN
  BY <1>1 DEF Type
<1>3. AddrOf(st) \in Seq(Node)
  <2>1. \E i \in DOMAIN st.addr : st.addr[i].op \notin Derived \cup {"Load"}
    BY DEF GoodStmt
  <2>2. QED
    BY <2>1, AddrType
<1>4. PICK stores : stores = StoresOf(st)
  OBVIOUS
<1>5. CASE st.op \in {"Move", "Zero"}
  <2>0. PICK n : n = TypeSize(st.typ)
    OBVIOUS
  <2>1. n \in Nat
    BY <1>2, <2>0, Offsets DEF TypeSize
  <2>2. PICK x : x = [op |-> st.op, words |-> 0..(n - 1), at |-> 0, elem |-> n, left |-> TRUE]
    OBVIOUS
  <2>3. x \in StoreRec
    <3>1. 0..(n - 1) \in SUBSET Nat
      BY <2>1
    <3>2. st.op \in {"Store", "Move", "Zero"} /\ TRUE \in BOOLEAN /\ 0 \in Nat
      BY <1>5
    <3>3. QED
      BY <2>1, <2>2, <3>1, <3>2 DEF StoreRec
  <2>4. x.words \subseteq Span(x)
    BY <2>1, <2>2 DEF Span
  <2>5. stores = <<x>>
    BY <1>4, <1>5, <2>0, <2>2 DEF StoresOf
  <2>6. GoodStores(stores, Uncovered(st))
    BY <2>3, <2>4, <2>5, Good1
  <2>7. ~(st.obj \in Persistent /\ WillAccessVmem(AddrOf(st)))
    BY VmemAddr, <1>5 DEF StoresSlice
  <2>8. stores \in Seq(StoreRec) /\ st.op # "append"
    BY <2>6, <1>5 DEF GoodStores
  <2>9. QED
    BY <2>6, <2>7, <2>8, <1>3, <1>4
<1>6. CASE st.op = "append"
  <2>1. PICK a, b, c : a = Store1(2, 1, FALSE) /\ b = Store1(0, 3, FALSE) /\ c = Store1(1, 1, FALSE)
    OBVIOUS
  <2>2. IsS(a, 2, 1, FALSE) /\ IsS(b, 0, 3, FALSE) /\ IsS(c, 1, 1, FALSE)
    BY <2>1, StoreIs
  <2>3. a \in StoreRec /\ b \in StoreRec /\ c \in StoreRec /\ a.words = {2} /\ b.words = {0} /\ c.words = {1}
    BY <2>2 DEF IsS
  <2>4. Uncovered(st) = IF st.grows THEN 0..2 ELSE {1}
    BY <1>6 DEF Uncovered
  <2>5. stores = (IF st.grows THEN <<a, b>> ELSE <<>>) \o <<c>>
    BY <1>4, <1>6, <2>1 DEF StoresOf, AppendInPlace
  <2>6. CASE st.grows
    <3>1. PICK x, y : x = <<a, b>> /\ y = <<c>>
      OBVIOUS
    <3>2. /\ x \in Seq(StoreRec) /\ Len(x) = 2 /\ x[1] = a /\ x[2] = b
          /\ y \in Seq(StoreRec) /\ Len(y) = 1 /\ y[1] = c
      <4> HIDE DEF StoreRec
      <4> QED
        BY <2>3, <3>1
    <3>3. stores = Cat(x, y)
      BY <2>5, <2>6, <3>1 DEF Cat
    <3>4. stores \in Seq(StoreRec) /\ IsCat(stores, x, y)
      BY <3>2, <3>3, CatFacts
    <3>5. Len(stores) = 3 /\ stores[1] = a /\ stores[2] = b /\ stores[3] = c
      BY <3>2, <3>4 DEF IsCat
    <3>6. \A q \in 1..Len(stores) : stores[q].words \subseteq 0..2
      <4>1. \A q \in 1..Len(stores) : q = 1 \/ q = 2 \/ q = 3
        BY <3>5
      <4>2. QED
        BY <4>1, <3>5, <2>3
    <3>7. QED
      BY <3>4, <3>6, <2>4, <2>6, <1>3, <1>4, <1>6
  <2>7. CASE ~st.grows
    <3>1. <<c>> \in Seq(StoreRec) /\ Len(<<c>>) = 1 /\ \A m \in 1..Len(<<c>>) : <<c>>[m] = c
      BY <2>3, Row1
    <3>2. stores = <<c>>
      <4>1. stores = <<>> \o <<c>>
        BY <2>5, <2>7
      <4>2. QED
        BY <4>1, <3>1, CatNone
    <3>3. stores \in Seq(StoreRec) /\ \A q \in 1..Len(stores) : stores[q].words \subseteq {1}
      BY <3>1, <3>2, <2>3
    <3>4. QED
      BY <3>3, <2>4, <2>7, <1>3, <1>4, <1>6
  <2>8. QED
    BY <2>6, <2>7
<1>7. CASE st.op = "assign" /\ st.typ.struct
  <2>1. stores = StoreStruct(st.typ)
    BY <1>4, <1>7 DEF StoresOf
  <2>2. StructOK(stores, st.typ)
    BY <2>1, <1>2, StructStores
  <2>3. Uncovered(st) = (0..(TypeSize(st.typ) - 1)) \ {LastWord(st.typ)}
    BY <1>7 DEF Uncovered
  <2>4. GoodStores(stores, Uncovered(st))
    BY <2>2, <2>3, GoodStruct
  <2>5. ~(st.obj \in Persistent /\ WillAccessVmem(AddrOf(st)))
    BY VmemAddr, <1>7 DEF StoresSlice
  <2>6. stores \in Seq(StoreRec) /\ st.op # "append"
    BY <2>4, <1>7 DEF GoodStores
  <2>7. QED
    BY <2>4, <2>5, <2>6, <1>3, <1>4
<1>8. CASE st.op = "assign" /\ ~st.typ.struct
  <2>1. stores = StoreSingle(st.typ, st.skip)
    BY <1>4, <1>8 DEF StoresOf
  <2>2. PICK k \in Kind : st.typ.fields[1] = k /\ st.typ.fields = <<k>>
    <3>1. Len(st.typ.fields) = 1
      BY <1>8 DEF GoodStmt
    <3>2. PICK f : f = st.typ.fields
      OBVIOUS
    <3>3. f \in Seq(Kind) /\ Len(f) = 1
      BY <3>1, <3>2, <1>2
    <3>4. f[1] \in Kind /\ f = <<f[1]>>
      BY <3>3
    <3>5. QED
      BY <3>2, <3>4
  <2>3. CASE StoresSlice(st) /\ st.rhs = "vheap" /\ st.addr[1].op = "Load"
    <3>1. Uncovered(st) = 0..2
      BY <1>8, <2>3 DEF Uncovered
    <3>2. k = "slice" /\ "ptr" \notin st.skip
      BY <2>2, <2>3 DEF StoresSlice
    <3>3. \A q \in 1..Len(stores) : stores[q].words \subseteq 0..2
      BY <3>2, <2>1, <2>2, <1>1, SliceWords
    <3>4. GoodStores(stores, Uncovered(st))
      <4>1. k # "string" /\ st.skip # {"ptr"}
        BY <3>2
      <4>2. QED
        BY <4>1, <2>1, <2>2, <1>1, GoodSingle
    <3>5. stores \in Seq(StoreRec) /\ st.op # "append"
      BY <3>4, <1>8 DEF GoodStores
    <3>6. QED
      BY <3>1, <3>3, <3>4, <3>5, <1>3, <1>4
  <2>4. CASE ~(StoresSlice(st) /\ st.rhs = "vheap" /\ st.addr[1].op = "Load")
    <3>1. Uncovered(st) = IF st.typ.fields = <<"string">> THEN IF "ptr" \in st.skip THEN {} ELSE {1}
                          ELSE IF st.skip = {"ptr"} THEN {1} ELSE {}
      BY <1>8, <2>4 DEF Uncovered
    <3>2. IF k = "string" THEN "ptr" \notin st.skip => 1 \in Uncovered(st)
          ELSE st.skip = {"ptr"} => 1 \in Uncovered(st)
      <4>1. st.typ.fields = <<"string">> <=> k = "string"
        BY <2>2
      <4>2. QED
        BY <3>1, <4>1
    <3>3. GoodStores(stores, Uncovered(st))
      BY <3>2, <2>1, <2>2, <1>1, GoodSingle
    <3>4. ~(st.obj \in Persistent /\ WillAccessVmem(AddrOf(st)))
      BY VmemAddr, <2>4
    <3>5. stores \in Seq(StoreRec) /\ st.op # "append"
      BY <3>3, <1>8 DEF GoodStores
    <3>6. QED
      BY <3>3, <3>4, <3>5, <1>3, <1>4
  <2>5. QED
    BY <2>3, <2>4
<1>9. QED
  BY <1>1, <1>2, <1>5, <1>6, <1>7, <1>8

------------------------------------------------------------------------------
(* What a statement list is lowered to.                                    *)

\* The pass has to log this store.
Needs(u) == u.op = "store" /\ u.mark /\ ~WillAccessVmem(u.addr)

\* v is u, but for the mark.
Same(v, u) == v.op = u.op /\ (u.op = "store" => v.s = u.s /\ v.st = u.st /\ v.addr = u.addr)

\* v is u, perhaps with a mark.
More(v, u) == v \in SrcVal /\ Same(v, u) /\ (u.op = "store" /\ u.mark => v.mark)

\* The values that one more assignment adds to vals, and the mark k that it sets.
Adds(R, vals, st, stores, k) ==
  /\ R \in Seq(SrcVal) /\ Len(R) = Len(vals) + Len(stores)
  /\ \A i \in 1..Len(vals) : More(R[i], vals[i]) /\ (i # k => R[i] = vals[i])
  /\ \A i \in (Len(vals) + 1)..(Len(vals) + Len(stores)) :
       /\ R[i].op = "store" /\ R[i].s = stores[i - Len(vals)] /\ R[i].st = st /\ R[i].addr = AddrOf(st)
       /\ (R[i].mark => i = k)
  /\ st.op # "append" /\ Len(stores) > 0 => R[Len(vals) + MarkOf(stores)].mark

\* Setting the mark of a store.
LEMMA SetMark ==
  ASSUME NEW u \in SrcVal, u.op = "store"
  PROVE  More([u EXCEPT !.mark = TRUE], u) /\ [u EXCEPT !.mark = TRUE].mark
<1>1. u \in StoreVal
  BY DEF SrcVal, Call
<1>2. TRUE \in BOOLEAN
  OBVIOUS
<1>3. [u EXCEPT !.mark = TRUE] \in StoreVal
  <2> HIDE DEF StoreRec, Assignment, Node
  <2> QED
    BY <1>1, <1>2 DEF StoreVal
<1>4. /\ [u EXCEPT !.mark = TRUE].op = u.op /\ [u EXCEPT !.mark = TRUE].s = u.s
      /\ [u EXCEPT !.mark = TRUE].st = u.st /\ [u EXCEPT !.mark = TRUE].addr = u.addr
      /\ [u EXCEPT !.mark = TRUE].mark
  BY <1>1 DEF StoreVal
<1>5. QED
  BY <1>3, <1>4 DEF More, Same, SrcVal

\* The values of an assignment, without marks.
NewOf(stores, a, st) == [i \in DOMAIN stores |-> [op |-> "store", s |-> stores[i], addr |-> a, st |-> st, mark |-> FALSE]]

IsNew(new, stores, a, st) ==
  /\ new \in Seq(SrcVal) /\ Len(new) = Len(stores) /\ DOMAIN new = 1..Len(stores)
  /\ \A i \in 1..Len(stores) : /\ new[i].op = "store" /\ new[i].s = stores[i] /\ new[i].st = st
                               /\ new[i].addr = a /\ ~new[i].mark

\* They are stores.
LEMMA NewVals ==
  ASSUME NEW stores \in Seq(StoreRec), NEW a \in Seq(Node), NEW st \in Assignment
  PROVE  IsNew(NewOf(stores, a, st), stores, a, st)
<1>0. PICK new : new = NewOf(stores, a, st)
  OBVIOUS
<1> HIDE DEF StoreRec, Assignment, Node
<1> DEFINE n == Len(stores)
           V1(i) == [op |-> "store", s |-> stores[i], addr |-> a, st |-> st, mark |-> FALSE]
<1>1. n \in Nat /\ DOMAIN stores = 1..n /\ \A i \in 1..n : stores[i] \in StoreRec
  OBVIOUS
<1> HIDE DEF n
<1>2. ASSUME NEW i \in 1..n
      PROVE  /\ V1(i) \in StoreVal
             /\ V1(i).op = "store" /\ V1(i).s = stores[i] /\ V1(i).st = st /\ V1(i).addr = a /\ ~V1(i).mark
  <2>1. FALSE \in BOOLEAN /\ stores[i] \in StoreRec
    BY <1>1
  <2>2. V1(i) \in StoreVal
    BY <2>1 DEF StoreVal
  <2>3. V1(i).op = "store" /\ V1(i).s = stores[i] /\ V1(i).st = st /\ V1(i).addr = a /\ ~V1(i).mark
    OBVIOUS
  <2>4. QED
    BY <2>2, <2>3
<1>3. new = [i \in 1..n |-> V1(i)]
  BY <1>0, <1>1 DEF NewOf
<1> HIDE DEF V1
<1>4. \A i \in 1..n : new[i] = V1(i) /\ V1(i) \in SrcVal
  BY <1>2, <1>3 DEF SrcVal
<1>5. new \in [1..n -> SrcVal] /\ DOMAIN new = 1..n
  BY <1>3, <1>4
<1>6. new \in Seq(SrcVal) /\ Len(new) = n
  <2> HIDE DEF SrcVal
  <2>1. new \in Seq(SrcVal)
    BY <1>1, <1>5
  <2>2. Len(new) \in Nat /\ DOMAIN new = 1..Len(new)
    BY <2>1
  <2>3. Len(new) = n
    BY <1>1, <1>5, <2>2
  <2>4. QED
    BY <2>1, <2>3
<1>7. QED
  BY <1>0, <1>2, <1>4, <1>5, <1>6 DEF n, IsNew

\* The minimum that the code computes is the mark.
LEMMA AssignedAdds ==
  ASSUME NEW vals \in Seq(SrcVal), NEW st \in Assignment, GoodStmt(st), st # Call
  PROVE  \E k \in Nat : Adds(Assigned(vals, st), vals, st, StoresOf(st), k)
<1>1. PICK stores, a : stores = StoresOf(st) /\ a = AddrOf(st)
  OBVIOUS
<1>2. stores \in Seq(StoreRec) /\ a \in Seq(Node) /\ (st.op # "append" => GoodStores(stores, Uncovered(st)))
  BY <1>1, StmtStores
<1>3. PICK new : new = NewOf(stores, a, st)
  OBVIOUS
<1> DEFINE l == Len(vals)
           n == Len(stores)
           all == Cat(vals, new)
           hits == {i \in DOMAIN new : stores[i].left}
           k == IF hits # {} THEN l + Min(hits) ELSE Len(all)
           skip == st.op = "append" \/ k = 0 \/ all[k].op # "store"
<1>4. Assigned(vals, st) = IF skip THEN all ELSE [all EXCEPT ![k].mark = TRUE]
  BY <1>1, <1>3 DEF Assigned, Cat, NewOf
<1>5. /\ new \in Seq(SrcVal) /\ Len(new) = n /\ DOMAIN new = 1..n /\ n \in Nat /\ DOMAIN stores = 1..n
      /\ \A i \in 1..n : new[i].op = "store" /\ new[i].s = stores[i] /\ new[i].st = st /\ new[i].addr = a /\ ~new[i].mark
  <2>1. n \in Nat /\ DOMAIN stores = 1..n
    BY <1>2
  <2>2. IsNew(new, stores, a, st)
    BY <1>2, <1>3, NewVals
  <2>3. QED
    BY <2>1, <2>2 DEF IsNew
<1>6. all \in Seq(SrcVal) /\ IsCat(all, vals, new)
  BY <1>5, CatFacts
<1>7. l \in Nat
  OBVIOUS
<1>8. PICK kk, ss : kk = k /\ (ss <=> skip)
  OBVIOUS
<1>9. n > 0 => kk = l + MarkOf(stores)
  <2>1. hits = {i \in DOMAIN stores : stores[i].left}
    BY <1>5
  <2>2. Len(all) = l + n
    BY <1>5, <1>6 DEF IsCat
  <2>3. MarkOf(stores) = IF hits # {} THEN Min(hits) ELSE n
    BY <2>1 DEF MarkOf
  <2> HIDE DEF hits, all
  <2>4. QED
    BY <2>2, <2>3, <1>8
<1>10. n = 0 => kk = l
  <2>1. n = 0 => hits = {}
    BY <1>5
  <2>2. Len(all) = l + n
    BY <1>5, <1>6 DEF IsCat
  <2> HIDE DEF hits, all
  <2>3. QED
    BY <2>1, <2>2, <1>7, <1>8
<1>11. kk \in Nat
  <2>1. n > 0 => MarkOf(stores) \in Nat
    <3>1. CASE hits = {}
      <4>1. hits = {i \in DOMAIN stores : stores[i].left}
        BY <1>5
      <4>2. MarkOf(stores) = n
        BY <4>1, <3>1 DEF MarkOf
      <4>3. QED
        BY <4>2, <1>5
    <3>2. CASE hits # {}
      <4>1. hits = {i \in DOMAIN stores : stores[i].left}
        BY <1>5
      <4>2. MarkOf(stores) = Min(hits) /\ hits \in SUBSET Nat
        BY <4>1, <3>2, <1>5 DEF MarkOf
      <4> HIDE DEF hits
      <4>3. Min(hits) \in hits
        BY <3>2, <4>2, MinOf
      <4>4. QED
        BY <4>2, <4>3
    <3>3. QED
      BY <3>1, <3>2
  <2>2. n = 0 \/ n > 0
    BY <1>5
  <2>3. QED
    BY <2>1, <2>2, <1>7, <1>9, <1>10
<1>12. PICK R : R = Assigned(vals, st)
  OBVIOUS
<1>13. R = IF ss THEN all ELSE [all EXCEPT ![kk].mark = TRUE]
  BY <1>4, <1>8, <1>12
<1>14. ss <=> (st.op = "append" \/ kk = 0 \/ all[kk].op # "store")
  BY <1>8
<1> HIDE DEF k, skip, hits
<1>15. /\ Len(all) = l + n
       /\ \A i \in 1..l : all[i] = vals[i]
       /\ \A i \in (l + 1)..(l + n) : all[i] = new[i - l]
  BY <1>5, <1>6 DEF IsCat
<1>16. DOMAIN all = 1..(l + n) /\ \A i \in 1..(l + n) : all[i] \in SrcVal
  <2> HIDE DEF SrcVal, l, n
  <2>1. DOMAIN all = 1..Len(all) /\ \A i \in DOMAIN all : all[i] \in SrcVal
    BY <1>6
  <2>2. QED
    BY <2>1, <1>15
<1>17. R \in Seq(SrcVal) /\ Len(R) = l + n /\ \A i \in 1..(l + n) : /\ More(R[i], all[i]) /\ (i # kk \/ ss => R[i] = all[i])
                                                                 /\ (i = kk /\ ~ss => R[i].mark)
  <2>1. CASE ss
    <3>1. R = all
      BY <1>13, <2>1
    <3>2. \A i \in 1..(l + n) : More(all[i], all[i])
      BY <1>16 DEF More, Same
    <3>3. QED
      BY <3>1, <3>2, <1>6, <1>15, <2>1
  <2>2. CASE ~ss
    <3>1. R = [all EXCEPT ![kk].mark = TRUE] /\ all[kk].op = "store" /\ kk # 0
      BY <1>13, <1>14, <2>2
    <3>2. kk \in 1..(l + n)
      <4>1. n = 0 \/ n > 0
        BY <1>5
      <4>2. CASE n = 0
        BY <4>2, <1>10, <3>1, <1>7, <1>11
      <4>3. CASE n > 0
        <5>1. MarkOf(stores) \in 1..n
          <6>1. st.op # "append"
            BY <1>14, <2>2
          <6>2. QED
            BY <6>1, <4>3, <1>2 DEF GoodStores
        <5>2. QED
          BY <5>1, <4>3, <1>5, <1>9, <1>7
      <4>4. QED
        BY <4>1, <4>2, <4>3
    <3>3. PICK v : v = [all[kk] EXCEPT !.mark = TRUE]
      OBVIOUS
    <3>4. More(v, all[kk]) /\ v.mark
      BY <3>1, <3>2, <3>3, <1>16, SetMark
    <3>5. v \in SrcVal
      BY <3>4 DEF More
    <3> HIDE DEF all, SrcVal, l, n
    <3>6. R = [i \in 1..(l + n) |-> IF i = kk THEN v ELSE all[i]]
      <4>1. R = [all EXCEPT ![kk] = v]
        BY <3>1, <3>3
      <4>2. QED
        BY <4>1, <1>16
    <3>7. R \in [1..(l + n) -> SrcVal]
      BY <3>5, <3>6, <1>16
    <3>8. l + n \in Nat
      BY <1>5, <1>7
    <3>9. R \in Seq(SrcVal) /\ Len(R) = l + n
      <4>1. R \in Seq(SrcVal)
        BY <3>7, <3>8
      <4>2. Len(R) \in Nat /\ DOMAIN R = 1..Len(R) /\ DOMAIN R = 1..(l + n)
        BY <4>1, <3>7
      <4>3. Len(R) = l + n
        BY <4>2, <3>8
      <4>4. QED
        BY <4>1, <4>3
    <3>10. \A i \in 1..(l + n) : i # kk => R[i] = all[i]
      BY <3>6
    <3>11. R[kk] = v
      BY <3>2, <3>6
    <3>12. \A i \in 1..(l + n) : i # kk => More(all[i], all[i])
      BY <1>16 DEF More, Same
    <3>13. QED
      BY <3>4, <3>9, <3>10, <3>11, <3>12, <2>2
  <2>3. QED
    BY <2>1, <2>2
<1>18. ASSUME NEW i \in 1..l
       PROVE  More(R[i], vals[i]) /\ (i # kk => R[i] = vals[i])
  <2>1. i \in 1..(l + n)
    BY <1>5, <1>7
  <2>2. all[i] = vals[i]
    BY <1>15
  <2>3. QED
    BY <2>1, <2>2, <1>17
<1>19. ASSUME NEW i \in (l + 1)..(l + n)
       PROVE  /\ R[i].op = "store" /\ R[i].s = stores[i - l] /\ R[i].st = st /\ R[i].addr = a
              /\ (R[i].mark => i = kk)
  <2>1. i \in 1..(l + n) /\ i - l \in 1..n
    BY <1>5, <1>7
  <2>2. all[i] = new[i - l]
    BY <1>15
  <2>3. /\ all[i].op = "store" /\ all[i].s = stores[i - l] /\ all[i].st = st /\ all[i].addr = a /\ ~all[i].mark
    BY <2>1, <2>2, <1>5
  <2>4. More(R[i], all[i]) /\ (i # kk => R[i] = all[i])
    BY <2>1, <1>17
  <2>5. R[i].op = "store" /\ R[i].s = stores[i - l] /\ R[i].st = st /\ R[i].addr = a
    BY <2>3, <2>4 DEF More, Same
  <2>6. QED
    BY <2>3, <2>4, <2>5
<1>20. st.op # "append" /\ n > 0 => R[l + MarkOf(stores)].mark
  <2> SUFFICES ASSUME st.op # "append", n > 0 PROVE R[kk].mark
    BY <1>9
  <2>1. MarkOf(stores) \in 1..n
    BY <1>2 DEF GoodStores
  <2>2. kk \in (l + 1)..(l + n) /\ kk \in 1..(l + n) /\ kk # 0 /\ kk - l \in 1..n
    BY <2>1, <1>9, <1>5, <1>7
  <2>3. all[kk].op = "store"
    BY <2>2, <1>15, <1>5
  <2>4. ~ss
    BY <2>2, <2>3, <1>14
  <2>5. QED
    BY <2>2, <2>4, <1>17
<1>21. Adds(R, vals, st, stores, kk)
  BY <1>1, <1>17, <1>18, <1>19, <1>20 DEF Adds
<1>22. QED
  BY <1>1, <1>11, <1>12, <1>21

\* Every word that the values store is uncovered or recorded before.
CoveredSrc(vals) ==
  \A q \in 1..Len(vals) : vals[q].op = "store" /\ vals[q].st.obj \in Persistent =>
    \A w \in vals[q].s.words :
      \/ w \in Uncovered(vals[q].st)
      \/ \E k \in 1..q : Needs(vals[k]) /\ vals[k].st.obj = vals[q].st.obj /\ w \in Span(vals[k].s)

MarkedAt(vals) == {i \in 1..Len(vals) : vals[i].op = "store" /\ vals[i].mark}

HasCall(stmts) == \E j \in 1..Len(stmts) : stmts[j] = Call

\* What n statements are lowered to.
LoweredOK(vals, n, stmts) ==
  /\ vals \in Seq(SrcVal) /\ CoveredSrc(vals)
  /\ IsFiniteSet(MarkedAt(vals)) /\ Cardinality(MarkedAt(vals)) <= n
  /\ \A i \in 1..Len(vals) : vals[i].op = "call" => HasCall(stmts)

\* A value that is more than one that needs a log needs it too.
LEMMA MoreNeeds ==
  ASSUME NEW v, NEW u, More(v, u), Needs(u)
  PROVE  Needs(v)
BY DEF More, Same, Needs

\* One more assignment: what is covered.
LEMMA AddsCovered ==
  ASSUME NEW vals \in Seq(SrcVal), NEW st \in Assignment, GoodStmt(st), st # Call, NEW R, NEW k,
         CoveredSrc(vals), Adds(R, vals, st, StoresOf(st), k)
  PROVE  CoveredSrc(R)
<1>1. PICK stores : stores = StoresOf(st)
  OBVIOUS
<1>2. PICK l, n : l = Len(vals) /\ n = Len(stores)
  OBVIOUS
<1>3. /\ stores \in Seq(StoreRec)
      /\ st.op # "append" => GoodStores(stores, Uncovered(st))
      /\ st.op = "append" \/ (st.obj \in Persistent /\ WillAccessVmem(AddrOf(st))) =>
           \A q \in 1..n : stores[q].words \subseteq Uncovered(st)
  BY <1>1, <1>2, StmtStores
<1>4. /\ R \in Seq(SrcVal) /\ Len(R) = l + n /\ l \in Nat /\ n \in Nat
      /\ \A i \in 1..l : More(R[i], vals[i])
      /\ \A i \in (l + 1)..(l + n) : R[i].op = "store" /\ R[i].s = stores[i - l] /\ R[i].st = st /\ R[i].addr = AddrOf(st)
      /\ st.op # "append" /\ n > 0 => R[l + MarkOf(stores)].mark
  <2>1. l \in Nat /\ n \in Nat
    BY <1>2, <1>3
  <2>2. QED
    BY <2>1, <1>1, <1>2 DEF Adds
<1>5. ASSUME NEW q \in 1..Len(R), R[q].op = "store", R[q].st.obj \in Persistent, NEW w \in R[q].s.words
      PROVE  \/ w \in Uncovered(R[q].st)
             \/ \E j \in 1..q : Needs(R[j]) /\ R[j].st.obj = R[q].st.obj /\ w \in Span(R[j].s)
  <2>1. CASE q \in 1..l
    <3>1. Same(R[q], vals[q])
      BY <2>1, <1>4 DEF More
    <3>2. vals[q].op = "store" /\ R[q].st = vals[q].st /\ R[q].s = vals[q].s
      BY <3>1, <1>5 DEF Same
    <3>3. CASE w \in Uncovered(vals[q].st)
      BY <3>2, <3>3
    <3>4. CASE \E j \in 1..q : Needs(vals[j]) /\ vals[j].st.obj = vals[q].st.obj /\ w \in Span(vals[j].s)
      <4>1. PICK j \in 1..q : Needs(vals[j]) /\ vals[j].st.obj = vals[q].st.obj /\ w \in Span(vals[j].s)
        BY <3>4
      <4>2. j \in 1..l
        BY <2>1, <1>4
      <4>3. More(R[j], vals[j]) /\ vals[j].op = "store"
        BY <4>1, <4>2, <1>4 DEF Needs
      <4>4. Needs(R[j]) /\ R[j].st = vals[j].st /\ R[j].s = vals[j].s
        BY <4>1, <4>3, MoreNeeds DEF More, Same
      <4>5. QED
        BY <4>1, <4>4, <3>2
    <3>5. QED
      BY <3>2, <3>3, <3>4, <2>1, <1>2, <1>5 DEF CoveredSrc
  <2>2. CASE q \in (l + 1)..(l + n)
    <3>1. q - l \in 1..n /\ n > 0
      BY <2>2, <1>4
    <3>2. R[q].s = stores[q - l] /\ R[q].st = st
      BY <2>2, <1>4
    <3>3. CASE st.op = "append" \/ WillAccessVmem(AddrOf(st))
      <4>1. stores[q - l].words \subseteq Uncovered(st)
        BY <3>1, <3>2, <3>3, <1>3, <1>5
      <4>2. QED
        BY <4>1, <3>2, <1>5
    <3>4. CASE st.op # "append" /\ ~WillAccessVmem(AddrOf(st))
      <4>1. PICK m : m = MarkOf(stores)
        OBVIOUS
      <4>2. /\ m \in 1..n
            /\ w \in Uncovered(st) \/ (m <= q - l /\ w \in Span(stores[m]))
        BY <4>1, <3>1, <3>2, <3>4, <1>2, <1>3, <1>5 DEF GoodStores
      <4>3. CASE w \in Uncovered(st)
        BY <4>3, <3>2
      <4>4. CASE m <= q - l /\ w \in Span(stores[m])
        <5>1. l + m \in 1..q /\ l + m \in (l + 1)..(l + n) /\ (l + m) - l = m
          BY <4>2, <4>4, <1>4, <2>2
        <5>2. R[l + m].op = "store" /\ R[l + m].s = stores[m] /\ R[l + m].st = st /\ R[l + m].addr = AddrOf(st)
          BY <5>1, <1>4
        <5>3. R[l + m].mark
          BY <4>1, <3>1, <3>4, <1>4
        <5>4. Needs(R[l + m])
          BY <5>2, <5>3, <3>4 DEF Needs
        <5>5. QED
          BY <5>1, <5>2, <5>4, <4>4, <3>2
      <4>5. QED
        BY <4>2, <4>3, <4>4
    <3>5. QED
      BY <3>3, <3>4
  <2>3. QED
    BY <2>1, <2>2, <1>4
<1>6. QED
  BY <1>5 DEF CoveredSrc

\* One more assignment: how many marks there are, and the calls.
LEMMA AddsMarks ==
  ASSUME NEW vals \in Seq(SrcVal), NEW st, NEW stores \in Seq(StoreRec), NEW R, NEW k, Adds(R, vals, st, stores, k),
         NEW n \in Nat, IsFiniteSet(MarkedAt(vals)), Cardinality(MarkedAt(vals)) <= n
  PROVE  IsFiniteSet(MarkedAt(R)) /\ Cardinality(MarkedAt(R)) <= n + 1
<1>1. PICK l, m : l = Len(vals) /\ m = Len(stores)
  OBVIOUS
<1>2. /\ l \in Nat /\ m \in Nat /\ Len(R) = l + m
      /\ \A i \in 1..l : i # k => R[i] = vals[i]
      /\ \A i \in (l + 1)..(l + m) : R[i].mark => i = k
  <2>1. l \in Nat /\ m \in Nat
    BY <1>1
  <2>2. QED
    BY <2>1, <1>1 DEF Adds
<1>3. MarkedAt(R) \subseteq MarkedAt(vals) \cup {k}
  <2>1. ASSUME NEW i \in MarkedAt(R), i # k PROVE i \in MarkedAt(vals)
    <3>1. i \in 1..(l + m) /\ R[i].op = "store" /\ R[i].mark
      BY <1>2 DEF MarkedAt
    <3>2. i \in 1..l
      BY <3>1, <2>1, <1>2
    <3>3. QED
      BY <3>1, <3>2, <2>1, <1>1, <1>2 DEF MarkedAt
  <2>2. QED
    BY <2>1
<1>4. IsFiniteSet(MarkedAt(vals) \cup {k}) /\ Cardinality(MarkedAt(vals) \cup {k}) <= n + 1
  <2>1. /\ IsFiniteSet(MarkedAt(vals) \cup {k})
        /\ Cardinality(MarkedAt(vals) \cup {k}) =
             IF k \in MarkedAt(vals) THEN Cardinality(MarkedAt(vals)) ELSE Cardinality(MarkedAt(vals)) + 1
    BY FS_AddElement
  <2>2. Cardinality(MarkedAt(vals)) \in Nat
    BY FS_CardinalityType
  <2>3. QED
    BY <2>1, <2>2
<1>5. IsFiniteSet(MarkedAt(R)) /\ Cardinality(MarkedAt(R)) <= Cardinality(MarkedAt(vals) \cup {k})
  BY <1>3, <1>4, FS_Subset
<1>6. Cardinality(MarkedAt(R)) \in Nat /\ Cardinality(MarkedAt(vals) \cup {k}) \in Nat
  BY <1>4, <1>5, FS_CardinalityType
<1>7. QED
  BY <1>4, <1>5, <1>6

\* One more statement.
LEMMA LoweredStep ==
  ASSUME NEW vals, NEW n \in Nat, NEW stmts, NEW st \in Stmt, LoweredOK(vals, n, stmts),
         GoodStmt(st), st = Call => HasCall(stmts)
  PROVE  LoweredOK(LowerStmt(vals, st), n + 1, stmts)
<1>1. /\ vals \in Seq(SrcVal) /\ CoveredSrc(vals)
      /\ IsFiniteSet(MarkedAt(vals)) /\ Cardinality(MarkedAt(vals)) <= n
      /\ \A i \in 1..Len(vals) : vals[i].op = "call" => HasCall(stmts)
  BY DEF LoweredOK
<1>2. CASE st = Call
  <2>1. PICK R : R = Append(vals, Call)
    OBVIOUS
  <2>2. LowerStmt(vals, st) = R
    BY <1>2, <2>1 DEF LowerStmt, Call
  <2>3. PICK l : l = Len(vals)
    OBVIOUS
  <2>4. /\ R \in Seq(SrcVal) /\ Len(R) = l + 1 /\ l \in Nat /\ R[l + 1] = Call
        /\ \A i \in 1..l : R[i] = vals[i]
    <3>1. Call \in SrcVal
      BY DEF SrcVal
    <3> HIDE DEF SrcVal
    <3>2. QED
      BY <3>1, <1>1, <2>1, <2>3
  <2>5. R[l + 1].op = "call"
    BY <2>4 DEF Call
  <2>6. ASSUME NEW q \in 1..Len(R), R[q].op = "store" PROVE q \in 1..l
    BY <2>4, <2>5, <2>6
  <2>7. CoveredSrc(R)
    <3>1. ASSUME NEW q \in 1..Len(R), R[q].op = "store", R[q].st.obj \in Persistent, NEW w \in R[q].s.words
          PROVE  \/ w \in Uncovered(R[q].st)
                 \/ \E j \in 1..q : Needs(R[j]) /\ R[j].st.obj = R[q].st.obj /\ w \in Span(R[j].s)
      <4>1. q \in 1..l /\ R[q] = vals[q] /\ \A j \in 1..q : R[j] = vals[j]
        BY <3>1, <2>4, <2>6
      <4>2. \/ w \in Uncovered(vals[q].st)
            \/ \E j \in 1..q : Needs(vals[j]) /\ vals[j].st.obj = vals[q].st.obj /\ w \in Span(vals[j].s)
        BY <4>1, <3>1, <1>1, <2>3 DEF CoveredSrc
      <4>3. QED
        BY <4>1, <4>2
    <3>2. QED
      BY <3>1 DEF CoveredSrc
  <2>8. MarkedAt(R) \subseteq MarkedAt(vals)
    BY <2>3, <2>4, <2>6 DEF MarkedAt
  <2>9. IsFiniteSet(MarkedAt(R)) /\ Cardinality(MarkedAt(R)) <= n + 1
    <3>1. IsFiniteSet(MarkedAt(R)) /\ Cardinality(MarkedAt(R)) <= Cardinality(MarkedAt(vals))
      BY <2>8, <1>1, FS_Subset
    <3>2. Cardinality(MarkedAt(R)) \in Nat /\ Cardinality(MarkedAt(vals)) \in Nat
      BY <3>1, <1>1, FS_CardinalityType
    <3>3. QED
      BY <3>1, <3>2, <1>1
  <2>10. \A i \in 1..Len(R) : R[i].op = "call" => HasCall(stmts)
    BY <1>2
  <2>11. QED
    BY <2>2, <2>4, <2>7, <2>9, <2>10 DEF LoweredOK
<1>3. CASE st # Call
  <2>1. st \in Assignment
    BY <1>3 DEF Stmt
  <2>2. st.op # "call"
    BY <2>1 DEF Assignment
  <2>3. PICK R : R = Assigned(vals, st)
    OBVIOUS
  <2>4. LowerStmt(vals, st) = R
    BY <2>2, <2>3 DEF LowerStmt
  <2>5. PICK k \in Nat : Adds(R, vals, st, StoresOf(st), k)
    BY <2>1, <2>3, <1>1, <1>3, AssignedAdds
  <2>6. CoveredSrc(R)
    BY <2>1, <2>5, <1>1, <1>3, AddsCovered
  <2>7. StoresOf(st) \in Seq(StoreRec)
    BY <2>1, <1>3, StmtStores
  <2>8. IsFiniteSet(MarkedAt(R)) /\ Cardinality(MarkedAt(R)) <= n + 1
    BY <2>5, <2>7, <1>1, AddsMarks
  <2>9. R \in Seq(SrcVal)
    BY <2>5 DEF Adds
  <2>10. ASSUME NEW i \in 1..Len(R), R[i].op = "call" PROVE HasCall(stmts)
    <3>1. PICK l, m : l = Len(vals) /\ m = Len(StoresOf(st))
      OBVIOUS
    <3>2. /\ l \in Nat /\ m \in Nat /\ Len(R) = l + m
          /\ \A j \in 1..l : More(R[j], vals[j])
          /\ \A j \in (l + 1)..(l + m) : R[j].op = "store"
      <4>1. l \in Nat /\ m \in Nat
        BY <3>1, <1>1, <2>7
      <4>2. QED
        BY <4>1, <3>1, <2>5 DEF Adds
    <3>3. i \in 1..l
      BY <3>2, <2>10
    <3>4. vals[i].op = "call"
      BY <3>2, <3>3, <2>10 DEF More, Same
    <3>5. QED
      BY <3>1, <3>3, <3>4, <1>1
  <2>11. QED
    BY <2>4, <2>6, <2>8, <2>9, <2>10 DEF LoweredOK
<1>4. QED
  BY <1>2, <1>3

\* What a statement list is lowered to.
LEMMA Lowered ==
  ASSUME NEW stmts \in Seq(Stmt), \A i \in 1..Len(stmts) : GoodStmt(stmts[i])
  PROVE  LoweredOK(Lower(stmts), Len(stmts), stmts)
<1>1. PICK n : n = Len(stmts)
  OBVIOUS
<1>2. n \in Nat
  BY <1>1
<1> DEFINE F == LowerFn(stmts)
           S == {i \in 0..n : LoweredOK(F[i], i, stmts)}
<1>3. Lower(stmts) = F[n] /\ F[0] = <<>> /\ \A i \in 1..n : F[i] = LowerStmt(F[i - 1], stmts[i])
  BY <1>1, <1>2, LowerDef
<1> HIDE DEF F
<1>4. 0 \in S
  <2>1. <<>> \in Seq(SrcVal) /\ Len(<<>>) = 0
    OBVIOUS
  <2>2. MarkedAt(<<>>) = {}
    BY <2>1 DEF MarkedAt
  <2>3. IsFiniteSet({}) /\ Cardinality({}) = 0
    BY FS_EmptySet
  <2>4. CoveredSrc(<<>>)
    BY <2>1 DEF CoveredSrc
  <2>5. LoweredOK(<<>>, 0, stmts)
    <3>1. PICK e : e = <<>>
      OBVIOUS
    <3>2. e \in Seq(SrcVal) /\ Len(e) = 0 /\ CoveredSrc(e) /\ IsFiniteSet(MarkedAt(e)) /\ Cardinality(MarkedAt(e)) = 0
      BY <3>1, <2>1, <2>2, <2>3, <2>4
    <3>3. Cardinality(MarkedAt(e)) <= 0 /\ \A i \in 1..Len(e) : e[i].op = "call" => HasCall(stmts)
      BY <3>2
    <3>4. LoweredOK(e, 0, stmts)
      BY <3>2, <3>3 DEF LoweredOK
    <3>5. QED
      BY <3>1, <3>4
  <2>6. QED
    BY <2>5, <1>2, <1>3
<1>5. ASSUME NEW i \in 0..n, i \in S, i < n
      PROVE  i + 1 \in S
  <2>1. LoweredOK(F[i], i, stmts)
    BY <1>5
  <2>2. i + 1 \in 1..n /\ (i + 1) - 1 = i /\ i + 1 \in 0..n /\ i \in Nat
    BY <1>5, <1>2
  <2>3. F[i + 1] = LowerStmt(F[i], stmts[i + 1])
    BY <2>2, <1>3
  <2>4. stmts[i + 1] \in Stmt /\ GoodStmt(stmts[i + 1]) /\ (stmts[i + 1] = Call => HasCall(stmts))
    <3>1. stmts[i + 1] \in Stmt
      BY <2>2, <1>1
    <3>2. QED
      BY <3>1, <2>2, <1>1 DEF HasCall
  <2>5. LoweredOK(F[i + 1], i + 1, stmts)
    BY <2>1, <2>2, <2>3, <2>4, LoweredStep
  <2>6. QED
    BY <2>2, <2>5
<1> HIDE DEF S
<1>6. \A i \in 0..n : i \in S
  BY <1>2, <1>4, <1>5, UpTo
<1>7. n \in S
  BY <1>2, <1>6
<1>8. QED
  BY <1>1, <1>3, <1>7 DEF S

------------------------------------------------------------------------------
(* What the pass keeps.  reg says from which of the three statement lists   *)
(* a block comes, 1 the head, 2 the branch and 3 the tail, and pos how many *)
(* values of it are done before each value of the block.                    *)

LogVal    == [op : {"log"}, s : StoreRec, st : Assignment]
InpmemVal == [op : {"inpmem"}, st : Assignment]
CodeVal   == SrcVal \cup LogVal \cup InpmemVal
BlockRec  == [vals : Seq(CodeVal), preds : Seq(Nat), succs : Seq(Nat),
              kind : {"if", "plain", "ret", "inpmem"}, phi : Seq(Nat)]

Succs(B) == Range(B.succs)
Preds(B) == Range(B.preds)

Marked(v)   == v.op = "store" /\ v.mark
Quiet(B)    == \A i \in 1..Len(B.vals) : ~Marked(B.vals[i])

\* A value of the program takes the next one of the source, a test or a log none.
Carried(v, S, p, q) ==
  IF v.op \in {"store", "call"}
  THEN q = p + 1 /\ q \in 1..Len(S) /\ Same(v, S[q]) /\ (Marked(v) => Marked(S[q]))
  ELSE q = p

IsLogOf(w, v) == w.op = "log" /\ w.s = v.s /\ w.st = v.st

\* A store that the pass has dealt with and that has to be logged.
NeedsHere(v, S, q) == v.op = "store" /\ ~v.mark /\ Needs(S[q])

\* The values of a block: they come from S, f says from where; what has to be logged is
\* logged right before, if it is not the first one; a test is the last value.
ValsOK(vals, S, f) ==
  /\ \A j \in 1..Len(vals) : Carried(vals[j], S, f[j - 1], f[j])
  /\ \A j \in 2..Len(vals) : NeedsHere(vals[j], S, f[j]) => IsLogOf(vals[j - 1], vals[j])

\* Block p logs v on its way to block b.
LogsFor(P, b, v) ==
  \/ Len(P.vals) = 1 /\ IsLogOf(P.vals[1], v)
  \/ /\ P.kind = "inpmem" /\ Len(P.vals) >= 1
     /\ P.vals[Len(P.vals)].op = "inpmem" /\ P.vals[Len(P.vals)].st = v.st
     /\ Len(P.succs) = 2 /\ P.succs[2] = b /\ P.succs[1] # b

FirstOK(bs, b, S, f) ==
  Len(bs[b].vals) >= 1 /\ NeedsHere(bs[b].vals[1], S, f[1]) =>
    b # 1 /\ \A p \in 1..Len(bs) : b \in Succs(bs[p]) => LogsFor(bs[p], b, bs[b].vals[1])

\* From the end of a block to the start of the next.
Edge(src, r, p, r2, p2) == (r2 = r /\ p2 = p) \/ (r < r2 /\ p = Len(src[r]) /\ p2 = 0)

PlaceOK(bs, src, reg, pos) ==
  /\ reg \in [1..Len(bs) -> 1..3] /\ pos \in [1..Len(bs) -> [Nat -> Nat]]
  /\ reg[1] = 1 /\ pos[1][0] = 0
  /\ \A b \in 1..Len(bs) : ValsOK(bs[b].vals, src[reg[b]], pos[b])
  /\ \A b \in 1..Len(bs) : FirstOK(bs, b, src[reg[b]], pos[b])
  /\ \A b \in 1..Len(bs) : \A c \in Succs(bs[b]) :
       Edge(src, reg[b], pos[b][Len(bs[b].vals)], reg[c], pos[c][0])
  /\ \A b \in 1..Len(bs) : bs[b].kind = "ret" => reg[b] = 3 /\ pos[b][Len(bs[b].vals)] = Len(src[3])

\* Tests end their block, blocks with a test and those in front of a phi are done.
TestsOK(bs) ==
  \A b \in 1..Len(bs) :
    /\ bs[b].kind = "inpmem" => Quiet(bs[b])
    /\ \A i \in 1..Len(bs[b].vals) : bs[b].vals[i].op = "inpmem" => i = Len(bs[b].vals) /\ bs[b].kind = "inpmem"
    /\ bs[b].phi # <<>> => \A p \in Preds(bs[b]) : Quiet(bs[p])
    /\ b \notin Succs(bs[b])

BlocksOK(bs, src) ==
  /\ bs \in Seq(BlockRec) /\ Len(bs) >= 3
  /\ GraphOK(bs) /\ TestsOK(bs)
  /\ \E reg, pos : PlaceOK(bs, src, reg, pos)

\* u is v without its mark.
Unmarks(u, v) == u \in CodeVal /\ u.op = "store" /\ Same(u, v) /\ ~u.mark

\* Resetting the mark.
LEMMA ResetMark ==
  ASSUME NEW v \in CodeVal, v.op = "store"
  PROVE  Unmarks([v EXCEPT !.mark = FALSE], v)
<1>1. v \in StoreVal
  BY DEF CodeVal, SrcVal, Call, LogVal, InpmemVal
<1>2. FALSE \in BOOLEAN
  OBVIOUS
<1>3. [v EXCEPT !.mark = FALSE] \in StoreVal
  <2> HIDE DEF StoreRec, Assignment, Node
  <2> QED
    BY <1>1, <1>2 DEF StoreVal
<1>4. /\ [v EXCEPT !.mark = FALSE].op = v.op /\ [v EXCEPT !.mark = FALSE].s = v.s
      /\ [v EXCEPT !.mark = FALSE].st = v.st /\ [v EXCEPT !.mark = FALSE].addr = v.addr
      /\ ~[v EXCEPT !.mark = FALSE].mark
  BY <1>1 DEF StoreVal
<1>5. QED
  BY <1>3, <1>4 DEF Unmarks, Same, SrcVal, CodeVal

\* vals2 is vals without the mark of value i.
Unmarked1(vals2, vals, i) ==
  /\ vals2 \in Seq(CodeVal) /\ Len(vals2) = Len(vals)
  /\ Unmarks(vals2[i], vals[i])
  /\ \A j \in 1..Len(vals) : j # i => vals2[j] = vals[j]

\* vals2 is vals with a log before value i, that loses its mark.
Inserted(vals2, vals, i) ==
  /\ vals2 \in Seq(CodeVal) /\ Len(vals2) = Len(vals) + 1
  /\ IsLogOf(vals2[i], vals[i]) /\ Unmarks(vals2[i + 1], vals[i])
  /\ \A j \in 1..Len(vals) : j < i => vals2[j] = vals[j]
  /\ \A j \in 1..Len(vals) : j > i => vals2[j + 1] = vals[j]

\* lv and rv are what is before value i, with a test, and from it on, without its mark.
SplitAt(lv, rv, vals, i) ==
  /\ lv \in Seq(CodeVal) /\ Len(lv) = i
  /\ \A j \in 1..(i - 1) : lv[j] = vals[j]
  /\ lv[i].op = "inpmem" /\ lv[i].st = vals[i].st
  /\ rv \in Seq(CodeVal) /\ Len(rv) = Len(vals) - i + 1
  /\ Unmarks(rv[1], vals[i])
  /\ \A j \in 2..(Len(vals) - i + 1) : rv[j] = vals[i + j - 1]

\* Positions when a value is put in before value i, and when all before it are left out.
IsShift(g, f, i) == g \in [Nat -> Nat] /\ \A j \in Nat : (j < i => g[j] = f[j]) /\ (j >= i => g[j] = f[j - 1])
IsTail(g, f, i)  == g \in [Nat -> Nat] /\ \A j \in Nat : g[j] = f[i - 1 + j]

\* There are such positions.
LEMMA ShiftExists ==
  ASSUME NEW f \in [Nat -> Nat], NEW i \in Nat, i >= 1
  PROVE  (\E g : IsShift(g, f, i)) /\ (\E g : IsTail(g, f, i))
<1>1. PICK g : g = [j \in Nat |-> IF j < i THEN f[j] ELSE f[j - 1]]
  OBVIOUS
<1>2. PICK h : h = [j \in Nat |-> f[i - 1 + j]]
  OBVIOUS
<1>3. ASSUME NEW j \in Nat
      PROVE  (IF j < i THEN f[j] ELSE f[j - 1]) \in Nat /\ f[i - 1 + j] \in Nat
  <2>1. i - 1 + j \in Nat /\ (~(j < i) => j - 1 \in Nat)
    OBVIOUS
  <2>2. QED
    BY <2>1
<1>4. g \in [Nat -> Nat] /\ h \in [Nat -> Nat]
  BY <1>1, <1>2, <1>3
<1>5. \A j \in Nat : g[j] = (IF j < i THEN f[j] ELSE f[j - 1]) /\ h[j] = f[i - 1 + j]
  BY <1>1, <1>2
<1>6. \A j \in Nat : (j < i => g[j] = f[j]) /\ (j >= i => g[j] = f[j - 1])
  <2>1. ASSUME NEW j \in Nat, j >= i PROVE ~(j < i)
    BY <2>1
  <2>2. QED
    BY <2>1, <1>5
<1>7. QED
  BY <1>4, <1>5, <1>6 DEF IsShift, IsTail

\* A marked store is no log, and neither has a mark to be dealt with.
LEMMA MarkedFacts ==
  ASSUME NEW v, Marked(v), NEW S, NEW q, NEW w
  PROVE  ~IsLogOf(v, w) /\ ~NeedsHere(v, S, q) /\ v.op = "store"
BY DEF Marked, IsLogOf, NeedsHere

\* The unmarked store comes from where the marked one does.
LEMMA UnmarksCarried ==
  ASSUME NEW u, NEW v, Unmarks(u, v), NEW S, NEW p, NEW q, Marked(v), Carried(v, S, p, q)
  PROVE  Carried(u, S, p, q) /\ ~IsLogOf(u, v) /\ u.s = v.s /\ u.st = v.st /\ ~Marked(u)
BY DEF Unmarks, Carried, Same, Marked, IsLogOf

\* The pass drops the mark of a volatile store: nothing has to be logged.
LEMMA ValsUnmark ==
  ASSUME NEW vals, NEW vals2, NEW n \in Nat, Len(vals) = n, NEW i \in 1..n, Unmarked1(vals2, vals, i), NEW S, NEW f,
         ValsOK(vals, S, f), Marked(vals[i]), WillAccessVmem(vals[i].addr)
  PROVE  ValsOK(vals2, S, f) /\ ~NeedsHere(vals2[i], S, f[i])
<1>2. Len(vals2) = n /\ Unmarks(vals2[i], vals[i]) /\ \A j \in 1..n : j # i => vals2[j] = vals[j]
  BY DEF Unmarked1
<1>3. /\ \A j \in 1..n : Carried(vals[j], S, f[j - 1], f[j])
      /\ \A j \in 2..n : NeedsHere(vals[j], S, f[j]) => IsLogOf(vals[j - 1], vals[j])
  BY DEF ValsOK
<1>4. Carried(vals2[i], S, f[i - 1], f[i])
  BY <1>2, <1>3, UnmarksCarried
<1>5. ~NeedsHere(vals2[i], S, f[i])
  <2>1. Same(vals[i], S[f[i]]) /\ vals[i].op = "store"
    BY <1>2, <1>3 DEF Carried, Marked
  <2>2. WillAccessVmem(S[f[i]].addr)
    BY <2>1 DEF Same
  <2>3. QED
    BY <2>2 DEF NeedsHere, Needs
<1>6. \A j \in 1..n : Carried(vals2[j], S, f[j - 1], f[j])
  BY <1>2, <1>3, <1>4
<1>7. ASSUME NEW j \in 2..n, NeedsHere(vals2[j], S, f[j]) PROVE IsLogOf(vals2[j - 1], vals2[j])
  <2>1. j # i /\ j \in 1..n /\ vals2[j] = vals[j]
    BY <1>2, <1>5, <1>7
  <2>2. IsLogOf(vals[j - 1], vals[j])
    BY <2>1, <1>3, <1>7
  <2>3. j - 1 # i
    BY <2>2, MarkedFacts
  <2>4. j - 1 \in 1..n
    OBVIOUS
  <2>5. QED
    BY <2>1, <2>2, <2>3, <2>4, <1>2
<1>8. QED
  BY <1>2, <1>5, <1>6, <1>7 DEF ValsOK

InsertOK(vals2, vals, S, f, g, i) ==
  /\ g \in [Nat -> Nat] /\ g[0] = f[0] /\ g[Len(vals2)] = f[Len(vals)]
  /\ ValsOK(vals2, S, g)
  /\ NeedsHere(vals2[1], S, g[1]) => i # 1 /\ vals2[1] = vals[1] /\ g[1] = f[1]

\* Where the values are when a log is put in.
LEMMA ValsInsert ==
  ASSUME NEW vals, NEW vals2, NEW n \in Nat, Len(vals) = n, NEW i \in 1..n, Inserted(vals2, vals, i), NEW S, NEW f \in [Nat -> Nat],
         ValsOK(vals, S, f), Marked(vals[i]), NEW g, IsShift(g, f, i)
  PROVE  InsertOK(vals2, vals, S, f, g, i)
<1>1. i \in Nat /\ i >= 1 /\ i <= n
  OBVIOUS
<1>2. /\ Len(vals2) = n + 1 /\ IsLogOf(vals2[i], vals[i]) /\ Unmarks(vals2[i + 1], vals[i])
      /\ \A j \in 1..n : j < i => vals2[j] = vals[j]
      /\ \A j \in 1..n : j > i => vals2[j + 1] = vals[j]
  BY DEF Inserted
<1>3. /\ \A j \in 1..n : Carried(vals[j], S, f[j - 1], f[j])
      /\ \A j \in 2..n : NeedsHere(vals[j], S, f[j]) => IsLogOf(vals[j - 1], vals[j])
  BY DEF ValsOK
<1>4. g \in [Nat -> Nat] /\ \A j \in Nat : (j < i => g[j] = f[j]) /\ (j >= i => g[j] = f[j - 1])
  BY DEF IsShift
<1>5. /\ \A j \in 0..(i - 1) : g[j] = f[j]
      /\ \A j \in i..(n + 1) : g[j] = f[j - 1]
  <2>1. ASSUME NEW j \in 0..(i - 1) PROVE j \in Nat /\ j < i
    OBVIOUS
  <2>2. ASSUME NEW j \in i..(n + 1) PROVE j \in Nat /\ j >= i
    OBVIOUS
  <2>3. QED
    BY <2>1, <2>2, <1>4
<1>6. g[0] = f[0] /\ g[n + 1] = f[n] /\ g[i] = f[i - 1] /\ g[i + 1] = f[i] /\ g[i - 1] = f[i - 1]
  <2>1. /\ 0 \in 0..(i - 1) /\ n + 1 \in i..(n + 1) /\ i \in i..(n + 1) /\ i + 1 \in i..(n + 1) /\ i - 1 \in 0..(i - 1)
        /\ (n + 1) - 1 = n /\ (i + 1) - 1 = i
    OBVIOUS
  <2>2. QED
    BY <2>1, <1>5
<1>7. vals2[i].op = "log"
  BY <1>2 DEF IsLogOf
<1>8. Carried(vals2[i], S, g[i - 1], g[i])
  BY <1>6, <1>7 DEF Carried
<1>9. Carried(vals2[i + 1], S, g[i], g[i + 1]) /\ IsLogOf(vals2[i], vals2[i + 1])
  <2>1. Carried(vals[i], S, f[i - 1], f[i])
    BY <1>2, <1>3
  <2>2. Carried(vals2[i + 1], S, f[i - 1], f[i]) /\ vals2[i + 1].s = vals[i].s /\ vals2[i + 1].st = vals[i].st
    BY <2>1, <1>2, UnmarksCarried
  <2>3. QED
    BY <2>2, <1>2, <1>6 DEF IsLogOf
<1>10. ASSUME NEW j \in 1..(n + 1) PROVE Carried(vals2[j], S, g[j - 1], g[j])
  <2>1. CASE j < i
    <3>1. j \in 1..n /\ j - 1 \in 0..(i - 1) /\ j \in 0..(i - 1)
      BY <2>1, <1>1
    <3>2. QED
      BY <3>1, <2>1, <1>2, <1>3, <1>5
  <2>2. CASE j = i
    BY <2>2, <1>8
  <2>3. CASE j = i + 1
    <3>1. j - 1 = i
      BY <2>3, <1>1
    <3>2. QED
      BY <3>1, <2>3, <1>9
  <2>4. CASE j > i + 1
    <3>1. PICK m : m = j - 1
      OBVIOUS
    <3>2. m \in 1..n /\ m > i /\ j = m + 1 /\ j - 1 = m /\ j \in i..(n + 1) /\ m \in i..(n + 1)
      BY <3>1, <2>4, <1>1
    <3>3. vals2[m + 1] = vals[m] /\ g[j] = f[m] /\ g[m] = f[m - 1]
      BY <3>2, <1>2, <1>5
    <3>4. QED
      BY <3>2, <3>3, <1>3
  <2>5. QED
    BY <2>1, <2>2, <2>3, <2>4, <1>1
<1>11. ASSUME NEW j \in 2..(n + 1), NeedsHere(vals2[j], S, g[j]) PROVE IsLogOf(vals2[j - 1], vals2[j])
  <2>1. CASE j < i
    <3>1. j \in 2..n /\ j \in 1..n /\ j - 1 \in 1..n /\ j - 1 < i /\ j \in 0..(i - 1)
      BY <2>1, <1>1
    <3>2. vals2[j] = vals[j] /\ vals2[j - 1] = vals[j - 1] /\ g[j] = f[j]
      BY <3>1, <2>1, <1>2, <1>5
    <3>3. QED
      BY <3>1, <3>2, <1>3, <1>11
  <2>2. CASE j = i
    BY <2>2, <1>7, <1>11 DEF NeedsHere
  <2>3. CASE j = i + 1
    <3>1. j - 1 = i
      BY <2>3, <1>1
    <3>2. QED
      BY <3>1, <2>3, <1>9
  <2>4. CASE j > i + 1
    <3>1. PICK m : m = j - 1
      OBVIOUS
    <3>2. m \in 2..n /\ m \in 1..n /\ m > i /\ j = m + 1 /\ j - 1 = m /\ j \in i..(n + 1)
      BY <3>1, <2>4, <1>1
    <3>3. vals2[m + 1] = vals[m] /\ g[j] = f[m]
      BY <3>2, <1>2, <1>5
    <3>4. IsLogOf(vals[m - 1], vals[m])
      BY <3>2, <3>3, <1>3, <1>11
    <3>5. m - 1 # i
      BY <3>4, MarkedFacts
    <3>6. m - 1 \in 1..n /\ m - 1 > i /\ (m - 1) + 1 = m
      BY <3>2, <3>5, <1>1
    <3>7. vals2[m] = vals[m - 1]
      BY <3>6, <1>2
    <3>8. QED
      BY <3>2, <3>3, <3>4, <3>7
  <2>5. QED
    BY <2>1, <2>2, <2>3, <2>4, <1>1
<1>12. ASSUME NeedsHere(vals2[1], S, g[1]) PROVE i # 1 /\ vals2[1] = vals[1] /\ g[1] = f[1]
  <2>1. i # 1
    BY <1>7, <1>12 DEF NeedsHere
  <2>2. 1 < i /\ 1 \in 1..n /\ 1 \in 0..(i - 1)
    BY <2>1, <1>1
  <2>3. QED
    BY <2>1, <2>2, <1>2, <1>5
<1>13. QED
  BY <1>2, <1>4, <1>6, <1>10, <1>11, <1>12 DEF ValsOK, InsertOK

\* Where the values are when a block is split.
LEMMA ValsSplit ==
  ASSUME NEW vals, NEW lv, NEW rv, NEW n \in Nat, Len(vals) = n, NEW i \in 1..n, SplitAt(lv, rv, vals, i), NEW S, NEW f \in [Nat -> Nat],
         ValsOK(vals, S, f), Marked(vals[i]), NEW g, IsShift(g, f, i), NEW h, IsTail(h, f, i)
  PROVE  /\ ValsOK(lv, S, g) /\ g[0] = f[0] /\ g[Len(lv)] = f[i - 1]
         /\ NeedsHere(lv[1], S, g[1]) => i # 1 /\ lv[1] = vals[1] /\ g[1] = f[1]
         /\ ValsOK(rv, S, h) /\ h[0] = f[i - 1] /\ h[Len(rv)] = f[n] /\ Len(rv) >= 1
<1>1. i \in Nat /\ i >= 1 /\ i <= n
  OBVIOUS
<1>2. /\ Len(lv) = i /\ (\A j \in 1..(i - 1) : lv[j] = vals[j]) /\ lv[i].op = "inpmem"
      /\ Len(rv) = n - i + 1 /\ Unmarks(rv[1], vals[i]) /\ \A j \in 2..(n - i + 1) : rv[j] = vals[i + j - 1]
  BY DEF SplitAt
<1>3. /\ \A j \in 1..n : Carried(vals[j], S, f[j - 1], f[j])
      /\ \A j \in 2..n : NeedsHere(vals[j], S, f[j]) => IsLogOf(vals[j - 1], vals[j])
  BY DEF ValsOK
<1>4. /\ \A j \in Nat : (j < i => g[j] = f[j]) /\ (j >= i => g[j] = f[j - 1])
      /\ \A j \in Nat : h[j] = f[i - 1 + j]
  BY DEF IsShift, IsTail
<1>5. \A j \in 0..(i - 1) : g[j] = f[j]
  <2>1. ASSUME NEW j \in 0..(i - 1) PROVE j \in Nat /\ j < i
    OBVIOUS
  <2>2. QED
    BY <2>1, <1>4
<1>6. g[0] = f[0] /\ g[i] = f[i - 1] /\ g[i - 1] = f[i - 1]
  <2>1. 0 \in 0..(i - 1) /\ i - 1 \in 0..(i - 1) /\ i \in Nat /\ i >= i
    BY <1>1
  <2>2. QED
    BY <2>1, <1>4, <1>5
<1>7. ASSUME NEW j \in 1..i PROVE Carried(lv[j], S, g[j - 1], g[j])
  <2>1. CASE j = i
    BY <2>1, <1>2, <1>6 DEF Carried
  <2>2. CASE j # i
    <3>1. j \in 1..(i - 1) /\ j \in 0..(i - 1) /\ j - 1 \in 0..(i - 1) /\ j \in 1..n
      BY <2>2, <1>1
    <3>2. QED
      BY <3>1, <1>2, <1>3, <1>5
  <2>3. QED
    BY <2>1, <2>2
<1>8. ASSUME NEW j \in 2..i, NeedsHere(lv[j], S, g[j]) PROVE IsLogOf(lv[j - 1], lv[j])
  <2>1. j # i
    BY <1>2, <1>8 DEF NeedsHere
  <2>2. j \in 1..(i - 1) /\ j \in 0..(i - 1) /\ j - 1 \in 1..(i - 1) /\ j \in 2..n
    BY <2>1, <1>1
  <2>3. lv[j] = vals[j] /\ lv[j - 1] = vals[j - 1] /\ g[j] = f[j]
    BY <2>2, <1>2, <1>5
  <2>4. QED
    BY <2>2, <2>3, <1>3, <1>8
<1>9. ValsOK(lv, S, g) /\ g[Len(lv)] = f[i - 1]
  BY <1>2, <1>6, <1>7, <1>8 DEF ValsOK
<1>10. ASSUME NeedsHere(lv[1], S, g[1]) PROVE i # 1 /\ lv[1] = vals[1] /\ g[1] = f[1]
  <2>1. i # 1
    BY <1>2, <1>10 DEF NeedsHere
  <2>2. 1 \in 1..(i - 1) /\ 1 \in 0..(i - 1)
    BY <2>1, <1>1
  <2>3. QED
    BY <2>1, <2>2, <1>2, <1>5
<1>11. PICK m : m = n - i + 1
  OBVIOUS
<1>12. m \in Nat /\ m >= 1 /\ i - 1 + m = n
  BY <1>1, <1>11
<1>13. h[0] = f[i - 1] /\ h[1] = f[i] /\ h[m] = f[n]
  <2>1. i - 1 + 0 = i - 1 /\ i - 1 + 1 = i /\ 0 \in Nat /\ 1 \in Nat
    BY <1>1
  <2>2. QED
    BY <2>1, <1>4, <1>12
<1>14. ASSUME NEW j \in 2..m
       PROVE  /\ rv[j] = vals[i + j - 1] /\ h[j] = f[i + j - 1] /\ h[j - 1] = f[(i + j - 1) - 1]
              /\ i + j - 1 \in 2..n /\ i + j - 1 \in 1..n
  <2>1. j \in 2..(n - i + 1) /\ j \in Nat /\ j - 1 \in Nat
    BY <1>11
  <2>2. i - 1 + j = i + j - 1 /\ i - 1 + (j - 1) = (i + j - 1) - 1 /\ i + j - 1 \in 2..n /\ i + j - 1 \in 1..n
    BY <2>1, <1>1, <1>12
  <2>3. QED
    BY <2>1, <2>2, <1>2, <1>4
<1>15. Carried(rv[1], S, h[0], h[1]) /\ rv[1].op = "store"
  <2>1. Carried(vals[i], S, f[i - 1], f[i])
    BY <1>3
  <2>2. QED
    BY <2>1, <1>2, <1>13, UnmarksCarried DEF Unmarks
<1>16. ASSUME NEW j \in 1..m PROVE Carried(rv[j], S, h[j - 1], h[j])
  <2>1. CASE j = 1
    BY <2>1, <1>15
  <2>2. CASE j # 1
    <3>1. j \in 2..m
      BY <2>2
    <3>2. QED
      BY <3>1, <1>3, <1>14
  <2>3. QED
    BY <2>1, <2>2
<1>17. ASSUME NEW j \in 2..m, NeedsHere(rv[j], S, h[j]) PROVE IsLogOf(rv[j - 1], rv[j])
  <2>1. PICK k : k = i + j - 1
    OBVIOUS
  <2>2. rv[j] = vals[k] /\ h[j] = f[k] /\ k \in 2..n
    BY <2>1, <1>14
  <2>3. IsLogOf(vals[k - 1], vals[k])
    BY <2>2, <1>3, <1>17
  <2>4. k - 1 # i
    BY <2>3, MarkedFacts
  <2>5. j - 1 \in 2..m /\ i + (j - 1) - 1 = k - 1
    BY <2>1, <2>4, <1>1, <1>12
  <2>6. rv[j - 1] = vals[k - 1]
    BY <2>5, <1>14
  <2>7. QED
    BY <2>2, <2>3, <2>6
<1>18. ValsOK(rv, S, h) /\ h[Len(rv)] = f[n] /\ Len(rv) >= 1
  <2>1. Len(rv) = m
    BY <1>2, <1>11
  <2>2. QED
    BY <2>1, <1>12, <1>13, <1>16, <1>17 DEF ValsOK
<1>19. QED
  BY <1>6, <1>9, <1>10, <1>13, <1>18

\* bs2 is bs, but for the values of block b.
Revised(bs2, bs, b) ==
  /\ bs2 \in Seq(BlockRec) /\ Len(bs2) = Len(bs)
  /\ \A c \in 1..Len(bs) : c # b => bs2[c] = bs[c]
  /\ bs2[b].preds = bs[b].preds /\ bs2[b].succs = bs[b].succs /\ bs2[b].kind = bs[b].kind /\ bs2[b].phi = bs[b].phi

\* Succs and preds are each other's inverse.
LEMMA GraphFacts ==
  ASSUME NEW bs \in Seq(BlockRec)
  PROVE  GraphOK(bs) <=> \A b \in 1..Len(bs) :
           /\ \A c \in Succs(bs[b]) : c \in 1..Len(bs) /\ b \in Preds(bs[c])
           /\ \A c \in Preds(bs[b]) : c \in 1..Len(bs) /\ b \in Succs(bs[c])
           /\ bs[b].phi # <<>> => bs[b].phi = bs[b].preds
<1>1. DOMAIN bs = 1..Len(bs)
  <2> HIDE DEF BlockRec
  <2> QED
    OBVIOUS
<1>2. QED
  BY <1>1 DEF GraphOK, Succs, Preds

\* A block that logs for another has no marks.
LEMMA LogsQuiet ==
  ASSUME NEW B, NEW c, NEW v, LogsFor(B, c, v), B.kind = "inpmem" => Quiet(B)
  PROVE  Quiet(B)
<1>1. CASE Len(B.vals) = 1 /\ IsLogOf(B.vals[1], v)
  BY <1>1 DEF Quiet, Marked, IsLogOf
<1>2. CASE B.kind = "inpmem"
  BY <1>2
<1>3. QED
  BY <1>1, <1>2 DEF LogsFor

\* vals2 can take the place of vals.
Fits(vals2, vals, S, f, g) ==
  /\ g \in [Nat -> Nat] /\ ValsOK(vals2, S, g) /\ g[0] = f[0] /\ g[Len(vals2)] = f[Len(vals)]
  /\ Len(vals2) >= 1 /\ NeedsHere(vals2[1], S, g[1]) => Len(vals) >= 1 /\ vals2[1] = vals[1] /\ g[1] = f[1]
  /\ \A j \in 1..Len(vals2) : vals2[j].op = "inpmem" => \E k \in 1..Len(vals) : vals[k].op = "inpmem"

\* New values of a block that the pass looks at.
LEMMA ReviseOK ==
  ASSUME NEW bs \in Seq(BlockRec), Len(bs) >= 3, GraphOK(bs), TestsOK(bs), NEW src, NEW reg, NEW pos, PlaceOK(bs, src, reg, pos),
         NEW b \in 1..Len(bs), ~Quiet(bs[b]), NEW bs2, Revised(bs2, bs, b),
         NEW g, Fits(bs2[b].vals, bs[b].vals, src[reg[b]], pos[b], g)
  PROVE  BlocksOK(bs2, src)
<1> /\ g \in [Nat -> Nat] /\ ValsOK(bs2[b].vals, src[reg[b]], g) /\ g[0] = pos[b][0]
    /\ g[Len(bs2[b].vals)] = pos[b][Len(bs[b].vals)]
    /\ Len(bs2[b].vals) >= 1 /\ NeedsHere(bs2[b].vals[1], src[reg[b]], g[1]) =>
            Len(bs[b].vals) >= 1 /\ bs2[b].vals[1] = bs[b].vals[1] /\ g[1] = pos[b][1]
    /\ \A j \in 1..Len(bs2[b].vals) : bs2[b].vals[j].op = "inpmem" => \E k \in 1..Len(bs[b].vals) : bs[b].vals[k].op = "inpmem"
  BY DEF Fits
<1>0. PICK n : n = Len(bs)
  OBVIOUS
<1>1. n \in Nat /\ n >= 3 /\ b \in 1..n
  <2> HIDE DEF BlockRec
  <2> QED
    BY <1>0
<1>2. /\ bs2 \in Seq(BlockRec) /\ Len(bs2) = n
      /\ \A c \in 1..n : c # b => bs2[c] = bs[c]
      /\ bs2[b].preds = bs[b].preds /\ bs2[b].succs = bs[b].succs /\ bs2[b].kind = bs[b].kind /\ bs2[b].phi = bs[b].phi
  BY <1>0 DEF Revised
<1>3. \A c \in 1..n : /\ bs2[c].preds = bs[c].preds /\ bs2[c].succs = bs[c].succs
                      /\ bs2[c].kind = bs[c].kind /\ bs2[c].phi = bs[c].phi
                      /\ Succs(bs2[c]) = Succs(bs[c]) /\ Preds(bs2[c]) = Preds(bs[c])
  BY <1>2 DEF Succs, Preds
<1>4. \A x \in 1..n :
           /\ \A c \in Succs(bs[x]) : c \in 1..n /\ x \in Preds(bs[c])
           /\ \A c \in Preds(bs[x]) : c \in 1..n /\ x \in Succs(bs[c])
           /\ bs[x].phi # <<>> => bs[x].phi = bs[x].preds
  BY <1>0, GraphFacts
<1>5. GraphOK(bs2)
  <2>1. \A x \in 1..n :
           /\ \A c \in Succs(bs2[x]) : c \in 1..n /\ x \in Preds(bs2[c])
           /\ \A c \in Preds(bs2[x]) : c \in 1..n /\ x \in Succs(bs2[c])
           /\ bs2[x].phi # <<>> => bs2[x].phi = bs2[x].preds
    BY <1>3, <1>4
  <2>2. QED
    BY <2>1, <1>2, GraphFacts
<1>6. \A c \in 1..n :
    /\ bs[c].kind = "inpmem" => Quiet(bs[c])
    /\ \A i \in 1..Len(bs[c].vals) : bs[c].vals[i].op = "inpmem" => i = Len(bs[c].vals) /\ bs[c].kind = "inpmem"
    /\ bs[c].phi # <<>> => \A p \in Preds(bs[c]) : Quiet(bs[p])
    /\ c \notin Succs(bs[c])
  BY <1>0 DEF TestsOK
<1>7. bs[b].kind # "inpmem" /\ bs2[b].kind # "inpmem"
  BY <1>1, <1>2, <1>6
<1>8. \A j \in 1..Len(bs2[b].vals) : bs2[b].vals[j].op # "inpmem"
  BY <1>1, <1>6, <1>7
<1>9. TestsOK(bs2)
  <2>1. ASSUME NEW c \in 1..n, c # b
        PROVE  /\ bs2[c].kind = "inpmem" => Quiet(bs2[c])
               /\ \A i \in 1..Len(bs2[c].vals) : bs2[c].vals[i].op = "inpmem" => i = Len(bs2[c].vals) /\ bs2[c].kind = "inpmem"
    <3>1. bs2[c] = bs[c]
      BY <2>1, <1>2
    <3>2. /\ bs[c].kind = "inpmem" => Quiet(bs[c])
          /\ \A i \in 1..Len(bs[c].vals) : bs[c].vals[i].op = "inpmem" => i = Len(bs[c].vals) /\ bs[c].kind = "inpmem"
      BY <1>6
    <3>3. QED
      BY <3>1, <3>2, Zenon
  <2>2. ASSUME NEW c \in 1..n, bs2[c].phi # <<>>, NEW p \in Preds(bs2[c])
        PROVE  Quiet(bs2[p])
    <3>1. p \in Preds(bs[c]) /\ bs[c].phi # <<>>
      BY <2>2, <1>3
    <3>2. Quiet(bs[p]) /\ p \in 1..n
      BY <3>1, <1>4, <1>6
    <3>3. p # b
      BY <3>2
    <3>4. QED
      BY <3>2, <3>3, <1>2
  <2>3. \A c \in 1..n : c \notin Succs(bs2[c])
    BY <1>3, <1>6
  <2>4. QED
    BY <2>1, <2>2, <2>3, <1>2, <1>7, <1>8 DEF TestsOK
<1>10. /\ reg \in [1..n -> 1..3] /\ pos \in [1..n -> [Nat -> Nat]]
       /\ reg[1] = 1 /\ pos[1][0] = 0
       /\ \A c \in 1..n : ValsOK(bs[c].vals, src[reg[c]], pos[c])
       /\ \A c \in 1..n : FirstOK(bs, c, src[reg[c]], pos[c])
       /\ \A x \in 1..n : \A c \in Succs(bs[x]) :
            Edge(src, reg[x], pos[x][Len(bs[x].vals)], reg[c], pos[c][0])
       /\ \A c \in 1..n : bs[c].kind = "ret" => reg[c] = 3 /\ pos[c][Len(bs[c].vals)] = Len(src[3])
  BY <1>0 DEF PlaceOK
<1>11. PICK pos2 : pos2 = [pos EXCEPT ![b] = g]
  OBVIOUS
<1>12. /\ pos2 \in [1..n -> [Nat -> Nat]] /\ pos2[b] = g /\ \A c \in 1..n : c # b => pos2[c] = pos[c]
  BY <1>1, <1>10, <1>11
<1>13. \A c \in 1..n : pos2[c][0] = pos[c][0] /\ pos2[c][Len(bs2[c].vals)] = pos[c][Len(bs[c].vals)]
  BY <1>2, <1>12
<1>14. ASSUME NEW c \in 1..n PROVE ValsOK(bs2[c].vals, src[reg[c]], pos2[c])
  BY <1>2, <1>10, <1>12
<1>15. ASSUME NEW c \in 1..n, Len(bs2[c].vals) >= 1, NeedsHere(bs2[c].vals[1], src[reg[c]], pos2[c][1])
       PROVE  c # 1 /\ \A p \in 1..n : c \in Succs(bs2[p]) => LogsFor(bs2[p], c, bs2[c].vals[1])
  <2>1. Len(bs[c].vals) >= 1 /\ bs2[c].vals[1] = bs[c].vals[1] /\ pos2[c][1] = pos[c][1]
    <3>1. CASE c = b
      BY <3>1, <1>12, <1>15
    <3>2. CASE c # b
      BY <3>2, <1>2, <1>12, <1>15
    <3>3. QED
      BY <3>1, <3>2
  <2>2. c # 1 /\ \A p \in 1..n : c \in Succs(bs[p]) => LogsFor(bs[p], c, bs[c].vals[1])
    BY <2>1, <1>0, <1>10, <1>15 DEF FirstOK
  <2>3. ASSUME NEW p \in 1..n, c \in Succs(bs2[p]) PROVE LogsFor(bs2[p], c, bs2[c].vals[1])
    <3>1. LogsFor(bs[p], c, bs[c].vals[1])
      BY <2>2, <2>3, <1>3
    <3>2. p # b
      BY <3>1, <1>6, LogsQuiet
    <3>3. QED
      BY <3>1, <3>2, <2>1, <1>2
  <2>4. QED
    BY <2>2, <2>3
<1>16. \A c \in 1..n : FirstOK(bs2, c, src[reg[c]], pos2[c])
  BY <1>2, <1>15 DEF FirstOK
<1>17. \A x \in 1..n : \A c \in Succs(bs2[x]) :
            Edge(src, reg[x], pos2[x][Len(bs2[x].vals)], reg[c], pos2[c][0])
  BY <1>3, <1>4, <1>10, <1>13
<1>18. \A c \in 1..n : bs2[c].kind = "ret" => reg[c] = 3 /\ pos2[c][Len(bs2[c].vals)] = Len(src[3])
  BY <1>3, <1>10, <1>13
<1>19. 1 \in 1..n
  BY <1>1
<1>20. PlaceOK(bs2, src, reg, pos2)
  BY <1>2, <1>10, <1>12, <1>13, <1>14, <1>16, <1>17, <1>18, <1>19 DEF PlaceOK
<1>21. QED
  BY <1>1, <1>2, <1>5, <1>9, <1>20 DEF BlocksOK

\* bs2 is bs with block b split into itself, bThen with the log lg and bEnd.
SplitBlocks(bs2, bs, b, n, lv, lg, rv) ==
  /\ bs2 \in Seq(BlockRec) /\ Len(bs2) = n + 2
  /\ \A c \in 1..n : c # b =>
       /\ bs2[c].vals = bs[c].vals /\ bs2[c].succs = bs[c].succs /\ bs2[c].kind = bs[c].kind /\ bs2[c].phi = bs[c].phi
       /\ c \notin Succs(bs[b]) => bs2[c].preds = bs[c].preds
       /\ c \in Succs(bs[b]) => Preds(bs2[c]) = {IF x = b THEN n + 2 ELSE x : x \in Preds(bs[c])}
  /\ bs2[b].vals = lv /\ bs2[b].kind = "inpmem" /\ bs2[b].preds = bs[b].preds /\ bs2[b].phi = bs[b].phi
  /\ Len(bs2[b].succs) = 2 /\ bs2[b].succs[1] = n + 1 /\ bs2[b].succs[2] = n + 2 /\ Succs(bs2[b]) = {n + 1, n + 2}
  /\ Len(bs2[n + 1].vals) = 1 /\ bs2[n + 1].vals[1] = lg /\ bs2[n + 1].kind = "plain" /\ bs2[n + 1].phi = <<>>
  /\ Succs(bs2[n + 1]) = {n + 2} /\ Preds(bs2[n + 1]) = {b}
  /\ bs2[n + 2].vals = rv /\ bs2[n + 2].kind = bs[b].kind /\ bs2[n + 2].succs = bs[b].succs
  /\ Preds(bs2[n + 2]) = {b, n + 1} /\ bs2[n + 2].phi = bs2[n + 2].preds

\* What the graph of the blocks is, in numbers.
Linked(bs, n) ==
  \A x \in 1..n : /\ \A c \in Succs(bs[x]) : c \in 1..n /\ x \in Preds(bs[c])
                  /\ \A c \in Preds(bs[x]) : c \in 1..n /\ x \in Succs(bs[c])
                  /\ bs[x].phi # <<>> => bs[x].phi = bs[x].preds

\* Splitting a block that has a mark keeps the graph.
LEMMA SplitGraph ==
  ASSUME NEW n \in Nat, NEW bs, NEW bs2, NEW b \in 1..n, NEW lv, NEW lg, NEW rv, SplitBlocks(bs2, bs, b, n, lv, lg, rv),
         Linked(bs, n), b \notin Succs(bs[b]), \A c \in 1..n : bs[c].phi # <<>> => b \notin Preds(bs[c])
  PROVE  Linked(bs2, n + 2)
<1>1. /\ \A x \in 1..n : \A c \in Succs(bs[x]) : c \in 1..n /\ x \in Preds(bs[c])
      /\ \A x \in 1..n : \A c \in Preds(bs[x]) : c \in 1..n /\ x \in Succs(bs[c])
      /\ \A x \in 1..n : bs[x].phi # <<>> => bs[x].phi = bs[x].preds
  BY DEF Linked
<1>2. /\ \A c \in 1..n : c # b => Succs(bs2[c]) = Succs(bs[c]) /\ bs2[c].phi = bs[c].phi
      /\ \A c \in 1..n : c # b /\ c \notin Succs(bs[b]) => Preds(bs2[c]) = Preds(bs[c]) /\ bs2[c].preds = bs[c].preds
      /\ \A c \in 1..n : c # b /\ c \in Succs(bs[b]) => Preds(bs2[c]) = {IF x = b THEN n + 2 ELSE x : x \in Preds(bs[c])}
      /\ Succs(bs2[b]) = {n + 1, n + 2} /\ Preds(bs2[b]) = Preds(bs[b]) /\ bs2[b].phi = bs[b].phi /\ bs2[b].preds = bs[b].preds
      /\ Succs(bs2[n + 1]) = {n + 2} /\ Preds(bs2[n + 1]) = {b} /\ bs2[n + 1].phi = <<>>
      /\ Succs(bs2[n + 2]) = Succs(bs[b]) /\ Preds(bs2[n + 2]) = {b, n + 1} /\ bs2[n + 2].phi = bs2[n + 2].preds
  BY DEF SplitBlocks, Succs, Preds
<1>3. \A x \in 1..(n + 2) : x \in 1..n \/ x = n + 1 \/ x = n + 2
  OBVIOUS
<1>4. \A x \in 1..n : x \in 1..(n + 2) /\ x # n + 1 /\ x # n + 2
  OBVIOUS
<1>5. n + 1 \in 1..(n + 2) /\ n + 2 \in 1..(n + 2) /\ b \in 1..(n + 2)
  OBVIOUS
<1>6. ASSUME NEW x \in 1..(n + 2), NEW c \in Succs(bs2[x]) PROVE c \in 1..(n + 2) /\ x \in Preds(bs2[c])
  <2>1. CASE x = b
    BY <2>1, <1>2, <1>5, <1>6
  <2>2. CASE x = n + 1
    BY <2>2, <1>2, <1>5, <1>6
  <2>3. CASE x = n + 2
    <3>1. c \in Succs(bs[b]) /\ c # b
      BY <2>3, <1>2, <1>6
    <3>2. c \in 1..n /\ b \in Preds(bs[c])
      BY <3>1, <1>1
    <3>3. n + 2 \in Preds(bs2[c])
      <4>1. Preds(bs2[c]) = {IF y = b THEN n + 2 ELSE y : y \in Preds(bs[c])}
        BY <3>1, <3>2, <1>2
      <4>2. n + 2 = (IF b = b THEN n + 2 ELSE b)
        OBVIOUS
      <4>3. QED
        BY <4>1, <4>2, <3>2
    <3>4. QED
      BY <3>2, <3>3, <2>3, <1>4
  <2>4. CASE x \in 1..n /\ x # b
    <3>1. c \in Succs(bs[x])
      BY <2>4, <1>2, <1>6
    <3>2. c \in 1..n /\ x \in Preds(bs[c])
      BY <3>1, <2>4, <1>1
    <3>3. x \in Preds(bs2[c])
      <4>1. CASE c = b
        BY <4>1, <3>2, <1>2
      <4>2. CASE c # b /\ c \notin Succs(bs[b])
        BY <4>2, <3>2, <1>2
      <4>3. CASE c # b /\ c \in Succs(bs[b])
        <5>1. x = (IF x = b THEN n + 2 ELSE x)
          BY <2>4
        <5>2. Preds(bs2[c]) = {IF y = b THEN n + 2 ELSE y : y \in Preds(bs[c])}
          BY <4>3, <3>2, <1>2
        <5>3. QED
          BY <5>1, <5>2, <3>2
      <4>4. QED
        BY <4>1, <4>2, <4>3
    <3>4. QED
      BY <3>2, <3>3, <1>4
  <2>5. QED
    BY <2>1, <2>2, <2>3, <2>4, <1>3
<1>7. ASSUME NEW c \in 1..(n + 2), NEW x \in Preds(bs2[c]) PROVE x \in 1..(n + 2) /\ c \in Succs(bs2[x])
  <2>1. CASE c = b
    <3>1. x \in Preds(bs[b])
      BY <2>1, <1>2, <1>7
    <3>2. x \in 1..n /\ b \in Succs(bs[x])
      BY <3>1, <1>1
    <3>3. x # b
      BY <3>2
    <3>4. QED
      BY <3>2, <3>3, <2>1, <1>2, <1>4
  <2>2. CASE c = n + 1
    BY <2>2, <1>2, <1>5, <1>7
  <2>3. CASE c = n + 2
    BY <2>3, <1>2, <1>5, <1>7
  <2>4. CASE c \in 1..n /\ c # b
    <3>1. CASE c \in Succs(bs[b])
      <4>1. PICK y \in Preds(bs[c]) : x = (IF y = b THEN n + 2 ELSE y)
        <5>1. Preds(bs2[c]) = {IF y = b THEN n + 2 ELSE y : y \in Preds(bs[c])}
          BY <3>1, <2>4, <1>2
        <5>2. QED
          BY <5>1, <1>7
      <4>2. CASE y = b
        <5>1. x = n + 2
          BY <4>1, <4>2
        <5>2. QED
          BY <5>1, <3>1, <1>2, <1>5
      <4>3. CASE y # b
        <5>1. x = y /\ y \in 1..n /\ c \in Succs(bs[y])
          BY <4>1, <4>3, <2>4, <1>1
        <5>2. QED
          BY <5>1, <4>3, <1>2, <1>4
      <4>4. QED
        BY <4>2, <4>3
    <3>2. CASE c \notin Succs(bs[b])
      <4>1. x \in Preds(bs[c])
        BY <3>2, <2>4, <1>2, <1>7
      <4>2. x \in 1..n /\ c \in Succs(bs[x])
        BY <4>1, <2>4, <1>1
      <4>3. x # b
        BY <4>2, <3>2
      <4>4. QED
        BY <4>2, <4>3, <1>2, <1>4
    <3>3. QED
      BY <3>1, <3>2
  <2>5. QED
    BY <2>1, <2>2, <2>3, <2>4, <1>3
<1>8. ASSUME NEW c \in 1..(n + 2), bs2[c].phi # <<>> PROVE bs2[c].phi = bs2[c].preds
  <2>1. CASE c = b
    BY <2>1, <1>1, <1>2, <1>8
  <2>2. CASE c = n + 1
    BY <2>2, <1>2, <1>8
  <2>3. CASE c = n + 2
    BY <2>3, <1>2
  <2>4. CASE c \in 1..n /\ c # b
    <3>1. bs[c].phi # <<>> /\ bs2[c].phi = bs[c].phi
      BY <2>4, <1>2, <1>8
    <3>2. b \notin Preds(bs[c])
      BY <3>1, <2>4
    <3>3. c \notin Succs(bs[b])
      BY <3>2, <1>1
    <3>4. QED
      BY <3>1, <3>3, <2>4, <1>1, <1>2
  <2>5. QED
    BY <2>1, <2>2, <2>3, <2>4, <1>3
<1>9. QED
  BY <1>6, <1>7, <1>8 DEF Linked

\* Splitting a block at its first mark keeps what TestsOK says.
LEMMA SplitTests ==
  ASSUME NEW n \in Nat, NEW bs, Len(bs) = n, NEW bs2, NEW b \in 1..n, NEW lv, NEW lg, NEW rv, SplitBlocks(bs2, bs, b, n, lv, lg, rv),
         Linked(bs, n), Linked(bs2, n + 2), TestsOK(bs), NEW m \in Nat, Len(bs[b].vals) = m, NEW i \in 1..m,
         SplitAt(lv, rv, bs[b].vals, i), Marked(bs[b].vals[i]), \A j \in 1..(i - 1) : ~Marked(bs[b].vals[j]), lg.op = "log"
  PROVE  TestsOK(bs2)
<1>1. \A c \in 1..n :
    /\ bs[c].kind = "inpmem" => Quiet(bs[c])
    /\ \A j \in 1..Len(bs[c].vals) : bs[c].vals[j].op = "inpmem" => j = Len(bs[c].vals) /\ bs[c].kind = "inpmem"
    /\ bs[c].phi # <<>> => \A p \in Preds(bs[c]) : Quiet(bs[p])
    /\ c \notin Succs(bs[c])
  BY DEF TestsOK
<1>2. PICK vals : vals = bs[b].vals
  OBVIOUS
<1>3. ~Quiet(bs[b]) /\ bs[b].kind # "inpmem" /\ \A j \in 1..m : vals[j].op # "inpmem"
  <2>1. ~Quiet(bs[b])
    BY <1>2 DEF Quiet
  <2>2. QED
    BY <2>1, <1>1, <1>2
<1>4. /\ Len(bs2) = n + 2
      /\ \A c \in 1..n : c # b => bs2[c].vals = bs[c].vals /\ Succs(bs2[c]) = Succs(bs[c]) /\ bs2[c].kind = bs[c].kind /\ bs2[c].phi = bs[c].phi
      /\ \A c \in 1..n : c # b /\ c \notin Succs(bs[b]) => Preds(bs2[c]) = Preds(bs[c])
      /\ bs2[b].vals = lv /\ Succs(bs2[b]) = {n + 1, n + 2} /\ Preds(bs2[b]) = Preds(bs[b]) /\ bs2[b].phi = bs[b].phi /\ bs2[b].kind = "inpmem"
      /\ Len(bs2[n + 1].vals) = 1 /\ bs2[n + 1].vals[1] = lg /\ bs2[n + 1].kind = "plain" /\ bs2[n + 1].phi = <<>> /\ Succs(bs2[n + 1]) = {n + 2}
      /\ bs2[n + 2].vals = rv /\ bs2[n + 2].kind = bs[b].kind /\ Succs(bs2[n + 2]) = Succs(bs[b]) /\ Preds(bs2[n + 2]) = {b, n + 1}
  BY DEF SplitBlocks, Succs, Preds
<1>5. \A x \in 1..(n + 2) : x \in 1..n \/ x = n + 1 \/ x = n + 2
  OBVIOUS
<1>6. /\ Len(lv) = i /\ (\A j \in 1..(i - 1) : lv[j] = vals[j]) /\ lv[i].op = "inpmem"
      /\ Len(rv) = m - i + 1 /\ Unmarks(rv[1], vals[i]) /\ \A j \in 2..(m - i + 1) : rv[j] = vals[i + j - 1]
  BY <1>2 DEF SplitAt
<1>7. \A c \in 1..n : c # b => (Quiet(bs2[c]) <=> Quiet(bs[c]))
  BY <1>4 DEF Quiet
<1>8. Quiet(bs2[b])
  <2>1. ASSUME NEW j \in 1..i PROVE ~Marked(lv[j])
    <3>1. CASE j = i
      BY <3>1, <1>6 DEF Marked
    <3>2. CASE j # i
      <4>1. j \in 1..(i - 1)
        BY <3>2
      <4>2. QED
        BY <4>1, <1>2, <1>6
    <3>3. QED
      BY <3>1, <3>2
  <2>2. QED
    BY <2>1, <1>4, <1>6 DEF Quiet
<1>9. Quiet(bs2[n + 1]) /\ \A j \in 1..Len(bs2[n + 1].vals) : bs2[n + 1].vals[j].op # "inpmem"
  BY <1>4 DEF Quiet, Marked
<1>10. \A j \in 1..Len(rv) : rv[j].op # "inpmem"
  <2>1. ASSUME NEW j \in 1..(m - i + 1) PROVE rv[j].op # "inpmem"
    <3>1. CASE j = 1
      BY <3>1, <1>6 DEF Unmarks
    <3>2. CASE j # 1
      <4>1. j \in 2..(m - i + 1) /\ i + j - 1 \in 1..m
        BY <3>2
      <4>2. QED
        BY <4>1, <1>3, <1>6
    <3>3. QED
      BY <3>1, <3>2
  <2>2. QED
    BY <2>1, <1>6
<1>11. \A j \in 1..Len(lv) : lv[j].op = "inpmem" => j = Len(lv)
  <2>1. ASSUME NEW j \in 1..i, j # i PROVE lv[j].op # "inpmem"
    <3>1. j \in 1..(i - 1) /\ j \in 1..m
      BY <2>1
    <3>2. QED
      BY <3>1, <1>3, <1>6
  <2>2. QED
    BY <2>1, <1>6
<1>12. ASSUME NEW c \in 1..(n + 2) PROVE bs2[c].kind = "inpmem" => Quiet(bs2[c])
  <2>1. CASE c = b
    BY <2>1, <1>8
  <2>2. CASE c = n + 1
    BY <2>2, <1>9
  <2>3. CASE c = n + 2
    BY <2>3, <1>3, <1>4
  <2>4. CASE c \in 1..n /\ c # b
    BY <2>4, <1>1, <1>4, <1>7
  <2>5. QED
    BY <2>1, <2>2, <2>3, <2>4, <1>5
<1>13. ASSUME NEW c \in 1..(n + 2), NEW j \in 1..Len(bs2[c].vals), bs2[c].vals[j].op = "inpmem"
       PROVE  j = Len(bs2[c].vals) /\ bs2[c].kind = "inpmem"
  <2>1. CASE c = b
    BY <2>1, <1>4, <1>11, <1>13
  <2>2. CASE c = n + 1
    BY <2>2, <1>9, <1>13
  <2>3. CASE c = n + 2
    BY <2>3, <1>4, <1>10, <1>13
  <2>4. CASE c \in 1..n /\ c # b
    <3>1. bs2[c].vals = bs[c].vals /\ bs2[c].kind = bs[c].kind
      BY <2>4, <1>4
    <3>2. QED
      BY <3>1, <2>4, <1>1, <1>13
  <2>5. QED
    BY <2>1, <2>2, <2>3, <2>4, <1>5
<1>14. ASSUME NEW c \in 1..(n + 2), bs2[c].phi # <<>>, NEW p \in Preds(bs2[c]) PROVE Quiet(bs2[p])
  <2>1. CASE c = b
    <3>1. p \in Preds(bs[b]) /\ bs[b].phi # <<>>
      BY <2>1, <1>4, <1>14
    <3>2. Quiet(bs[p]) /\ p \in 1..n
      BY <3>1, <1>1 DEF Linked
    <3>3. p # b
      BY <3>2, <1>3
    <3>4. QED
      BY <3>2, <3>3, <1>7
  <2>2. CASE c = n + 1
    BY <2>2, <1>4, <1>14
  <2>3. CASE c = n + 2
    BY <2>3, <1>4, <1>8, <1>9, <1>14
  <2>4. CASE c \in 1..n /\ c # b
    <3>1. bs[c].phi # <<>>
      BY <2>4, <1>4, <1>14
    <3>2. b \notin Preds(bs[c])
      BY <3>1, <2>4, <1>1, <1>3
    <3>3. c \notin Succs(bs[b])
      BY <3>2 DEF Linked
    <3>4. p \in Preds(bs[c])
      BY <3>3, <2>4, <1>4, <1>14
    <3>5. Quiet(bs[p]) /\ p \in 1..n
      BY <3>1, <3>4, <2>4, <1>1 DEF Linked
    <3>6. p # b
      BY <3>2, <3>4
    <3>7. QED
      BY <3>5, <3>6, <1>7
  <2>5. QED
    BY <2>1, <2>2, <2>3, <2>4, <1>5
<1>15. ASSUME NEW c \in 1..(n + 2) PROVE c \notin Succs(bs2[c])
  <2>1. CASE c = b
    <3>1. b # n + 1 /\ b # n + 2
      OBVIOUS
    <3>2. QED
      BY <3>1, <2>1, <1>4
  <2>2. CASE c = n + 1
    BY <2>2, <1>4
  <2>3. CASE c = n + 2
    <3>1. n + 2 \notin 1..n
      OBVIOUS
    <3>2. \A x \in Succs(bs[b]) : x \in 1..n
      BY DEF Linked
    <3>3. QED
      BY <3>1, <3>2, <2>3, <1>4
  <2>4. CASE c \in 1..n /\ c # b
    BY <2>4, <1>1, <1>4
  <2>5. QED
    BY <2>1, <2>2, <2>3, <2>4, <1>5
<1>16. QED
  BY <1>4, <1>12, <1>13, <1>14, <1>15 DEF TestsOK

\* A position that does not move.
LEMMA ThenVals ==
  ASSUME NEW vals, Len(vals) = 1, vals[1].op = "log", NEW S, NEW p \in Nat, NEW k, k = [j \in Nat |-> p]
  PROVE  ValsOK(vals, S, k) /\ k \in [Nat -> Nat] /\ k[0] = p /\ k[1] = p /\ ~NeedsHere(vals[1], S, k[1])
<1>1. k \in [Nat -> Nat] /\ k[0] = p /\ k[1] = p
  OBVIOUS
<1>2. Carried(vals[1], S, k[0], k[1]) /\ ~NeedsHere(vals[1], S, k[1])
  BY <1>1 DEF Carried, NeedsHere
<1>3. \A j \in 1..1 : j = 1 /\ j - 1 = 0
  OBVIOUS
<1>4. \A j \in 1..Len(vals) : Carried(vals[j], S, k[j - 1], k[j])
  BY <1>2, <1>3
<1>5. \A j \in 2..Len(vals) : FALSE
  OBVIOUS
<1>6. QED
  BY <1>1, <1>2, <1>4, <1>5 DEF ValsOK

\* Whether a block logs for another depends on its values, successors and kind.
LEMMA LogsSame ==
  ASSUME NEW A, NEW B, A.vals = B.vals, A.succs = B.succs, A.kind = B.kind, NEW c, NEW v, LogsFor(A, c, v)
  PROVE  LogsFor(B, c, v)
BY DEF LogsFor

\* Splitting a block that has a mark: where the values come from.
LEMMA SplitPlace ==
  ASSUME NEW n \in Nat, NEW bs, Len(bs) = n, NEW bs2, NEW b \in 1..n, NEW lv, NEW lg, NEW rv, SplitBlocks(bs2, bs, b, n, lv, lg, rv),
         Linked(bs, n), TestsOK(bs), NEW m \in Nat, Len(bs[b].vals) = m, NEW i \in 1..m,
         SplitAt(lv, rv, bs[b].vals, i), Marked(bs[b].vals[i]), IsLogOf(lg, bs[b].vals[i]),
         NEW src, NEW reg, NEW pos, PlaceOK(bs, src, reg, pos)
  PROVE  \E reg2, pos2 : PlaceOK(bs2, src, reg2, pos2)
<1>1. /\ reg \in [1..n -> 1..3] /\ pos \in [1..n -> [Nat -> Nat]]
      /\ reg[1] = 1 /\ pos[1][0] = 0
      /\ \A c \in 1..n : ValsOK(bs[c].vals, src[reg[c]], pos[c])
      /\ \A c \in 1..n : FirstOK(bs, c, src[reg[c]], pos[c])
      /\ \A x \in 1..n : \A c \in Succs(bs[x]) :
           Edge(src, reg[x], pos[x][Len(bs[x].vals)], reg[c], pos[c][0])
      /\ \A c \in 1..n : bs[c].kind = "ret" => reg[c] = 3 /\ pos[c][Len(bs[c].vals)] = Len(src[3])
  BY DEF PlaceOK
<1>2. PICK vals, f, S, r : vals = bs[b].vals /\ f = pos[b] /\ S = src[reg[b]] /\ r = reg[b]
  OBVIOUS
<1>3. f \in [Nat -> Nat] /\ ValsOK(vals, S, f) /\ r \in 1..3 /\ i \in Nat /\ i >= 1 /\ f[i - 1] \in Nat
  <2>1. f \in [Nat -> Nat] /\ ValsOK(vals, S, f) /\ r \in 1..3
    BY <1>1, <1>2
  <2>2. i - 1 \in Nat /\ i \in Nat /\ i >= 1
    OBVIOUS
  <2>3. QED
    BY <2>1, <2>2
<1>4. PICK g, h : IsShift(g, f, i) /\ IsTail(h, f, i)
  BY <1>3, ShiftExists
<1>5. PICK k : k = [j \in Nat |-> f[i - 1]]
  OBVIOUS
<1>6. g \in [Nat -> Nat] /\ h \in [Nat -> Nat]
  BY <1>4 DEF IsShift, IsTail
<1>7. /\ ValsOK(lv, S, g) /\ g[0] = f[0] /\ g[Len(lv)] = f[i - 1]
      /\ NeedsHere(lv[1], S, g[1]) => i # 1 /\ lv[1] = vals[1] /\ g[1] = f[1]
      /\ ValsOK(rv, S, h) /\ h[0] = f[i - 1] /\ h[Len(rv)] = f[m] /\ Len(rv) >= 1
  <2>1. Len(vals) = m /\ SplitAt(lv, rv, vals, i) /\ Marked(vals[i])
    BY <1>2
  <2>2. f \in [Nat -> Nat] /\ ValsOK(vals, S, f)
    BY <1>3
  <2> HIDE DEF ValsOK, SplitAt, Marked, IsShift, IsTail, NeedsHere
  <2>3. QED
    BY <2>1, <2>2, <1>4, ValsSplit, Zenon
<1>8. /\ Len(bs2) = n + 2
      /\ \A c \in 1..n : c # b => bs2[c].vals = bs[c].vals /\ bs2[c].succs = bs[c].succs /\ Succs(bs2[c]) = Succs(bs[c]) /\ bs2[c].kind = bs[c].kind
      /\ bs2[b].vals = lv /\ Succs(bs2[b]) = {n + 1, n + 2} /\ bs2[b].kind = "inpmem"
      /\ Len(bs2[b].succs) = 2 /\ bs2[b].succs[1] = n + 1 /\ bs2[b].succs[2] = n + 2
      /\ Len(bs2[n + 1].vals) = 1 /\ bs2[n + 1].vals[1] = lg /\ bs2[n + 1].kind = "plain" /\ Succs(bs2[n + 1]) = {n + 2}
      /\ bs2[n + 2].vals = rv /\ bs2[n + 2].kind = bs[b].kind /\ Succs(bs2[n + 2]) = Succs(bs[b])
  BY DEF SplitBlocks, Succs
<1>9. lg.op = "log" /\ lg.s = vals[i].s /\ lg.st = vals[i].st
  BY <1>2 DEF IsLogOf
<1>10. /\ Len(lv) = i /\ lv[i].op = "inpmem" /\ lv[i].st = vals[i].st
       /\ Unmarks(rv[1], vals[i]) /\ rv[1].s = vals[i].s /\ rv[1].st = vals[i].st
  <2>1. Len(lv) = i /\ lv[i].op = "inpmem" /\ lv[i].st = vals[i].st /\ Unmarks(rv[1], vals[i])
    BY <1>2 DEF SplitAt
  <2>2. vals[i].op = "store"
    BY <1>2 DEF Marked
  <2>3. QED
    BY <2>1, <2>2 DEF Unmarks, Same
<1>11. PICK reg2 : reg2 = [c \in 1..(n + 2) |-> IF c \in 1..n THEN reg[c] ELSE r]
  OBVIOUS
<1>12. PICK pos2 : pos2 = [c \in 1..(n + 2) |-> IF c = b THEN g ELSE IF c \in 1..n THEN pos[c] ELSE IF c = n + 1 THEN k ELSE h]
  OBVIOUS
<1>13. \A x \in 1..(n + 2) : x \in 1..n \/ x = n + 1 \/ x = n + 2
  OBVIOUS
<1>14. \A x \in 1..n : x \in 1..(n + 2) /\ x # n + 1 /\ x # n + 2
  OBVIOUS
<1>15. n + 1 \in 1..(n + 2) /\ n + 2 \in 1..(n + 2) /\ n + 1 \notin 1..n /\ n + 2 \notin 1..n /\ n + 1 # n + 2 /\ b # n + 1 /\ b # n + 2
  OBVIOUS
<1>16. /\ \A c \in 1..n : reg2[c] = reg[c]
       /\ reg2[n + 1] = r /\ reg2[n + 2] = r
       /\ reg2 \in [1..(n + 2) -> 1..3]
  BY <1>1, <1>3, <1>11, <1>14, <1>15
<1>17. /\ \A c \in 1..n : c # b => pos2[c] = pos[c]
       /\ pos2[b] = g /\ pos2[n + 1] = k /\ pos2[n + 2] = h
  BY <1>12, <1>14, <1>15
<1>18. /\ ValsOK(bs2[n + 1].vals, S, k) /\ k \in [Nat -> Nat] /\ k[0] = f[i - 1] /\ k[1] = f[i - 1]
       /\ ~NeedsHere(bs2[n + 1].vals[1], S, k[1])
  <2>1. PICK vv, p : vv = bs2[n + 1].vals /\ p = f[i - 1]
    OBVIOUS
  <2>2. Len(vv) = 1 /\ vv[1].op = "log" /\ p \in Nat /\ k = [j \in Nat |-> p]
    BY <2>1, <1>3, <1>5, <1>8, <1>9
  <2>3. ValsOK(vv, S, k) /\ k \in [Nat -> Nat] /\ k[0] = p /\ k[1] = p /\ ~NeedsHere(vv[1], S, k[1])
    BY <2>2, ThenVals
  <2>4. QED
    BY <2>1, <2>3
<1>19. pos2 \in [1..(n + 2) -> [Nat -> Nat]]
  <2> DEFINE e(c) == IF c = b THEN g ELSE IF c \in 1..n THEN pos[c] ELSE IF c = n + 1 THEN k ELSE h
  <2>1. ASSUME NEW c \in 1..(n + 2) PROVE e(c) \in [Nat -> Nat]
    <3>1. CASE c \in 1..n
      BY <3>1, <1>1, <1>6
    <3>2. CASE c \notin 1..n
      <4>1. c # b
        BY <3>2
      <4>2. QED
        BY <4>1, <3>2, <1>6, <1>18
    <3>3. QED
      BY <3>1, <3>2
  <2>2. pos2 = [c \in 1..(n + 2) |-> e(c)]
    BY <1>12
  <2> HIDE DEF e
  <2>3. QED
    BY <2>1, <2>2
<1>20. ASSUME NEW c \in 1..(n + 2) PROVE ValsOK(bs2[c].vals, src[reg2[c]], pos2[c])
  <2>1. CASE c = b
    BY <2>1, <1>2, <1>7, <1>8, <1>16, <1>17
  <2>2. CASE c = n + 1
    BY <2>2, <1>2, <1>16, <1>17, <1>18
  <2>3. CASE c = n + 2
    BY <2>3, <1>2, <1>7, <1>8, <1>16, <1>17
  <2>4. CASE c \in 1..n /\ c # b
    BY <2>4, <1>1, <1>8, <1>16, <1>17
  <2>5. QED
    BY <2>1, <2>2, <2>3, <2>4, <1>13
<1>21. \A x \in 1..n : \A c \in Succs(bs[x]) : c \in 1..n
  BY DEF Linked
<1>22. b \notin Succs(bs[b]) /\ ~Quiet(bs[b]) /\ \A c \in 1..n : bs[c].kind = "inpmem" => Quiet(bs[c])
  BY DEF TestsOK, Quiet
<1>23. ASSUME NEW p \in 1..(n + 2), NEW c \in 1..n, c \in Succs(bs2[p])
       PROVE  \/ p \in 1..n /\ p # b /\ c \in Succs(bs[p])
              \/ p = n + 2 /\ c \in Succs(bs[b]) /\ c # b
  <2>1. p # b /\ p # n + 1
    BY <1>8, <1>15, <1>23
  <2>2. CASE p = n + 2
    BY <2>2, <1>8, <1>22, <1>23
  <2>3. CASE p \in 1..n
    BY <2>1, <2>3, <1>8, <1>23
  <2>4. QED
    BY <2>1, <2>2, <2>3, <1>13
<1>24. ASSUME NEW c \in 1..n, Len(bs2[c].vals) >= 1, NeedsHere(bs2[c].vals[1], src[reg2[c]], pos2[c][1])
       PROVE  c # 1 /\ \A p \in 1..(n + 2) : c \in Succs(bs2[p]) => LogsFor(bs2[p], c, bs2[c].vals[1])
  <2>1. Len(bs[c].vals) >= 1 /\ bs2[c].vals[1] = bs[c].vals[1] /\ pos2[c][1] = pos[c][1] /\ reg2[c] = reg[c]
    <3>1. CASE c = b
      <4>1. NeedsHere(lv[1], S, g[1])
        BY <3>1, <1>2, <1>8, <1>16, <1>17, <1>24
      <4>2. lv[1] = vals[1] /\ g[1] = f[1]
        BY <4>1, <1>7
      <4>3. m >= 1
        OBVIOUS
      <4>4. QED
        BY <3>1, <4>2, <4>3, <1>2, <1>8, <1>16, <1>17
    <3>2. CASE c # b
      BY <3>2, <1>8, <1>16, <1>17, <1>24
    <3>3. QED
      BY <3>1, <3>2
  <2>2. c # 1 /\ \A p \in 1..n : c \in Succs(bs[p]) => LogsFor(bs[p], c, bs[c].vals[1])
    BY <2>1, <1>1, <1>24 DEF FirstOK
  <2>3. ASSUME NEW p \in 1..(n + 2), c \in Succs(bs2[p]) PROVE LogsFor(bs2[p], c, bs2[c].vals[1])
    <3>1. CASE p \in 1..n /\ p # b /\ c \in Succs(bs[p])
      <4>1. LogsFor(bs[p], c, bs[c].vals[1])
        BY <3>1, <2>2
      <4>2. bs2[p].vals = bs[p].vals /\ bs2[p].succs = bs[p].succs /\ bs2[p].kind = bs[p].kind
        BY <3>1, <1>8
      <4>3. QED
        BY <4>1, <4>2, <2>1, LogsSame
    <3>2. CASE p = n + 2 /\ c \in Succs(bs[b]) /\ c # b
      <4>1. LogsFor(bs[b], c, bs[c].vals[1])
        BY <3>2, <2>2
      <4>2. Quiet(bs[b])
        BY <4>1, <1>22, LogsQuiet
      <4>3. QED
        BY <4>2, <1>22
    <3>3. QED
      BY <3>1, <3>2, <2>3, <1>23
  <2>4. QED
    BY <2>2, <2>3
<1>25. FirstOK(bs2, n + 1, src[reg2[n + 1]], pos2[n + 1])
  BY <1>2, <1>16, <1>17, <1>18 DEF FirstOK
<1>26. FirstOK(bs2, n + 2, src[reg2[n + 2]], pos2[n + 2])
  <2>1. n + 2 # 1
    OBVIOUS
  <2>2. ASSUME NEW p \in 1..(n + 2), n + 2 \in Succs(bs2[p]) PROVE LogsFor(bs2[p], n + 2, bs2[n + 2].vals[1])
    <3>1. CASE p = b
      <4>1. Len(bs2[b].vals) = i /\ bs2[b].vals[i].op = "inpmem" /\ bs2[b].vals[i].st = rv[1].st /\ i >= 1
        BY <1>3, <1>8, <1>10
      <4>2. QED
        BY <4>1, <3>1, <1>8, <1>15 DEF LogsFor
    <3>2. CASE p = n + 1
      <4>1. IsLogOf(bs2[n + 1].vals[1], rv[1])
        BY <1>8, <1>9, <1>10 DEF IsLogOf
      <4>2. QED
        BY <4>1, <3>2, <1>8 DEF LogsFor
    <3>3. CASE p = n + 2
      BY <3>3, <2>2, <1>8, <1>15, <1>21
    <3>4. CASE p \in 1..n /\ p # b
      BY <3>4, <2>2, <1>8, <1>15, <1>21
    <3>5. QED
      BY <3>1, <3>2, <3>3, <3>4, <1>13
  <2>3. QED
    BY <2>1, <2>2, <1>8 DEF FirstOK
<1>27. ASSUME NEW c \in 1..(n + 2) PROVE FirstOK(bs2, c, src[reg2[c]], pos2[c])
  <2>1. CASE c \in 1..n
    BY <2>1, <1>8, <1>24 DEF FirstOK
  <2>2. QED
    BY <2>1, <1>13, <1>25, <1>26
<1>28. ASSUME NEW x \in 1..(n + 2), NEW c \in Succs(bs2[x])
       PROVE  Edge(src, reg2[x], pos2[x][Len(bs2[x].vals)], reg2[c], pos2[c][0])
  <2>0. \A y \in 1..n : pos2[y][0] = pos[y][0]
    BY <1>2, <1>7, <1>17
  <2>1. CASE x = b
    <3>1. pos2[x][Len(bs2[x].vals)] = f[i - 1] /\ reg2[x] = r
      BY <2>1, <1>2, <1>7, <1>8, <1>16, <1>17
    <3>2. c \in {n + 1, n + 2}
      BY <2>1, <1>8, <1>28
    <3>3. pos2[c][0] = f[i - 1] /\ reg2[c] = r
      BY <3>2, <1>7, <1>16, <1>17, <1>18
    <3>4. QED
      BY <3>1, <3>3 DEF Edge
  <2>2. CASE x = n + 1
    <3>1. pos2[x][Len(bs2[x].vals)] = f[i - 1] /\ reg2[x] = r
      BY <2>2, <1>8, <1>16, <1>17, <1>18
    <3>2. c = n + 2
      BY <2>2, <1>8, <1>28
    <3>3. pos2[c][0] = f[i - 1] /\ reg2[c] = r
      BY <3>2, <1>7, <1>16, <1>17
    <3>4. QED
      BY <3>1, <3>3 DEF Edge
  <2>3. CASE x = n + 2
    <3>1. pos2[x][Len(bs2[x].vals)] = f[m] /\ reg2[x] = r
      BY <2>3, <1>7, <1>8, <1>16, <1>17
    <3>2. c \in Succs(bs[b]) /\ c \in 1..n
      BY <2>3, <1>8, <1>21, <1>28
    <3>3. Edge(src, r, f[m], reg[c], pos[c][0])
      BY <3>2, <1>1, <1>2
    <3>4. QED
      BY <3>1, <3>2, <3>3, <2>0, <1>16
  <2>4. CASE x \in 1..n /\ x # b
    <3>1. c \in Succs(bs[x]) /\ c \in 1..n
      BY <2>4, <1>8, <1>21, <1>28
    <3>2. Edge(src, reg[x], pos[x][Len(bs[x].vals)], reg[c], pos[c][0])
      BY <3>1, <2>4, <1>1
    <3>3. QED
      BY <3>1, <3>2, <2>0, <2>4, <1>8, <1>16, <1>17
  <2>5. QED
    BY <2>1, <2>2, <2>3, <2>4, <1>13
<1>29. ASSUME NEW c \in 1..(n + 2), bs2[c].kind = "ret" PROVE reg2[c] = 3 /\ pos2[c][Len(bs2[c].vals)] = Len(src[3])
  <2>1. CASE c = b
    BY <2>1, <1>8, <1>29
  <2>2. CASE c = n + 1
    BY <2>2, <1>8, <1>29
  <2>3. CASE c = n + 2
    <3>1. bs[b].kind = "ret"
      BY <2>3, <1>8, <1>29
    <3>2. r = 3 /\ f[m] = Len(src[3])
      BY <3>1, <1>1, <1>2
    <3>3. QED
      BY <3>2, <2>3, <1>7, <1>8, <1>16, <1>17
  <2>4. CASE c \in 1..n /\ c # b
    BY <2>4, <1>1, <1>8, <1>16, <1>17, <1>29
  <2>5. QED
    BY <2>1, <2>2, <2>3, <2>4, <1>13
<1>30. reg2[1] = 1 /\ pos2[1][0] = 0
  <2>1. 1 \in 1..n
    OBVIOUS
  <2>2. QED
    BY <2>1, <1>1, <1>2, <1>7, <1>16, <1>17
<1>31. PlaceOK(bs2, src, reg2, pos2)
  BY <1>8, <1>16, <1>19, <1>20, <1>27, <1>28, <1>29, <1>30 DEF PlaceOK
<1>32. QED
  BY <1>31

------------------------------------------------------------------------------
(* What the actions of the pass do to the blocks.                          *)

\* A block and its values.
LEMMA BlockType ==
  ASSUME NEW bs \in Seq(BlockRec), NEW b \in 1..Len(bs)
  PROVE  /\ bs[b] \in BlockRec /\ bs[b].vals \in Seq(CodeVal) /\ Len(bs[b].vals) \in Nat
         /\ bs[b].preds \in Seq(Nat) /\ bs[b].succs \in Seq(Nat) /\ bs[b].phi \in Seq(Nat)
         /\ bs[b].kind \in {"if", "plain", "ret", "inpmem"}
<1>1. bs[b] \in BlockRec
  <2> HIDE DEF BlockRec
  <2> QED
    OBVIOUS
<1> HIDE DEF CodeVal
<1>2. /\ bs[b].vals \in Seq(CodeVal) /\ bs[b].preds \in Seq(Nat) /\ bs[b].succs \in Seq(Nat) /\ bs[b].phi \in Seq(Nat)
      /\ bs[b].kind \in {"if", "plain", "ret", "inpmem"}
  BY <1>1 DEF BlockRec
<1>3. \A x : x \in Seq(CodeVal) => Len(x) \in Nat
  OBVIOUS
<1>4. QED
  BY <1>1, <1>2, <1>3

WithVals(bs, b, vals) == [bs EXCEPT ![b] = [bs[b] EXCEPT !.vals = vals]]

\* A block with other values.
LEMMA BlockVals ==
  ASSUME NEW bs \in Seq(BlockRec), NEW b \in 1..Len(bs), NEW vals2 \in Seq(CodeVal),
         NEW bs2, bs2 = WithVals(bs, b, vals2)
  PROVE  Revised(bs2, bs, b) /\ bs2[b].vals = vals2
<1>1. bs[b] \in BlockRec
  BY BlockType
<1>2. PICK B2 : B2 = [bs[b] EXCEPT !.vals = vals2]
  OBVIOUS
<1>3. /\ B2 \in BlockRec /\ B2.vals = vals2
      /\ B2.preds = bs[b].preds /\ B2.succs = bs[b].succs /\ B2.kind = bs[b].kind /\ B2.phi = bs[b].phi
  <2> HIDE DEF CodeVal
  <2> QED
    BY <1>1, <1>2 DEF BlockRec
<1>4. bs2 = [bs EXCEPT ![b] = B2]
  BY <1>2 DEF WithVals
<1> HIDE DEF BlockRec
<1>5. bs2 \in Seq(BlockRec) /\ Len(bs2) = Len(bs) /\ bs2[b] = B2 /\ \A c \in 1..Len(bs) : c # b => bs2[c] = bs[c]
  BY <1>3, <1>4
<1>6. QED
  BY <1>3, <1>5 DEF Revised

WithoutMark(bs, b, i) == [bs EXCEPT ![b].vals[i].mark = FALSE]

\* PassVmem.
LEMMA VmemBlocks ==
  ASSUME NEW bs \in Seq(BlockRec), NEW b \in 1..Len(bs), NEW m \in Nat, Len(bs[b].vals) = m, NEW i \in 1..m,
         bs[b].vals[i].op = "store", NEW bs2, bs2 = WithoutMark(bs, b, i)
  PROVE  Revised(bs2, bs, b) /\ Unmarked1(bs2[b].vals, bs[b].vals, i)
<1>1. bs[b].vals \in Seq(CodeVal)
  BY BlockType
<1>2. PICK vals : vals = bs[b].vals
  OBVIOUS
<1>3. PICK u : u = [vals[i] EXCEPT !.mark = FALSE]
  OBVIOUS
<1>4. vals[i] \in CodeVal /\ Len(vals) = m /\ vals \in Seq(CodeVal)
  <2> HIDE DEF CodeVal
  <2> QED
    BY <1>1, <1>2
<1>5. Unmarks(u, vals[i]) /\ u \in CodeVal
  <2>1. Unmarks(u, vals[i])
    BY <1>2, <1>3, <1>4, ResetMark
  <2>2. QED
    BY <2>1 DEF Unmarks
<1>6. PICK vals2 : vals2 = [vals EXCEPT ![i] = u]
  OBVIOUS
<1>7. vals2 \in Seq(CodeVal) /\ Len(vals2) = m /\ vals2[i] = u /\ \A j \in 1..m : j # i => vals2[j] = vals[j]
  <2> HIDE DEF CodeVal
  <2> QED
    BY <1>4, <1>5, <1>6
<1>8. bs2 = WithVals(bs, b, vals2)
  BY <1>2, <1>3, <1>6 DEF WithVals, WithoutMark
<1>9. Revised(bs2, bs, b) /\ bs2[b].vals = vals2
  <2>1. vals2 \in Seq(CodeVal)
    BY <1>7
  <2>2. QED
    BY <2>1, <1>8, BlockVals
<1>10. Unmarked1(vals2, vals, i)
  BY <1>4, <1>5, <1>7 DEF Unmarked1
<1>11. QED
  BY <1>2, <1>9, <1>10

\* Two rows around a value.
LEMMA Around ==
  ASSUME NEW S, NEW vals \in Seq(S), NEW m \in Nat, Len(vals) = m, NEW i \in 1..m, NEW u \in S, NEW x \in S
  PROVE  /\ Append(SubSeq(vals, 1, i - 1), x) \in Seq(S) /\ Len(Append(SubSeq(vals, 1, i - 1), x)) = i
         /\ \A j \in 1..(i - 1) : Append(SubSeq(vals, 1, i - 1), x)[j] = vals[j]
         /\ Append(SubSeq(vals, 1, i - 1), x)[i] = x
         /\ <<u>> \o SubSeq(vals, i + 1, m) \in Seq(S) /\ Len(<<u>> \o SubSeq(vals, i + 1, m)) = m - i + 1
         /\ (<<u>> \o SubSeq(vals, i + 1, m))[1] = u
         /\ \A j \in 2..(m - i + 1) : (<<u>> \o SubSeq(vals, i + 1, m))[j] = vals[i + j - 1]
<1>1. /\ SubSeq(vals, 1, i - 1) \in Seq(S) /\ Len(SubSeq(vals, 1, i - 1)) = i - 1
      /\ \A j \in 1..(i - 1) : SubSeq(vals, 1, i - 1)[j] = vals[j]
  OBVIOUS
<1>2. /\ SubSeq(vals, i + 1, m) \in Seq(S) /\ Len(SubSeq(vals, i + 1, m)) = m - i
      /\ \A j \in 1..(m - i) : SubSeq(vals, i + 1, m)[j] = vals[i + j]
  OBVIOUS
<1>3. PICK a, c : a = SubSeq(vals, 1, i - 1) /\ c = SubSeq(vals, i + 1, m)
  OBVIOUS
<1>4. /\ Append(a, x) \in Seq(S) /\ Len(Append(a, x)) = i
      /\ \A j \in 1..(i - 1) : Append(a, x)[j] = vals[j]
      /\ Append(a, x)[i] = x
  BY <1>1, <1>3
<1>5. /\ <<u>> \o c \in Seq(S) /\ Len(<<u>> \o c) = m - i + 1 /\ (<<u>> \o c)[1] = u
      /\ \A j \in 2..(m - i + 1) : (<<u>> \o c)[j] = vals[i + j - 1]
  <2>1. PICK d : d = Cat(<<u>>, c)
    OBVIOUS
  <2>2. <<u>> \in Seq(S) /\ c \in Seq(S) /\ Len(<<u>>) = 1 /\ <<u>>[1] = u /\ Len(c) = m - i
    BY <1>2, <1>3
  <2>3. d \in Seq(S) /\ IsCat(d, <<u>>, c)
    BY <2>1, <2>2, CatFacts
  <2>4. Len(d) = 1 + (m - i) /\ (\A j \in 1..1 : d[j] = <<u>>[j]) /\ (\A j \in 2..(1 + (m - i)) : d[j] = c[j - 1])
    BY <2>2, <2>3 DEF IsCat
  <2>5. d[1] = u
    BY <2>2, <2>4
  <2>6. ASSUME NEW j \in 2..(m - i + 1) PROVE d[j] = vals[i + j - 1]
    <3>1. j \in 2..(1 + (m - i)) /\ j - 1 \in 1..(m - i) /\ i + (j - 1) = i + j - 1
      OBVIOUS
    <3>2. QED
      BY <3>1, <2>4, <1>2, <1>3
  <2>7. d = <<u>> \o c
    BY <2>1 DEF Cat
  <2>8. QED
    BY <2>3, <2>4, <2>5, <2>6, <2>7
<1>6. QED
  BY <1>3, <1>4, <1>5

\* The values that the pass puts in.
LogOf(v)  == [op |-> "log", s |-> v.s, st |-> v.st]
TestOf(v) == [op |-> "inpmem", st |-> v.st]
Clear(v)  == [v EXCEPT !.mark = FALSE]

\* A log of a store, a test of its object and the store without its mark.
LEMMA NewValues ==
  ASSUME NEW v \in CodeVal, v.op = "store"
  PROVE  /\ LogOf(v) \in CodeVal /\ IsLogOf(LogOf(v), v)
         /\ TestOf(v) \in CodeVal /\ TestOf(v).op = "inpmem" /\ TestOf(v).st = v.st
         /\ Clear(v) \in CodeVal /\ Unmarks(Clear(v), v)
<1>1. v \in StoreVal
  BY DEF CodeVal, SrcVal, Call, LogVal, InpmemVal
<1>2. v.s \in StoreRec /\ v.st \in Assignment
  <2> HIDE DEF StoreRec, Assignment, Node
  <2> QED
    BY <1>1 DEF StoreVal
<1>3. LogOf(v) \in LogVal /\ IsLogOf(LogOf(v), v)
  BY <1>2 DEF LogVal, LogOf, IsLogOf
<1>4. TestOf(v) \in InpmemVal /\ TestOf(v).op = "inpmem" /\ TestOf(v).st = v.st
  BY <1>2 DEF InpmemVal, TestOf
<1>5. Unmarks(Clear(v), v)
  BY ResetMark DEF Clear
<1>6. Clear(v) \in CodeVal
  BY <1>5 DEF Unmarks
<1>7. QED
  BY <1>3, <1>4, <1>5, <1>6 DEF CodeVal

\* PassPmem and PassTest put these values together.
LEMMA PutIn ==
  ASSUME NEW vals \in Seq(CodeVal), NEW m \in Nat, Len(vals) = m, NEW i \in 1..m, vals[i].op = "store",
         NEW vals2, vals2 = SubSeq(vals, 1, i - 1) \o <<LogOf(vals[i])>> \o (<<Clear(vals[i])>> \o SubSeq(vals, i + 1, Len(vals))),
         NEW lv, lv = Append(SubSeq(vals, 1, i - 1), TestOf(vals[i])),
         NEW rv, rv = <<Clear(vals[i])>> \o SubSeq(vals, i + 1, Len(vals))
  PROVE  Inserted(vals2, vals, i) /\ SplitAt(lv, rv, vals, i)
<1>1. vals[i] \in CodeVal
  <2> HIDE DEF CodeVal
  <2> QED
    OBVIOUS
<1>2. PICK x, y, u : x = LogOf(vals[i]) /\ y = TestOf(vals[i]) /\ u = Clear(vals[i])
  OBVIOUS
<1>3. /\ x \in CodeVal /\ IsLogOf(x, vals[i]) /\ y \in CodeVal /\ y.op = "inpmem" /\ y.st = vals[i].st
      /\ u \in CodeVal /\ Unmarks(u, vals[i])
  BY <1>1, <1>2, NewValues
<1>4. /\ lv \in Seq(CodeVal) /\ Len(lv) = i /\ (\A j \in 1..(i - 1) : lv[j] = vals[j]) /\ lv[i] = y
      /\ rv \in Seq(CodeVal) /\ Len(rv) = m - i + 1 /\ rv[1] = u
      /\ \A j \in 2..(m - i + 1) : rv[j] = vals[i + j - 1]
  BY <1>2, <1>3, Around
<1>5. SplitAt(lv, rv, vals, i)
  BY <1>3, <1>4 DEF SplitAt
<1>6. PICK a : a = Append(SubSeq(vals, 1, i - 1), x)
  OBVIOUS
<1>7. a \in Seq(CodeVal) /\ Len(a) = i /\ (\A j \in 1..(i - 1) : a[j] = vals[j]) /\ a[i] = x
  BY <1>3, <1>6, Around
<1>8. SubSeq(vals, 1, i - 1) \o <<x>> = a
  <2>1. PICK c : c = SubSeq(vals, 1, i - 1)
    OBVIOUS
  <2>2. c \in Seq(CodeVal)
    <3> HIDE DEF CodeVal
    <3> QED
      BY <2>1
  <2>3. c \o <<x>> = Append(c, x)
    <3> HIDE DEF CodeVal
    <3> QED
      BY <2>2, <1>3
  <2>4. QED
    BY <2>1, <2>3, <1>6
<1>9. vals2 = Cat(a, rv)
  BY <1>2, <1>8 DEF Cat
<1>10. vals2 \in Seq(CodeVal) /\ IsCat(vals2, a, rv)
  <2>1. a \in Seq(CodeVal) /\ rv \in Seq(CodeVal)
    BY <1>4, <1>7
  <2>2. Cat(a, rv) \in Seq(CodeVal) /\ IsCat(Cat(a, rv), a, rv)
    BY <2>1, CatFacts
  <2>3. QED
    BY <2>2, <1>9
<1>11. /\ Len(vals2) = i + (m - i + 1) /\ (\A j \in 1..i : vals2[j] = a[j])
       /\ \A j \in (i + 1)..(i + (m - i + 1)) : vals2[j] = rv[j - i]
  BY <1>4, <1>7, <1>10 DEF IsCat
<1>12. Len(vals2) = m + 1
  BY <1>11
<1>13. vals2[i] = x
  <2>1. i \in 1..i
    OBVIOUS
  <2>2. QED
    BY <2>1, <1>7, <1>11
<1>14. vals2[i + 1] = u
  <2>1. i + 1 \in (i + 1)..(i + (m - i + 1)) /\ (i + 1) - i = 1
    OBVIOUS
  <2>2. QED
    BY <2>1, <1>4, <1>11
<1>15. ASSUME NEW j \in 1..m, j < i PROVE vals2[j] = vals[j]
  <2>1. j \in 1..i /\ j \in 1..(i - 1)
    BY <1>15
  <2>2. QED
    BY <2>1, <1>7, <1>11
<1>16. ASSUME NEW j \in 1..m, j > i PROVE vals2[j + 1] = vals[j]
  <2>0. PICK k, l : k = j + 1 /\ l = k - i
    OBVIOUS
  <2>1. k \in (i + 1)..(i + (m - i + 1)) /\ l \in 2..(m - i + 1) /\ i + l - 1 = j
    BY <2>0, <1>16
  <2>2. vals2[k] = rv[l]
    BY <2>0, <2>1, <1>11
  <2>3. rv[l] = vals[i + l - 1]
    BY <2>1, <1>4
  <2>4. QED
    BY <2>0, <2>1, <2>2, <2>3
<1>17. Inserted(vals2, vals, i)
  BY <1>3, <1>10, <1>12, <1>13, <1>14, <1>15, <1>16 DEF Inserted
<1>18. QED
  BY <1>5, <1>17

\* The block with the test.
TestBlock(B, lv, n) == [B EXCEPT !.vals = lv, !.succs = <<n + 1, n + 2>>, !.kind = "inpmem"]

IsTest(C, B, lv, n) ==
  /\ C \in BlockRec /\ C.vals = lv /\ C.kind = "inpmem" /\ C.preds = B.preds /\ C.phi = B.phi
  /\ Len(C.succs) = 2 /\ C.succs[1] = n + 1 /\ C.succs[2] = n + 2 /\ Succs(C) = {n + 1, n + 2}

\* It calls inpmem and goes on in bThen or bEnd.
LEMMA TestBlockIs ==
  ASSUME NEW B \in BlockRec, NEW lv \in Seq(CodeVal), NEW n \in Nat, NEW C, C = TestBlock(B, lv, n)
  PROVE  IsTest(C, B, lv, n)
<1>1. PICK t : t = <<n + 1, n + 2>>
  OBVIOUS
<1>2. t \in Seq(Nat) /\ Len(t) = 2 /\ t[1] = n + 1 /\ t[2] = n + 2 /\ DOMAIN t = {1, 2}
  <2>1. n + 1 \in Nat /\ n + 2 \in Nat
    OBVIOUS
  <2>2. t \in Seq(Nat) /\ Len(t) = 2 /\ t[1] = n + 1 /\ t[2] = n + 2
    BY <2>1, <1>1
  <2>3. DOMAIN t = 1..2
    BY <2>2
  <2>4. QED
    BY <2>2, <2>3
<1>3. C = [B EXCEPT !.vals = lv, !.succs = t, !.kind = "inpmem"]
  BY <1>1 DEF TestBlock
<1>4. "inpmem" \in {"if", "plain", "ret", "inpmem"}
  OBVIOUS
<1>5. /\ C \in BlockRec /\ C.vals = lv /\ C.kind = "inpmem" /\ C.preds = B.preds /\ C.phi = B.phi /\ C.succs = t
  <2> HIDE DEF CodeVal
  <2> QED
    BY <1>2, <1>3, <1>4 DEF BlockRec
<1>6. Range(t) = {n + 1, n + 2}
  BY <1>2 DEF Range
<1>7. QED
  BY <1>2, <1>5, <1>6 DEF Succs, IsTest

\* A successor of it.
Moved(ps, b, n) == [k \in DOMAIN ps |-> IF ps[k] = b THEN n + 2 ELSE ps[k]]
AfterTest(B, b, n) == [B EXCEPT !.preds = Moved(B.preds, b, n)]

\* It is entered from bEnd.
LEMMA AfterTestIs ==
  ASSUME NEW B \in BlockRec, NEW b, NEW n \in Nat, NEW C, C = AfterTest(B, b, n)
  PROVE  /\ C \in BlockRec /\ C.vals = B.vals /\ C.succs = B.succs /\ C.kind = B.kind /\ C.phi = B.phi
         /\ Preds(C) = {IF x = b THEN n + 2 ELSE x : x \in Preds(B)}
<1>1. PICK ps : ps = B.preds
  OBVIOUS
<1>2. ps \in Seq(Nat)
  <2> HIDE DEF CodeVal
  <2> QED
    BY <1>1 DEF BlockRec
<1>3. PICK qs : qs = Moved(ps, b, n)
  OBVIOUS
<1>4. DOMAIN qs = DOMAIN ps /\ \A k \in DOMAIN ps : qs[k] = IF ps[k] = b THEN n + 2 ELSE ps[k]
  BY <1>3 DEF Moved
<1>5. qs \in Seq(Nat)
  <2>1. PICK l \in Nat : DOMAIN ps = 1..l
    BY <1>2
  <2>2. n + 2 \in Nat /\ \A k \in 1..l : ps[k] \in Nat
    BY <2>1, <1>2
  <2>3. qs \in [1..l -> Nat]
    BY <2>1, <2>2, <1>3, <1>4 DEF Moved
  <2>4. QED
    BY <2>3
<1>6. Range(qs) = {IF x = b THEN n + 2 ELSE x : x \in Range(ps)}
  BY <1>4 DEF Range
<1>7. C = [B EXCEPT !.preds = qs]
  BY <1>1, <1>3 DEF AfterTest
<1>8. C \in BlockRec /\ C.vals = B.vals /\ C.succs = B.succs /\ C.kind = B.kind /\ C.phi = B.phi /\ C.preds = qs
  <2> HIDE DEF CodeVal
  <2> QED
    BY <1>5, <1>7 DEF BlockRec
<1>9. QED
  BY <1>1, <1>6, <1>8 DEF Preds

\* The blocks bThen and bEnd.
ThenBlock(lg, b, n) == Block(<<lg>>, <<b>>, <<n + 2>>, "plain")
EndBlock(B, rv, b, n) == [Block(rv, <<b, n + 1>>, B.succs, B.kind) EXCEPT !.phi = <<b, n + 1>>]

\* bThen logs and goes on in bEnd.
LEMMA ThenBlockIs ==
  ASSUME NEW lg \in CodeVal, NEW b \in Nat, NEW n \in Nat, NEW C, C = ThenBlock(lg, b, n)
  PROVE  /\ C \in BlockRec /\ Len(C.vals) = 1 /\ C.vals[1] = lg /\ C.kind = "plain" /\ C.phi = <<>>
         /\ Succs(C) = {n + 2} /\ Preds(C) = {b}
<1>1. PICK v, p, s, e : v = <<lg>> /\ p = <<b>> /\ s = <<n + 2>> /\ e = <<>>
  OBVIOUS
<1>2. /\ p \in Seq(Nat) /\ Len(p) = 1 /\ p[1] = b /\ DOMAIN p = {1}
      /\ s \in Seq(Nat) /\ Len(s) = 1 /\ s[1] = n + 2 /\ DOMAIN s = {1} /\ e \in Seq(Nat)
  <2>1. n + 2 \in Nat
    OBVIOUS
  <2>2. /\ p \in Seq(Nat) /\ Len(p) = 1 /\ p[1] = b 
        /\ s \in Seq(Nat) /\ Len(s) = 1 /\ s[1] = n + 2 /\ e \in Seq(Nat)
    BY <2>1, <1>1
  <2>3. DOMAIN p = 1..1 /\ DOMAIN s = 1..1
    BY <2>2
  <2>4. QED
    BY <2>2, <2>3
<1>3. v \in Seq(CodeVal) /\ Len(v) = 1 /\ v[1] = lg
  <2> HIDE DEF CodeVal
  <2> QED
    BY <1>1
<1>4. C = [vals |-> v, preds |-> p, succs |-> s, kind |-> "plain", phi |-> e]
  BY <1>1 DEF ThenBlock, Block
<1>5. C \in BlockRec /\ C.vals = v /\ C.preds = p /\ C.succs = s /\ C.kind = "plain" /\ C.phi = e
  <2> HIDE DEF CodeVal
  <2> QED
    BY <1>2, <1>3, <1>4 DEF BlockRec
<1>6. Range(p) = {b} /\ Range(s) = {n + 2}
  BY <1>2 DEF Range
<1>7. QED
  BY <1>1, <1>3, <1>5, <1>6 DEF Succs, Preds

IsEnd(C, B, rv, b, n) ==
  /\ C \in BlockRec /\ C.vals = rv /\ C.kind = B.kind /\ C.succs = B.succs
  /\ Preds(C) = {b, n + 1} /\ C.phi = C.preds

\* bEnd goes on as the block did.
LEMMA EndBlockIs ==
  ASSUME NEW B \in BlockRec, NEW rv \in Seq(CodeVal), NEW b \in Nat, NEW n \in Nat, NEW C, C = EndBlock(B, rv, b, n)
  PROVE  IsEnd(C, B, rv, b, n)
<1>1. PICK p : p = <<b, n + 1>>
  OBVIOUS
<1>2. p \in Seq(Nat) /\ Len(p) = 2 /\ p[1] = b /\ p[2] = n + 1 /\ DOMAIN p = {1, 2} /\ <<>> \in Seq(Nat)
  <2>1. n + 1 \in Nat
    OBVIOUS
  <2>2. p \in Seq(Nat) /\ Len(p) = 2 /\ p[1] = b /\ p[2] = n + 1 /\ <<>> \in Seq(Nat)
    BY <2>1, <1>1
  <2>3. DOMAIN p = 1..2
    BY <2>2
  <2>4. QED
    BY <2>2, <2>3
<1>3. B.succs \in Seq(Nat) /\ B.kind \in {"if", "plain", "ret", "inpmem"}
  <2> HIDE DEF CodeVal
  <2> QED
    BY DEF BlockRec
<1>4. PICK D : D = [vals |-> rv, preds |-> p, succs |-> B.succs, kind |-> B.kind, phi |-> <<>>]
  OBVIOUS
<1>5. D \in BlockRec /\ D.vals = rv /\ D.preds = p /\ D.succs = B.succs /\ D.kind = B.kind
  <2> HIDE DEF CodeVal
  <2> QED
    BY <1>2, <1>3, <1>4 DEF BlockRec
<1>6. C = [D EXCEPT !.phi = p]
  BY <1>1, <1>4 DEF EndBlock, Block
<1>7. C \in BlockRec /\ C.vals = rv /\ C.preds = p /\ C.succs = B.succs /\ C.kind = B.kind /\ C.phi = p
  <2> HIDE DEF CodeVal
  <2> QED
    BY <1>2, <1>5, <1>6 DEF BlockRec
<1>8. Range(p) = {b, n + 1}
  BY <1>2 DEF Range
<1>9. QED
  BY <1>7, <1>8 DEF Preds, IsEnd

\* PassTest.
TestBlocks(bs, b, lv, lg, rv, n) ==
  Cat([j \in DOMAIN bs |-> IF j = b THEN TestBlock(bs[b], lv, n)
                           ELSE IF j \in Range(bs[b].succs) THEN AfterTest(bs[j], b, n)
                           ELSE bs[j]],
      <<ThenBlock(lg, b, n), EndBlock(bs[b], rv, b, n)>>)

\* It splits the block.
LEMMA TestSplits ==
  ASSUME NEW bs \in Seq(BlockRec), NEW n \in Nat, Len(bs) = n, NEW b \in 1..n,
         NEW lv \in Seq(CodeVal), NEW rv \in Seq(CodeVal), NEW lg \in CodeVal, NEW bs2, bs2 = TestBlocks(bs, b, lv, lg, rv, n)
  PROVE  SplitBlocks(bs2, bs, b, n, lv, lg, rv)
<1>1. DOMAIN bs = 1..n /\ \A j \in 1..n : bs[j] \in BlockRec
  <2> HIDE DEF BlockRec
  <2> QED
    OBVIOUS
<1>2. b \in Nat /\ bs[b] \in BlockRec
  BY <1>1
<1>3. PICK X, Y, Z, B : X = TestBlock(B, lv, n) /\ Y = ThenBlock(lg, b, n) /\ Z = EndBlock(B, rv, b, n) /\ B = bs[b]
  OBVIOUS
<1>4. /\ X \in BlockRec /\ X.vals = lv /\ X.kind = "inpmem" /\ X.preds = bs[b].preds /\ X.phi = bs[b].phi
      /\ Len(X.succs) = 2 /\ X.succs[1] = n + 1 /\ X.succs[2] = n + 2 /\ Succs(X) = {n + 1, n + 2}
  <2>1. B \in BlockRec /\ X = TestBlock(B, lv, n)
    BY <1>2, <1>3
  <2>2. IsTest(X, B, lv, n)
    BY <2>1, TestBlockIs
  <2>3. QED
    BY <2>2, <1>3 DEF IsTest
<1>5. /\ Y \in BlockRec /\ Len(Y.vals) = 1 /\ Y.vals[1] = lg /\ Y.kind = "plain" /\ Y.phi = <<>>
      /\ Succs(Y) = {n + 2} /\ Preds(Y) = {b}
  BY <1>2, <1>3, ThenBlockIs
<1>6. /\ Z \in BlockRec /\ Z.vals = rv /\ Z.kind = bs[b].kind /\ Z.succs = bs[b].succs
      /\ Preds(Z) = {b, n + 1} /\ Z.phi = Z.preds
  <2>1. B \in BlockRec /\ Z = EndBlock(B, rv, b, n) /\ b \in Nat
    BY <1>2, <1>3
  <2>2. IsEnd(Z, B, rv, b, n)
    BY <2>1, EndBlockIs
  <2>3. QED
    BY <2>2, <1>3 DEF IsEnd
<1> DEFINE E(j) == IF j = b THEN X ELSE IF j \in Succs(bs[b]) THEN AfterTest(bs[j], b, n) ELSE bs[j]
<1>7. ASSUME NEW j \in 1..n, j # b, j \in Succs(bs[b])
      PROVE  /\ E(j) \in BlockRec /\ E(j).vals = bs[j].vals /\ E(j).succs = bs[j].succs /\ E(j).kind = bs[j].kind
             /\ E(j).phi = bs[j].phi /\ Preds(E(j)) = {IF x = b THEN n + 2 ELSE x : x \in Preds(bs[j])}
  <2>1. PICK C : C = AfterTest(bs[j], b, n)
    OBVIOUS
  <2>2. /\ C \in BlockRec /\ C.vals = bs[j].vals /\ C.succs = bs[j].succs /\ C.kind = bs[j].kind /\ C.phi = bs[j].phi
        /\ Preds(C) = {IF x = b THEN n + 2 ELSE x : x \in Preds(bs[j])}
    BY <2>1, <1>1, AfterTestIs
  <2>3. E(j) = C
    BY <2>1, <1>7
  <2>4. QED
    BY <2>2, <2>3
<1>8. \A j \in 1..n : j # b /\ j \notin Succs(bs[b]) => E(j) = bs[j]
  OBVIOUS
<1>9. E(b) = X
  OBVIOUS
<1>10. PICK first : first = [j \in 1..n |-> E(j)]
  OBVIOUS
<1>11. PICK last : last = <<Y, Z>>
  OBVIOUS
<1>12. bs2 = Cat(first, last)
  BY <1>1, <1>3, <1>10, <1>11 DEF TestBlocks, Succs
<1> HIDE DEF E
<1>13. \A j \in 1..n : E(j) \in BlockRec
  BY <1>1, <1>4, <1>7, <1>8, <1>9
<1>14. first \in Seq(BlockRec) /\ Len(first) = n /\ \A j \in 1..n : first[j] = E(j)
  <2> HIDE DEF BlockRec
  <2>1. first \in [1..n -> BlockRec]
    BY <1>10, <1>13
  <2>2. QED
    BY <2>1, <1>10
<1>15. last \in Seq(BlockRec) /\ Len(last) = 2 /\ last[1] = Y /\ last[2] = Z
  <2> HIDE DEF BlockRec
  <2> QED
    BY <1>5, <1>6, <1>11
<1>16. bs2 \in Seq(BlockRec) /\ IsCat(bs2, first, last)
  BY <1>12, <1>14, <1>15, CatFacts
<1>17. /\ Len(bs2) = n + 2 /\ (\A j \in 1..n : bs2[j] = E(j))
       /\ \A j \in 1..2 : bs2[n + j] = last[j]
  BY <1>14, <1>15, <1>16 DEF IsCat
<1>18. bs2[n + 1] = Y /\ bs2[n + 2] = Z /\ bs2[b] = X
  BY <1>9, <1>15, <1>17
<1>19. ASSUME NEW c \in 1..n, c # b
       PROVE  /\ bs2[c].vals = bs[c].vals /\ bs2[c].succs = bs[c].succs /\ bs2[c].kind = bs[c].kind /\ bs2[c].phi = bs[c].phi
              /\ c \notin Succs(bs[b]) => bs2[c].preds = bs[c].preds
              /\ c \in Succs(bs[b]) => Preds(bs2[c]) = {IF x = b THEN n + 2 ELSE x : x \in Preds(bs[c])}
  <2>1. bs2[c] = E(c)
    BY <1>17
  <2>2. CASE c \in Succs(bs[b])
    BY <2>1, <2>2, <1>7, <1>19
  <2>3. CASE c \notin Succs(bs[b])
    BY <2>1, <2>3, <1>8, <1>19
  <2>4. QED
    BY <2>2, <2>3
<1>20. QED
  BY <1>4, <1>5, <1>6, <1>16, <1>17, <1>18, <1>19 DEF SplitBlocks

------------------------------------------------------------------------------
(* The pass keeps what BlocksOK says.                                      *)

\* The marks that are left.
Marks(bs) == {x \in (1..Len(bs)) \X Nat : x[2] \in 1..Len(bs[x[1]].vals) /\ Marked(bs[x[1]].vals[x[2]])}

\* Every one of S2 but x has one of its own in S.
Fewer(S2, S, x, f) ==
  /\ f \in [S2 -> S] /\ \A y \in S2 : f[y] # x
  /\ \A y, z \in S2 : f[y] = f[z] => y = z

\* Then there are fewer of them.
LEMMA FewerMarks ==
  ASSUME NEW S, IsFiniteSet(S), NEW S2, NEW x \in S, NEW f, Fewer(S2, S, x, f)
  PROVE  IsFiniteSet(S2) /\ Cardinality(S2) \in Nat /\ Cardinality(S) \in Nat /\ Cardinality(S2) <= Cardinality(S) - 1
<1>1. IsFiniteSet(S \ {x}) /\ Cardinality(S \ {x}) = Cardinality(S) - 1
  BY FS_RemoveElement
<1>2. f \in [S2 -> S \ {x}] /\ \A y, z \in S2 : f[y] = f[z] => y = z
  BY DEF Fewer
<1>3. f \in Injection(S2, S \ {x})
  BY <1>2 DEF Injection, IsInjective
<1>4. IsFiniteSet(S2) /\ Cardinality(S2) <= Cardinality(S \ {x})
  BY <1>1, <1>3, FS_Injection
<1>5. Cardinality(S2) \in Nat /\ Cardinality(S) \in Nat
  BY <1>4, FS_CardinalityType
<1>6. QED
  BY <1>1, <1>4, <1>5

\* A mark, as a pair.
LEMMA MarkPair ==
  ASSUME NEW bs, NEW n \in Nat, Len(bs) = n, NEW c, NEW j
  PROVE  <<c, j>> \in Marks(bs) <=> c \in 1..n /\ j \in Nat /\ j \in 1..Len(bs[c].vals) /\ Marked(bs[c].vals[j])
BY DEF Marks

\* Every mark is a pair.
LEMMA MarkIsPair ==
  ASSUME NEW bs, NEW n \in Nat, Len(bs) = n, NEW x \in Marks(bs)
  PROVE  /\ x = <<x[1], x[2]>> /\ x[1] \in 1..n /\ x[2] \in Nat
         /\ x[2] \in 1..Len(bs[x[1]].vals) /\ Marked(bs[x[1]].vals[x[2]])
BY DEF Marks

\* PassVmem takes a mark away.
LEMMA VmemFewer ==
  ASSUME NEW bs, NEW bs2, NEW n \in Nat, Len(bs) = n, NEW b \in 1..n, NEW m \in Nat, Len(bs[b].vals) = m, NEW i \in 1..m,
         Revised(bs2, bs, b), Unmarked1(bs2[b].vals, bs[b].vals, i)
  PROVE  Fewer(Marks(bs2), Marks(bs), <<b, i>>, [x \in Marks(bs2) |-> x])
<1>1. Len(bs2) = n /\ \A c \in 1..n : c # b => bs2[c] = bs[c]
  BY DEF Revised
<1>2. /\ Len(bs2[b].vals) = m /\ ~Marked(bs2[b].vals[i])
      /\ \A j \in 1..m : j # i => bs2[b].vals[j] = bs[b].vals[j]
  BY DEF Unmarked1, Unmarks, Marked
<1>3. ASSUME NEW x \in Marks(bs2) PROVE x \in Marks(bs) /\ x # <<b, i>>
  <2>1. PICK c, j : x = <<c, j>> /\ c \in 1..n /\ j \in Nat /\ j \in 1..Len(bs2[c].vals) /\ Marked(bs2[c].vals[j])
    BY <1>1, MarkIsPair
  <2>2. CASE c # b
    <3>1. bs2[c] = bs[c]
      BY <2>1, <2>2, <1>1
    <3>2. <<c, j>> \in Marks(bs)
      BY <3>1, <2>1, MarkPair
    <3>3. QED
      BY <3>2, <2>1, <2>2
  <2>3. CASE c = b
    <3>1. j # i /\ j \in 1..m
      BY <2>1, <2>3, <1>2
    <3>2. Len(bs[c].vals) = m /\ Marked(bs[c].vals[j])
      BY <3>1, <2>1, <2>3, <1>2
    <3>3. <<c, j>> \in Marks(bs)
      BY <3>1, <3>2, <2>1, MarkPair
    <3>4. QED
      BY <3>1, <3>3, <2>1
  <2>4. QED
    BY <2>2, <2>3
<1>4. QED
  BY <1>3 DEF Fewer

\* PassPmem takes a mark away and moves those behind it.
LEMMA PmemFewer ==
  ASSUME NEW bs, NEW bs2, NEW n \in Nat, Len(bs) = n, NEW b \in 1..n, NEW m \in Nat, Len(bs[b].vals) = m, NEW i \in 1..m,
         Revised(bs2, bs, b), Inserted(bs2[b].vals, bs[b].vals, i)
  PROVE  \E f : Fewer(Marks(bs2), Marks(bs), <<b, i>>, f)
<1>1. Len(bs2) = n /\ \A c \in 1..n : c # b => bs2[c] = bs[c]
  BY DEF Revised
<1>2. /\ Len(bs2[b].vals) = m + 1 /\ ~Marked(bs2[b].vals[i]) /\ ~Marked(bs2[b].vals[i + 1])
      /\ \A j \in 1..m : j < i => bs2[b].vals[j] = bs[b].vals[j]
      /\ \A j \in 1..m : j > i => bs2[b].vals[j + 1] = bs[b].vals[j]
  BY DEF Inserted, Unmarks, Marked, IsLogOf
<1> DEFINE e(x) == IF x[1] = b /\ x[2] > i THEN <<b, x[2] - 1>> ELSE x
           f == [x \in Marks(bs2) |-> e(x)]
<1>3. ASSUME NEW x \in Marks(bs2)
      PROVE  /\ e(x) \in Marks(bs) /\ e(x) # <<b, i>>
             /\ x[1] = b /\ x[2] > i => x[2] >= i + 2 /\ x = <<b, x[2]>> /\ e(x) = <<b, x[2] - 1>> /\ x[2] \in Nat
             /\ ~(x[1] = b /\ x[2] > i) => e(x) = x /\ x = <<x[1], x[2]>> /\ (x[1] = b => x[2] < i /\ x[2] \in Nat)
  <2>1. PICK c, j : c = x[1] /\ j = x[2]
    OBVIOUS
  <2>2. x = <<c, j>> /\ c \in 1..n /\ j \in Nat /\ j \in 1..Len(bs2[c].vals) /\ Marked(bs2[c].vals[j])
    BY <2>1, <1>1, MarkIsPair
  <2>3. CASE c # b
    <3>1. bs2[c] = bs[c]
      BY <2>2, <2>3, <1>1
    <3>2. <<c, j>> \in Marks(bs)
      BY <3>1, <2>2, MarkPair
    <3>3. e(x) = x
      BY <2>1, <2>3
    <3>4. QED
      BY <3>2, <3>3, <2>1, <2>2, <2>3
  <2>4. CASE c = b /\ j < i
    <3>1. j \in 1..m /\ ~(j > i)
      BY <2>2, <2>4
    <3>2. Len(bs[c].vals) = m /\ Marked(bs[c].vals[j])
      BY <3>1, <2>2, <2>4, <1>2
    <3>3. <<c, j>> \in Marks(bs)
      BY <3>1, <3>2, <2>2, MarkPair
    <3>4. e(x) = x
      BY <3>1, <2>1
    <3>5. QED
      BY <3>1, <3>3, <3>4, <2>1, <2>2, <2>4
  <2>5. CASE c = b /\ ~(j < i)
    <3>1. j # i /\ j # i + 1 /\ j \in 1..(m + 1)
      BY <2>2, <2>5, <1>2
    <3>2. PICK k : k = j - 1
      OBVIOUS
    <3>3. k \in 1..m /\ k > i /\ j = k + 1 /\ k \in Nat /\ j > i /\ j >= i + 2
      BY <3>1, <3>2, <2>5
    <3>4. Marked(bs[b].vals[k]) /\ Len(bs[b].vals) = m
      BY <3>3, <2>2, <2>5, <1>2
    <3>5. <<b, k>> \in Marks(bs)
      BY <3>3, <3>4, MarkPair
    <3>6. e(x) = <<b, k>>
      BY <3>2, <3>3, <2>1, <2>5
    <3>7. QED
      BY <3>2, <3>3, <3>5, <3>6, <2>1, <2>2, <2>5
  <2>6. QED
    BY <2>3, <2>4, <2>5
<1> HIDE DEF e
<1>4. ASSUME NEW y \in Marks(bs2), NEW z \in Marks(bs2), e(y) = e(z) PROVE y = z
  <2>1. CASE (y[1] = b /\ y[2] > i) /\ (z[1] = b /\ z[2] > i)
    <3>1. <<b, y[2] - 1>> = <<b, z[2] - 1>>
      BY <2>1, <1>3, <1>4
    <3>2. y[2] - 1 = z[2] - 1 /\ y[2] \in Nat /\ z[2] \in Nat
      BY <3>1, <2>1, <1>3
    <3>3. y[2] = z[2]
      BY <3>2
    <3>4. QED
      BY <3>3, <2>1, <1>3
  <2>2. CASE ~(y[1] = b /\ y[2] > i) /\ ~(z[1] = b /\ z[2] > i)
    BY <2>2, <1>3, <1>4
  <2>3. CASE (y[1] = b /\ y[2] > i) /\ ~(z[1] = b /\ z[2] > i)
    <3>1. <<b, y[2] - 1>> = <<z[1], z[2]>> /\ y[2] >= i + 2 /\ y[2] \in Nat /\ (z[1] = b => z[2] < i)
      BY <2>3, <1>3, <1>4
    <3>2. z[1] = b /\ z[2] = y[2] - 1
      BY <3>1
    <3>3. QED
      BY <3>1, <3>2
  <2>4. CASE ~(y[1] = b /\ y[2] > i) /\ (z[1] = b /\ z[2] > i)
    <3>1. <<b, z[2] - 1>> = <<y[1], y[2]>> /\ z[2] >= i + 2 /\ z[2] \in Nat /\ (y[1] = b => y[2] < i)
      BY <2>4, <1>3, <1>4
    <3>2. y[1] = b /\ y[2] = z[2] - 1
      BY <3>1
    <3>3. QED
      BY <3>1, <3>2
  <2>5. QED
    BY <2>1, <2>2, <2>3, <2>4
<1>5. f \in [Marks(bs2) -> Marks(bs)] /\ \A y \in Marks(bs2) : f[y] = e(y)
  BY <1>3
<1> HIDE DEF f
<1>6. Fewer(Marks(bs2), Marks(bs), <<b, i>>, f)
  BY <1>3, <1>4, <1>5 DEF Fewer
<1>7. QED
  BY <1>6

\* PassTest takes a mark away and moves those behind it to bEnd.
LEMMA SplitFewer ==
  ASSUME NEW bs, NEW bs2, NEW n \in Nat, Len(bs) = n, NEW b \in 1..n, NEW m \in Nat, Len(bs[b].vals) = m, NEW i \in 1..m,
         NEW lv, NEW lg, NEW rv, SplitBlocks(bs2, bs, b, n, lv, lg, rv), SplitAt(lv, rv, bs[b].vals, i), lg.op = "log",
         \A j \in 1..(i - 1) : ~Marked(bs[b].vals[j])
  PROVE  \E f : Fewer(Marks(bs2), Marks(bs), <<b, i>>, f)
<1>0. /\ \A c \in 1..n : c # b => bs2[c].vals = bs[c].vals
      /\ Len(bs2) = n + 2 /\ bs2[b].vals = lv /\ bs2[n + 2].vals = rv
      /\ Len(bs2[n + 1].vals) = 1 /\ bs2[n + 1].vals[1].op = "log"
  BY DEF SplitBlocks
<1>1. /\ Len(lv) = i /\ (\A j \in 1..(i - 1) : lv[j] = bs[b].vals[j]) /\ lv[i].op = "inpmem"
      /\ Len(rv) = m - i + 1 /\ ~Marked(rv[1]) /\ \A j \in 2..(m - i + 1) : rv[j] = bs[b].vals[i + j - 1]
  BY DEF SplitAt, Unmarks, Marked
<1>2. \A j \in 1..i : ~Marked(lv[j])
  <2>1. ASSUME NEW j \in 1..i PROVE ~Marked(lv[j])
    <3>1. CASE j = i
      BY <3>1, <1>1 DEF Marked
    <3>2. CASE j # i
      <4>1. j \in 1..(i - 1)
        BY <3>2
      <4>2. QED
        BY <4>1, <1>1
    <3>3. QED
      BY <3>1, <3>2
  <2>2. QED
    BY <2>1
<1> DEFINE e(x) == IF x[1] = n + 2 THEN <<b, i + x[2] - 1>> ELSE x
           f == [x \in Marks(bs2) |-> e(x)]
<1>3. ASSUME NEW x \in Marks(bs2)
      PROVE  /\ e(x) \in Marks(bs) /\ e(x) # <<b, i>>
             /\ x[1] = n + 2 => x = <<n + 2, x[2]>> /\ e(x) = <<b, i + x[2] - 1>> /\ x[2] \in Nat
             /\ x[1] # n + 2 => e(x) = x /\ x = <<x[1], x[2]>> /\ x[1] # b
  <2>1. PICK c, j : c = x[1] /\ j = x[2]
    OBVIOUS
  <2>2. x = <<c, j>> /\ c \in 1..(n + 2) /\ j \in Nat /\ j \in 1..Len(bs2[c].vals) /\ Marked(bs2[c].vals[j])
    <3>1. n + 2 \in Nat
      OBVIOUS
    <3>2. QED
      BY <3>1, <2>1, <1>0, MarkIsPair
  <2>3. c # b
    BY <2>2, <1>0, <1>1, <1>2
  <2>4. c # n + 1
    <3>1. SUFFICES ASSUME c = n + 1 PROVE FALSE
      OBVIOUS
    <3>2. j = 1 /\ Marked(bs2[n + 1].vals[j])
      BY <3>1, <2>2, <1>0
    <3>3. QED
      BY <3>2, <1>0 DEF Marked
  <2>5. CASE c = n + 2
    <3>1. j \in 1..(m - i + 1) /\ Marked(rv[j])
      BY <2>2, <2>5, <1>0, <1>1
    <3>2. PICK k : k = i + j - 1
      OBVIOUS
    <3>3. j # 1
      BY <3>1, <1>1
    <3>4. j \in 2..(m - i + 1) /\ k \in 1..m /\ k \in Nat /\ k # i
      BY <3>1, <3>2, <3>3
    <3>5. Marked(bs[b].vals[k])
      BY <3>1, <3>2, <3>4, <1>1
    <3>6. <<b, k>> \in Marks(bs)
      BY <3>4, <3>5, MarkPair
    <3>7. e(x) = <<b, k>>
      BY <3>2, <2>1, <2>5
    <3>8. QED
      BY <3>2, <3>4, <3>6, <3>7, <2>1, <2>2, <2>5
  <2>6. CASE c # n + 2
    <3>1. c \in 1..n
      <4>1. \A z \in 1..(n + 2) : z \in 1..n \/ z = n + 1 \/ z = n + 2
        BY TwoMore
      <4>2. QED
        BY <4>1, <2>2, <2>4, <2>6
    <3>2. bs2[c].vals = bs[c].vals
      BY <3>1, <2>3, <1>0
    <3>3. <<c, j>> \in Marks(bs)
      BY <3>1, <3>2, <2>2, MarkPair
    <3>4. e(x) = x
      BY <2>1, <2>6
    <3>5. QED
      BY <3>3, <3>4, <2>1, <2>2, <2>3, <2>6
  <2>7. QED
    BY <2>5, <2>6
<1> HIDE DEF e
<1>4. ASSUME NEW y \in Marks(bs2), NEW z \in Marks(bs2), e(y) = e(z) PROVE y = z
  <2>1. CASE y[1] = n + 2 /\ z[1] = n + 2
    <3>1. <<b, i + y[2] - 1>> = <<b, i + z[2] - 1>>
      BY <2>1, <1>3, <1>4
    <3>2. i + y[2] - 1 = i + z[2] - 1 /\ y[2] \in Nat /\ z[2] \in Nat
      BY <3>1, <2>1, <1>3
    <3>3. y[2] = z[2]
      BY <3>2
    <3>4. QED
      BY <3>3, <2>1, <1>3
  <2>2. CASE y[1] # n + 2 /\ z[1] # n + 2
    BY <2>2, <1>3, <1>4
  <2>3. CASE y[1] = n + 2 /\ z[1] # n + 2
    <3>1. <<b, i + y[2] - 1>> = <<z[1], z[2]>> /\ z[1] # b
      BY <2>3, <1>3, <1>4
    <3>2. QED
      BY <3>1
  <2>4. CASE y[1] # n + 2 /\ z[1] = n + 2
    <3>1. <<b, i + z[2] - 1>> = <<y[1], y[2]>> /\ y[1] # b
      BY <2>4, <1>3, <1>4
    <3>2. QED
      BY <3>1
  <2>5. QED
    BY <2>1, <2>2, <2>3, <2>4
<1>5. f \in [Marks(bs2) -> Marks(bs)] /\ \A y \in Marks(bs2) : f[y] = e(y)
  BY <1>3
<1> HIDE DEF f
<1>6. Fewer(Marks(bs2), Marks(bs), <<b, i>>, f)
  BY <1>3, <1>4, <1>5 DEF Fewer
<1>7. QED
  BY <1>6

\* The bound of the number of blocks: two for every mark that is left.
Bounded(bs, k) == IsFiniteSet(Marks(bs)) /\ Len(bs) + 2 * Cardinality(Marks(bs)) <= k

\* It is kept when a mark goes and at most two blocks come.
LEMMA BoundedStep ==
  ASSUME NEW bs, NEW bs2, NEW k \in Nat, Bounded(bs, k), NEW n \in Nat, Len(bs) = n, NEW l \in Nat, Len(bs2) = l, l <= n + 2,
         NEW x \in Marks(bs), \E f : Fewer(Marks(bs2), Marks(bs), x, f)
  PROVE  Bounded(bs2, k)
<1>1. PICK f : Fewer(Marks(bs2), Marks(bs), x, f)
  OBVIOUS
<1>2. IsFiniteSet(Marks(bs)) /\ n + 2 * Cardinality(Marks(bs)) <= k
  BY DEF Bounded
<1>3. /\ IsFiniteSet(Marks(bs2)) /\ Cardinality(Marks(bs2)) \in Nat /\ Cardinality(Marks(bs)) \in Nat
      /\ Cardinality(Marks(bs2)) <= Cardinality(Marks(bs)) - 1
  BY <1>1, <1>2, FewerMarks
<1>4. PICK c, d : c = Cardinality(Marks(bs2)) /\ d = Cardinality(Marks(bs))
  OBVIOUS
<1>5. c \in Nat /\ d \in Nat /\ c <= d - 1 /\ n + 2 * d <= k
  BY <1>2, <1>3, <1>4
<1>6. l + 2 * c <= k
  BY <1>5
<1>7. QED
  BY <1>3, <1>4, <1>6 DEF Bounded

\* The pass is at value i of block b, that has a mark; none before it has.
AtMark(bs, n, b, m, i) ==
  /\ n \in Nat /\ Len(bs) = n /\ b \in 1..n /\ m \in Nat /\ Len(bs[b].vals) = m /\ i \in 1..m
  /\ Marked(bs[b].vals[i]) /\ \A j \in 1..(i - 1) : ~Marked(bs[b].vals[j])

\* The mark is one of those that are left.
LEMMA AtMarkFacts ==
  ASSUME NEW bs \in Seq(BlockRec), NEW n, NEW b, NEW m, NEW i, AtMark(bs, n, b, m, i)
  PROVE  /\ bs[b].vals \in Seq(CodeVal) /\ bs[b].vals[i].op = "store" /\ bs[b].vals[i] \in CodeVal
         /\ <<b, i>> \in Marks(bs) /\ ~Quiet(bs[b])
<1>1. n \in Nat /\ Len(bs) = n /\ b \in 1..n /\ m \in Nat /\ Len(bs[b].vals) = m /\ i \in 1..m /\ Marked(bs[b].vals[i])
  BY DEF AtMark
<1>2. bs[b].vals \in Seq(CodeVal)
  BY <1>1, BlockType
<1>3. bs[b].vals[i] \in CodeVal
  <2> HIDE DEF CodeVal
  <2> QED
    BY <1>1, <1>2
<1>4. i \in Nat
  BY <1>1
<1>5. <<b, i>> \in Marks(bs)
  BY <1>1, <1>4, MarkPair
<1>6. QED
  BY <1>1, <1>2, <1>3, <1>5 DEF Marked, Quiet

\* PassVmem.
LEMMA VmemOK ==
  ASSUME NEW bs, NEW src, BlocksOK(bs, src), NEW n, NEW b, NEW m, NEW i, AtMark(bs, n, b, m, i),
         WillAccessVmem(bs[b].vals[i].addr), NEW bs2, bs2 = WithoutMark(bs, b, i), NEW k \in Nat, Bounded(bs, k)
  PROVE  BlocksOK(bs2, src) /\ Bounded(bs2, k) /\ Revised(bs2, bs, b) /\ Unmarked1(bs2[b].vals, bs[b].vals, i)
<1>1. bs \in Seq(BlockRec) /\ Len(bs) >= 3 /\ GraphOK(bs) /\ TestsOK(bs)
  BY DEF BlocksOK
<1>2. PICK reg, pos : PlaceOK(bs, src, reg, pos)
  BY DEF BlocksOK
<1>3. n \in Nat /\ Len(bs) = n /\ b \in 1..n /\ m \in Nat /\ Len(bs[b].vals) = m /\ i \in 1..m /\ Marked(bs[b].vals[i])
  BY DEF AtMark
<1>4. bs[b].vals[i].op = "store" /\ <<b, i>> \in Marks(bs) /\ ~Quiet(bs[b])
  BY <1>1, AtMarkFacts
<1>5. Revised(bs2, bs, b) /\ Unmarked1(bs2[b].vals, bs[b].vals, i)
  BY <1>1, <1>3, <1>4, VmemBlocks
<1>6. PICK vals, vals2, f, S : vals = bs[b].vals /\ vals2 = bs2[b].vals /\ f = pos[b] /\ S = src[reg[b]]
  OBVIOUS
<1>7. f \in [Nat -> Nat] /\ ValsOK(vals, S, f)
  BY <1>2, <1>3, <1>6 DEF PlaceOK
<1>8. ValsOK(vals2, S, f) /\ ~NeedsHere(vals2[i], S, f[i])
  <2>1. Len(vals) = m /\ Unmarked1(vals2, vals, i) /\ Marked(vals[i]) /\ WillAccessVmem(vals[i].addr)
    BY <1>3, <1>5, <1>6
  <2>2. QED
    BY <2>1, <1>3, <1>7, ValsUnmark
<1>9. /\ Len(vals2) = m /\ Unmarks(vals2[i], vals[i])
      /\ \A j \in 1..m : j # i => vals2[j] = vals[j]
  BY <1>3, <1>5, <1>6 DEF Unmarked1
<1>10. Len(vals2) >= 1 /\ NeedsHere(vals2[1], S, f[1]) => Len(vals) >= 1 /\ vals2[1] = vals[1] /\ f[1] = f[1]
  <2>1. 1 \in 1..m /\ m >= 1
    BY <1>3
  <2>2. QED
    BY <2>1, <1>3, <1>6, <1>8, <1>9
<1>11. ASSUME NEW j \in 1..Len(vals2), vals2[j].op = "inpmem" PROVE \E l \in 1..Len(vals) : vals[l].op = "inpmem"
  <2>1. j # i
    BY <1>9, <1>11 DEF Unmarks
  <2>2. QED
    BY <2>1, <1>3, <1>6, <1>9, <1>11
<1>12. BlocksOK(bs2, src)
  <2>1. Fits(vals2, vals, S, f, f)
    BY <1>3, <1>6, <1>7, <1>8, <1>9, <1>10, <1>11 DEF Fits
  <2>2. Fits(bs2[b].vals, bs[b].vals, src[reg[b]], pos[b], f) /\ b \in 1..Len(bs)
    BY <2>1, <1>3, <1>6
  <2>3. QED
    BY <2>2, <1>1, <1>2, <1>4, <1>5, ReviseOK
<1>13. Bounded(bs2, k)
  <2>1. \E g : Fewer(Marks(bs2), Marks(bs), <<b, i>>, g)
    BY <1>3, <1>5, VmemFewer
  <2>2. Len(bs2) = n /\ n <= n + 2
    BY <1>3, <1>5 DEF Revised
  <2>3. QED
    BY <2>1, <2>2, <1>3, <1>4, BoundedStep
<1>14. QED
  BY <1>5, <1>12, <1>13

\* PassPmem.
LEMMA PmemOK ==
  ASSUME NEW bs, NEW src, BlocksOK(bs, src), NEW n, NEW b, NEW m, NEW i, AtMark(bs, n, b, m, i),
         NEW vals2, Inserted(vals2, bs[b].vals, i), NEW bs2, bs2 = WithVals(bs, b, vals2), NEW k \in Nat, Bounded(bs, k)
  PROVE  BlocksOK(bs2, src) /\ Bounded(bs2, k) /\ Revised(bs2, bs, b)
<1>1. bs \in Seq(BlockRec) /\ Len(bs) >= 3 /\ GraphOK(bs) /\ TestsOK(bs)
  BY DEF BlocksOK
<1>2. PICK reg, pos : PlaceOK(bs, src, reg, pos)
  BY DEF BlocksOK
<1>3. n \in Nat /\ Len(bs) = n /\ b \in 1..n /\ m \in Nat /\ Len(bs[b].vals) = m /\ i \in 1..m /\ Marked(bs[b].vals[i])
  BY DEF AtMark
<1>4. bs[b].vals[i].op = "store" /\ <<b, i>> \in Marks(bs) /\ ~Quiet(bs[b])
  BY <1>1, AtMarkFacts
<1>5. Revised(bs2, bs, b) /\ bs2[b].vals = vals2
  <2>1. vals2 \in Seq(CodeVal)
    BY DEF Inserted
  <2>2. QED
    BY <2>1, <1>1, <1>3, BlockVals
<1>6. PICK vals, f, S : vals = bs[b].vals /\ f = pos[b] /\ S = src[reg[b]]
  OBVIOUS
<1>7. f \in [Nat -> Nat] /\ ValsOK(vals, S, f)
  BY <1>2, <1>3, <1>6 DEF PlaceOK
<1>8. i \in Nat /\ i >= 1
  BY <1>3
<1>9. PICK g : IsShift(g, f, i)
  BY <1>7, <1>8, ShiftExists
<1>10. /\ g \in [Nat -> Nat] /\ g[0] = f[0] /\ g[Len(vals2)] = f[Len(vals)]
       /\ ValsOK(vals2, S, g)
       /\ NeedsHere(vals2[1], S, g[1]) => i # 1 /\ vals2[1] = vals[1] /\ g[1] = f[1]
  <2>1. Len(vals) = m /\ Inserted(vals2, vals, i) /\ Marked(vals[i])
    BY <1>3, <1>6
  <2>2. InsertOK(vals2, vals, S, f, g, i)
    BY <2>1, <1>3, <1>7, <1>9, ValsInsert
  <2>3. QED
    BY <2>2 DEF InsertOK
<1>11. /\ Len(vals2) = m + 1 /\ IsLogOf(vals2[i], vals[i]) /\ Unmarks(vals2[i + 1], vals[i])
       /\ \A j \in 1..m : j < i => vals2[j] = vals[j]
       /\ \A j \in 1..m : j > i => vals2[j + 1] = vals[j]
  BY <1>3, <1>6 DEF Inserted
<1>12. ASSUME NEW j \in 1..Len(vals2), vals2[j].op = "inpmem" PROVE \E l \in 1..Len(vals) : vals[l].op = "inpmem"
  <2>1. j # i /\ j # i + 1 /\ j \in 1..(m + 1)
    BY <1>11, <1>12 DEF Unmarks, IsLogOf
  <2>2. CASE j < i
    <3>1. j \in 1..m
      BY <2>1, <2>2, <1>3
    <3>2. QED
      BY <3>1, <2>2, <1>3, <1>6, <1>11, <1>12
  <2>3. CASE ~(j < i)
    <3>1. PICK l : l = j - 1
      OBVIOUS
    <3>2. l \in 1..m /\ l > i /\ j = l + 1
      BY <3>1, <2>1, <2>3, <1>3, <1>8
    <3>3. QED
      BY <3>2, <1>3, <1>6, <1>11, <1>12
  <2>4. QED
    BY <2>2, <2>3
<1>13. BlocksOK(bs2, src)
  <2>1. m >= 1
    BY <1>3
  <2>2. Fits(vals2, vals, S, f, g)
    BY <2>1, <1>3, <1>6, <1>10, <1>12 DEF Fits
  <2>3. Fits(bs2[b].vals, bs[b].vals, src[reg[b]], pos[b], g) /\ b \in 1..Len(bs)
    BY <2>2, <1>3, <1>5, <1>6
  <2>4. QED
    BY <2>3, <1>1, <1>2, <1>4, <1>5, ReviseOK
<1>14. Bounded(bs2, k)
  <2>1. \E h : Fewer(Marks(bs2), Marks(bs), <<b, i>>, h)
    BY <1>3, <1>5, PmemFewer
  <2>2. Len(bs2) = n /\ n <= n + 2
    BY <1>3, <1>5 DEF Revised
  <2>3. QED
    BY <2>1, <2>2, <1>3, <1>4, BoundedStep
<1>15. QED
  BY <1>5, <1>13, <1>14

\* PassTest.
LEMMA TestOK ==
  ASSUME NEW bs, NEW src, BlocksOK(bs, src), NEW n, NEW b, NEW m, NEW i, AtMark(bs, n, b, m, i),
         NEW lv, NEW lg \in CodeVal, NEW rv, SplitAt(lv, rv, bs[b].vals, i), IsLogOf(lg, bs[b].vals[i]),
         NEW bs2, bs2 = TestBlocks(bs, b, lv, lg, rv, n), NEW k \in Nat, Bounded(bs, k)
  PROVE  BlocksOK(bs2, src) /\ Bounded(bs2, k) /\ SplitBlocks(bs2, bs, b, n, lv, lg, rv)
<1>1. bs \in Seq(BlockRec) /\ Len(bs) >= 3 /\ GraphOK(bs) /\ TestsOK(bs)
  BY DEF BlocksOK
<1>2. PICK reg, pos : PlaceOK(bs, src, reg, pos)
  BY DEF BlocksOK
<1>3. /\ n \in Nat /\ Len(bs) = n /\ b \in 1..n /\ m \in Nat /\ Len(bs[b].vals) = m /\ i \in 1..m /\ Marked(bs[b].vals[i])
      /\ \A j \in 1..(i - 1) : ~Marked(bs[b].vals[j])
  BY DEF AtMark
<1>4. bs[b].vals[i].op = "store" /\ <<b, i>> \in Marks(bs) /\ ~Quiet(bs[b])
  BY <1>1, AtMarkFacts
<1>5. SplitBlocks(bs2, bs, b, n, lv, lg, rv)
  <2>1. lv \in Seq(CodeVal) /\ rv \in Seq(CodeVal)
    BY DEF SplitAt
  <2>2. QED
    BY <2>1, <1>1, <1>3, TestSplits
<1>6. bs2 \in Seq(BlockRec) /\ Len(bs2) = n + 2 /\ lg.op = "log"
  BY <1>5 DEF SplitBlocks, IsLogOf
<1>7. Linked(bs, n)
  BY <1>1, <1>3, GraphFacts DEF Linked
<1>8. b \notin Succs(bs[b]) /\ \A c \in 1..n : bs[c].phi # <<>> => b \notin Preds(bs[c])
  BY <1>1, <1>3, <1>4 DEF TestsOK
<1>9. Linked(bs2, n + 2)
  BY <1>3, <1>5, <1>7, <1>8, SplitGraph
<1>10. GraphOK(bs2)
  BY <1>6, <1>9, GraphFacts DEF Linked
<1>11. TestsOK(bs2)
  BY <1>1, <1>3, <1>5, <1>6, <1>7, <1>9, SplitTests
<1>12. \E reg2, pos2 : PlaceOK(bs2, src, reg2, pos2)
  BY <1>1, <1>2, <1>3, <1>5, <1>7, SplitPlace
<1>13. n + 2 >= 3
  BY <1>1, <1>3
<1>14. BlocksOK(bs2, src)
  BY <1>6, <1>10, <1>11, <1>12, <1>13 DEF BlocksOK
<1>15. Bounded(bs2, k)
  <2>1. \E h : Fewer(Marks(bs2), Marks(bs), <<b, i>>, h)
    BY <1>3, <1>5, <1>6, SplitFewer
  <2>2. n + 2 \in Nat /\ n + 2 <= n + 2
    BY <1>3
  <2>3. QED
    BY <2>1, <2>2, <1>3, <1>4, <1>6, BoundedStep
<1>16. QED
  BY <1>5, <1>14, <1>15

------------------------------------------------------------------------------
(* The blocks that the pass starts with.                                   *)

\* The values of the three statement lists of a function.
Src(f) == <<Lower(f.head), Lower(f.branch), Lower(f.tail)>>

Count(f) == Len(f.head) + Len(f.branch) + Len(f.tail)

\* What BuildSSA makes of three rows of values.
Three(h, b, t) == <<Block(h, <<>>, <<2, 3>>, "if"), Block(b, <<1>>, <<3>>, "plain"), Block(t, <<1, 2>>, <<>>, "ret")>>

IsBlock(B, v, p, s, kind) == B \in BlockRec /\ B.vals = v /\ Preds(B) = p /\ Succs(B) = s /\ B.kind = kind /\ B.phi = <<>>

\* The range of a short sequence.
LEMMA ShortRange ==
  ASSUME NEW a \in Nat, NEW b \in Nat
  PROVE  /\ <<>> \in Seq(Nat) /\ Range(<<>>) = {} /\ <<a>> \in Seq(Nat) /\ Range(<<a>>) = {a}
         /\ <<a, b>> \in Seq(Nat) /\ Range(<<a, b>>) = {a, b}
<1>1. PICK s, t : s = <<a>> /\ t = <<a, b>>
  OBVIOUS
<1>2. s \in Seq(Nat) /\ Len(s) = 1 /\ s[1] = a /\ t \in Seq(Nat) /\ Len(t) = 2 /\ t[1] = a /\ t[2] = b
  BY <1>1
<1>3. DOMAIN s = 1..1 /\ DOMAIN t = 1..2
  BY <1>2
<1>4. DOMAIN s = {1} /\ DOMAIN t = {1, 2}
  BY <1>3
<1>5. Range(s) = {a} /\ Range(t) = {a, b}
  BY <1>2, <1>4 DEF Range
<1>6. <<>> \in Seq(Nat) /\ Range(<<>>) = {}
  BY DEF Range
<1>7. QED
  BY <1>1, <1>2, <1>5, <1>6

\* A block that BuildSSA makes.
LEMMA BlockIs ==
  ASSUME NEW v \in Seq(CodeVal), NEW p \in Seq(Nat), NEW s \in Seq(Nat), NEW kind \in {"if", "plain", "ret", "inpmem"},
         NEW B, B = Block(v, p, s, kind)
  PROVE  IsBlock(B, v, Range(p), Range(s), kind)
<1>1. <<>> \in Seq(Nat)
  OBVIOUS
<1>2. B = [vals |-> v, preds |-> p, succs |-> s, kind |-> kind, phi |-> <<>>]
  BY DEF Block
<1>3. B \in BlockRec /\ B.vals = v /\ B.preds = p /\ B.succs = s /\ B.kind = kind /\ B.phi = <<>>
  <2> HIDE DEF CodeVal
  <2> QED
    BY <1>1, <1>2 DEF BlockRec
<1>4. QED
  BY <1>3 DEF IsBlock, Preds, Succs

\* The three blocks.
LEMMA ThreeBlocks ==
  ASSUME NEW h \in Seq(CodeVal), NEW b \in Seq(CodeVal), NEW t \in Seq(CodeVal), NEW bs, bs = Three(h, b, t)
  PROVE  /\ bs \in Seq(BlockRec) /\ Len(bs) = 3
         /\ IsBlock(bs[1], h, {}, {2, 3}, "if") /\ IsBlock(bs[2], b, {1}, {3}, "plain")
         /\ IsBlock(bs[3], t, {1, 2}, {}, "ret")
<1>1. PICK X, Y, Z : X = Block(h, <<>>, <<2, 3>>, "if") /\ Y = Block(b, <<1>>, <<3>>, "plain") /\ Z = Block(t, <<1, 2>>, <<>>, "ret")
  OBVIOUS
<1>2. /\ <<>> \in Seq(Nat) /\ <<2, 3>> \in Seq(Nat) /\ <<1>> \in Seq(Nat) /\ <<3>> \in Seq(Nat) /\ <<1, 2>> \in Seq(Nat)
      /\ Range(<<>>) = {} /\ Range(<<2, 3>>) = {2, 3} /\ Range(<<1>>) = {1} /\ Range(<<3>>) = {3} /\ Range(<<1, 2>>) = {1, 2}
  BY ShortRange
<1>3. IsBlock(X, h, {}, {2, 3}, "if")
  <2>1. PICK p, s : p = <<>> /\ s = <<2, 3>>
    OBVIOUS
  <2>2. IsBlock(X, h, Range(p), Range(s), "if")
    BY <2>1, <1>1, <1>2, BlockIs
  <2>3. QED
    BY <2>1, <2>2, <1>2
<1>4. IsBlock(Y, b, {1}, {3}, "plain")
  <2>1. PICK p, s : p = <<1>> /\ s = <<3>>
    OBVIOUS
  <2>2. IsBlock(Y, b, Range(p), Range(s), "plain")
    BY <2>1, <1>1, <1>2, BlockIs
  <2>3. QED
    BY <2>1, <2>2, <1>2
<1>5. IsBlock(Z, t, {1, 2}, {}, "ret")
  <2>1. PICK p, s : p = <<1, 2>> /\ s = <<>>
    OBVIOUS
  <2>2. IsBlock(Z, t, Range(p), Range(s), "ret")
    BY <2>1, <1>1, <1>2, BlockIs
  <2>3. QED
    BY <2>1, <2>2, <1>2
<1>6. X \in BlockRec /\ Y \in BlockRec /\ Z \in BlockRec
  BY <1>3, <1>4, <1>5 DEF IsBlock
<1>7. bs = <<X, Y, Z>>
  BY <1>1 DEF Three
<1>8. bs \in Seq(BlockRec) /\ Len(bs) = 3 /\ bs[1] = X /\ bs[2] = Y /\ bs[3] = Z
  <2> HIDE DEF BlockRec
  <2> QED
    BY <1>6, <1>7
<1>9. QED
  BY <1>3, <1>4, <1>5, <1>8

\* The values of the source, as the pass finds them.
LEMMA SourceVals ==
  ASSUME NEW S \in Seq(SrcVal), NEW n \in Nat, Len(S) = n, NEW f, f = [j \in Nat |-> j]
  PROVE  /\ S \in Seq(CodeVal) /\ ValsOK(S, S, f) /\ ~NeedsHere(S[1], S, f[1]) /\ f \in [Nat -> Nat]
         /\ \A j \in 1..n : S[j].op # "inpmem"
<1>1. \A j \in 1..n : S[j] \in SrcVal
  <2> HIDE DEF SrcVal
  <2> QED
    OBVIOUS
<1>2. f \in [Nat -> Nat] /\ \A j \in Nat : f[j] = j
  OBVIOUS
<1>3. S \in Seq(CodeVal)
  <2> DEFINE T == CodeVal
  <2>1. SrcVal \subseteq T
    BY DEF CodeVal
  <2> HIDE DEF SrcVal, T
  <2>2. S \in Seq(T)
    BY <2>1
  <2>3. QED
    BY <2>2 DEF T
<1>4. \A v \in SrcVal : v.op \in {"store", "call"}
  BY DEF SrcVal, StoreVal, Call
<1>5. \A j \in Nat : ~NeedsHere(S[j], S, f[j])
  BY <1>2 DEF NeedsHere, Needs
<1>6. ASSUME NEW j \in 1..n PROVE Carried(S[j], S, f[j - 1], f[j])
  <2>1. j - 1 \in Nat /\ j \in Nat /\ j = (j - 1) + 1
    OBVIOUS
  <2>2. f[j - 1] = j - 1 /\ f[j] = j
    BY <2>1, <1>2
  <2>3. QED
    BY <2>1, <2>2, <1>1, <1>4 DEF Carried, Same
<1>7. ValsOK(S, S, f)
  <2>1. \A j \in 2..n : j \in Nat
    OBVIOUS
  <2>2. QED
    BY <2>1, <1>5, <1>6 DEF ValsOK
<1>8. \A j \in 1..n : S[j].op # "inpmem"
  BY <1>1, <1>4
<1>9. QED
  BY <1>2, <1>3, <1>5, <1>7, <1>8

\* The graph and the places of the three blocks.
LEMMA ThreeOK ==
  ASSUME NEW h \in Seq(SrcVal), NEW b \in Seq(SrcVal), NEW t \in Seq(SrcVal), NEW bs, bs = Three(h, b, t),
         NEW src, src = <<h, b, t>>
  PROVE  BlocksOK(bs, src)
<1>1. PICK id : id = [j \in Nat |-> j]
  OBVIOUS
<1>2. Len(h) \in Nat /\ Len(b) \in Nat /\ Len(t) \in Nat
  <2> HIDE DEF SrcVal
  <2> QED
    OBVIOUS
<1>3. /\ h \in Seq(CodeVal) /\ ValsOK(h, h, id) /\ ~NeedsHere(h[1], h, id[1]) /\ \A j \in 1..Len(h) : h[j].op # "inpmem"
  BY <1>1, <1>2, SourceVals
<1>4. /\ b \in Seq(CodeVal) /\ ValsOK(b, b, id) /\ ~NeedsHere(b[1], b, id[1]) /\ \A j \in 1..Len(b) : b[j].op # "inpmem"
  BY <1>1, <1>2, SourceVals
<1>5. /\ t \in Seq(CodeVal) /\ ValsOK(t, t, id) /\ ~NeedsHere(t[1], t, id[1]) /\ \A j \in 1..Len(t) : t[j].op # "inpmem"
  BY <1>1, <1>2, SourceVals
<1>6. id \in [Nat -> Nat] /\ \A j \in Nat : id[j] = j
  BY <1>1
<1>7. /\ bs \in Seq(BlockRec) /\ Len(bs) = 3
      /\ IsBlock(bs[1], h, {}, {2, 3}, "if") /\ IsBlock(bs[2], b, {1}, {3}, "plain")
      /\ IsBlock(bs[3], t, {1, 2}, {}, "ret")
  BY <1>3, <1>4, <1>5, ThreeBlocks
<1>8. \A c \in 1..3 : c = 1 \/ c = 2 \/ c = 3
  OBVIOUS
<1>9. /\ bs[1].vals = h /\ Preds(bs[1]) = {} /\ Succs(bs[1]) = {2, 3} /\ bs[1].kind = "if" /\ bs[1].phi = <<>>
      /\ bs[2].vals = b /\ Preds(bs[2]) = {1} /\ Succs(bs[2]) = {3} /\ bs[2].kind = "plain" /\ bs[2].phi = <<>>
      /\ bs[3].vals = t /\ Preds(bs[3]) = {1, 2} /\ Succs(bs[3]) = {} /\ bs[3].kind = "ret" /\ bs[3].phi = <<>>
  BY <1>7 DEF IsBlock
<1>10. GraphOK(bs)
  <2>1. ASSUME NEW x \in 1..3
        PROVE  /\ \A c \in Succs(bs[x]) : c \in 1..3 /\ x \in Preds(bs[c])
               /\ \A c \in Preds(bs[x]) : c \in 1..3 /\ x \in Succs(bs[c])
               /\ bs[x].phi # <<>> => bs[x].phi = bs[x].preds
    <3>1. CASE x = 1
      <4>1. Succs(bs[x]) = {2, 3} /\ Preds(bs[x]) = {} /\ bs[x].phi = <<>>
        BY <3>1, <1>9
      <4>2. x \in Preds(bs[2]) /\ x \in Preds(bs[3]) /\ 2 \in 1..3 /\ 3 \in 1..3
        BY <3>1, <1>9
      <4>3. QED
        BY <4>1, <4>2, Zenon
    <3>2. CASE x = 2
      <4>1. Succs(bs[x]) = {3} /\ Preds(bs[x]) = {1} /\ bs[x].phi = <<>>
        BY <3>2, <1>9
      <4>2. x \in Preds(bs[3]) /\ x \in Succs(bs[1]) /\ 3 \in 1..3 /\ 1 \in 1..3
        BY <3>2, <1>9
      <4>3. QED
        BY <4>1, <4>2, Zenon
    <3>3. CASE x = 3
      <4>1. Succs(bs[x]) = {} /\ Preds(bs[x]) = {1, 2} /\ bs[x].phi = <<>>
        BY <3>3, <1>9
      <4>2. x \in Succs(bs[1]) /\ x \in Succs(bs[2]) /\ 1 \in 1..3 /\ 2 \in 1..3
        BY <3>3, <1>9
      <4>3. QED
        BY <4>1, <4>2, Zenon
    <3>4. QED
      BY <3>1, <3>2, <3>3, <1>8
  <2>2. QED
    BY <2>1, <1>7, GraphFacts
<1>11. TestsOK(bs)
  <2>1. ASSUME NEW x \in 1..3
        PROVE  /\ bs[x].kind # "inpmem" /\ bs[x].phi = <<>> /\ x \notin Succs(bs[x])
               /\ \A i \in 1..Len(bs[x].vals) : bs[x].vals[i].op # "inpmem"
    <3>1. CASE x = 1
      BY <3>1, <1>3, <1>9
    <3>2. CASE x = 2
      BY <3>2, <1>4, <1>9
    <3>3. CASE x = 3
      BY <3>3, <1>5, <1>9
    <3>4. QED
      BY <3>1, <3>2, <3>3, <1>8
  <2>2. QED
    BY <2>1, <1>7 DEF TestsOK
<1>12. src[1] = h /\ src[2] = b /\ src[3] = t
  OBVIOUS
<1>13. PICK reg, pos : reg = [c \in 1..3 |-> c] /\ pos = [c \in 1..3 |-> id]
  OBVIOUS
<1>14. /\ reg \in [1..3 -> 1..3] /\ reg[1] = 1 /\ reg[2] = 2 /\ reg[3] = 3
       /\ pos \in [1..3 -> [Nat -> Nat]] /\ pos[1] = id /\ pos[2] = id /\ pos[3] = id
  <2> HIDE <1>1
  <2> QED
    BY <1>6, <1>13
<1>15. \A c \in 1..3 : pos[c][0] = 0 /\ pos[c][Len(bs[c].vals)] = Len(src[c]) /\ reg[c] = c
  BY <1>2, <1>6, <1>8, <1>9, <1>12, <1>14
<1>16. ASSUME NEW c \in 1..3 PROVE ValsOK(bs[c].vals, src[reg[c]], pos[c])
  <2>1. CASE c = 1
    BY <2>1, <1>3, <1>9, <1>12, <1>14
  <2>2. CASE c = 2
    BY <2>2, <1>4, <1>9, <1>12, <1>14
  <2>3. CASE c = 3
    BY <2>3, <1>5, <1>9, <1>12, <1>14
  <2>4. QED
    BY <2>1, <2>2, <2>3, <1>8
<1>17. \A c \in 1..3 : FirstOK(bs, c, src[reg[c]], pos[c])
  <2>1. ASSUME NEW c \in 1..3 PROVE ~NeedsHere(bs[c].vals[1], src[reg[c]], pos[c][1])
    <3>1. CASE c = 1
      BY <3>1, <1>3, <1>9, <1>12, <1>14
    <3>2. CASE c = 2
      BY <3>2, <1>4, <1>9, <1>12, <1>14
    <3>3. CASE c = 3
      BY <3>3, <1>5, <1>9, <1>12, <1>14
    <3>4. QED
      BY <3>1, <3>2, <3>3, <1>8
  <2>2. QED
    BY <2>1 DEF FirstOK
<1>18. ASSUME NEW x \in 1..3, NEW c \in Succs(bs[x])
       PROVE  Edge(src, reg[x], pos[x][Len(bs[x].vals)], reg[c], pos[c][0])
  <2>1. c \in 1..3 /\ x < c
    BY <1>8, <1>9
  <2>2. QED
    BY <2>1, <1>15 DEF Edge
<1>19. \A c \in 1..3 : bs[c].kind = "ret" => reg[c] = 3 /\ pos[c][Len(bs[c].vals)] = Len(src[3])
  <2>1. \A c \in 1..3 : bs[c].kind = "ret" => c = 3
    BY <1>8, <1>9
  <2>2. QED
    BY <2>1, <1>15
<1>20. PlaceOK(bs, src, reg, pos)
  <2>1. pos[1][0] = 0
    BY <1>15
  <2>2. QED
    BY <2>1, <1>7, <1>14, <1>16, <1>17, <1>18, <1>19 DEF PlaceOK
<1>21. QED
  BY <1>7, <1>10, <1>11, <1>20 DEF BlocksOK

\* The marks of one block.
MarksIn(bs, c) == {x \in Marks(bs) : x[1] = c}

\* They are as many as those of its values.
LEMMA MarksInCount ==
  ASSUME NEW bs, NEW n \in Nat, Len(bs) = n, NEW c \in 1..n, NEW k \in Nat, NEW vals, bs[c].vals = vals,
         IsFiniteSet(MarkedAt(vals)), Cardinality(MarkedAt(vals)) <= k
  PROVE  IsFiniteSet(MarksIn(bs, c)) /\ Cardinality(MarksIn(bs, c)) \in Nat /\ Cardinality(MarksIn(bs, c)) <= k
<1> DEFINE f == [x \in MarksIn(bs, c) |-> x[2]]
<1>1. ASSUME NEW x \in MarksIn(bs, c) PROVE x[2] \in MarkedAt(vals) /\ x = <<c, x[2]>>
  <2>1. x \in Marks(bs) /\ x[1] = c
    BY DEF MarksIn
  <2>2. x = <<x[1], x[2]>> /\ x[2] \in 1..Len(bs[x[1]].vals) /\ Marked(bs[x[1]].vals[x[2]])
    BY <2>1, MarkIsPair
  <2>3. QED
    BY <2>1, <2>2 DEF MarkedAt, Marked
<1>2. f \in [MarksIn(bs, c) -> MarkedAt(vals)] /\ \A y \in MarksIn(bs, c) : f[y] = y[2]
  BY <1>1
<1> HIDE DEF f
<1>3. \A y, z \in MarksIn(bs, c) : f[y] = f[z] => y = z
  BY <1>1, <1>2
<1>4. f \in Injection(MarksIn(bs, c), MarkedAt(vals))
  BY <1>2, <1>3 DEF Injection, IsInjective
<1>5. IsFiniteSet(MarksIn(bs, c)) /\ Cardinality(MarksIn(bs, c)) <= Cardinality(MarkedAt(vals))
  BY <1>4, FS_Injection
<1>6. Cardinality(MarksIn(bs, c)) \in Nat /\ Cardinality(MarkedAt(vals)) \in Nat
  BY <1>5, FS_CardinalityType
<1>7. QED
  BY <1>5, <1>6

\* The size of a union.
LEMMA UnionCount ==
  ASSUME NEW A, IsFiniteSet(A), NEW B, IsFiniteSet(B), NEW a \in Nat, NEW b \in Nat, Cardinality(A) <= a, Cardinality(B) <= b
  PROVE  IsFiniteSet(A \cup B) /\ Cardinality(A \cup B) <= a + b /\ Cardinality(A \cup B) \in Nat
<1>1. IsFiniteSet(A \cup B) /\ Cardinality(A \cup B) = Cardinality(A) + Cardinality(B) - Cardinality(A \cap B)
  BY FS_Union
<1>2. IsFiniteSet(A \cap B)
  BY FS_Intersection
<1>3. Cardinality(A) \in Nat /\ Cardinality(B) \in Nat /\ Cardinality(A \cap B) \in Nat /\ Cardinality(A \cup B) \in Nat
  BY <1>1, <1>2, FS_CardinalityType
<1>4. QED
  BY <1>1, <1>3

\* The number of blocks at the start, with two for each mark.
LEMMA ThreeBounded ==
  ASSUME NEW bs, Len(bs) = 3, NEW h \in Nat, NEW b \in Nat, NEW t \in Nat,
         IsFiniteSet(MarkedAt(bs[1].vals)), Cardinality(MarkedAt(bs[1].vals)) <= h,
         IsFiniteSet(MarkedAt(bs[2].vals)), Cardinality(MarkedAt(bs[2].vals)) <= b,
         IsFiniteSet(MarkedAt(bs[3].vals)), Cardinality(MarkedAt(bs[3].vals)) <= t
  PROVE  Bounded(bs, 3 + 2 * (h + b + t))
<1>1. 1 \in 1..3 /\ 2 \in 1..3 /\ 3 \in 1..3 /\ 3 \in Nat
  OBVIOUS
<1>2. IsFiniteSet(MarksIn(bs, 1)) /\ Cardinality(MarksIn(bs, 1)) <= h
  BY <1>1, MarksInCount
<1>3. IsFiniteSet(MarksIn(bs, 2)) /\ Cardinality(MarksIn(bs, 2)) <= b
  BY <1>1, MarksInCount
<1>4. IsFiniteSet(MarksIn(bs, 3)) /\ Cardinality(MarksIn(bs, 3)) <= t
  BY <1>1, MarksInCount
<1>5. PICK A : A = MarksIn(bs, 1) \cup MarksIn(bs, 2)
  OBVIOUS
<1>6. IsFiniteSet(A) /\ Cardinality(A) <= h + b
  BY <1>2, <1>3, <1>5, UnionCount
<1>7. PICK hb : hb = h + b
  OBVIOUS
<1>8. hb \in Nat /\ Cardinality(A) <= hb
  BY <1>6, <1>7
<1>9. IsFiniteSet(A \cup MarksIn(bs, 3)) /\ Cardinality(A \cup MarksIn(bs, 3)) <= hb + t /\ Cardinality(A \cup MarksIn(bs, 3)) \in Nat
  BY <1>4, <1>6, <1>8, UnionCount
<1>10. Marks(bs) = A \cup MarksIn(bs, 3)
  <2>1. \A c \in 1..3 : c = 1 \/ c = 2 \/ c = 3
    OBVIOUS
  <2>2. \A x \in Marks(bs) : x[1] \in 1..3
    BY <1>1, MarkIsPair
  <2>3. QED
    BY <2>1, <2>2, <1>5 DEF MarksIn
<1>11. PICK d : d = Cardinality(Marks(bs))
  OBVIOUS
<1>12. d \in Nat /\ d <= h + b + t
  BY <1>7, <1>9, <1>10, <1>11
<1>13. 3 + 2 * d <= 3 + 2 * (h + b + t)
  BY <1>12
<1>14. QED
  BY <1>9, <1>10, <1>11, <1>13 DEF Bounded

\* What is known of the values of a function in a program of l functions.
SrcOK(src, l) ==
  \A r \in 1..3 : /\ src[r] \in Seq(SrcVal) /\ CoveredSrc(src[r])
                  /\ \A j \in 1..Len(src[r]) : src[r][j].op = "call" => l >= 2

\* A statement list of a program.
LEMMA ListFacts ==
  ASSUME NEW p \in Programs, NEW n \in 1..Len(p), NEW stmts \in {p[n].head, p[n].branch, p[n].tail}
  PROVE  /\ LoweredOK(Lower(stmts), Len(stmts), stmts) /\ Len(stmts) \in Nat
         /\ HasCall(stmts) => Len(p) >= 2
<1>1. p \in Seq(Function)
  BY ProgramsAssumption
<1>2. p[n] \in Function /\ n \in DOMAIN p
  <2> HIDE DEF Function
  <2> QED
    BY <1>1
<1>3. stmts \in Seq(Stmt)
  <2> DEFINE T == Stmt
  <2>1. p[n] \in [head : Seq(T), branch : Seq(T), tail : Seq(T)]
    BY <1>2 DEF Function, Stmt
  <2> HIDE DEF T
  <2>2. p[n].head \in Seq(T) /\ p[n].branch \in Seq(T) /\ p[n].tail \in Seq(T)
    BY <2>1
  <2>3. QED
    BY <2>2 DEF T
<1>4. Len(stmts) \in Nat /\ DOMAIN stmts = 1..Len(stmts)
  <2> HIDE DEF Stmt
  <2> QED
    BY <1>3
<1>5. Range(stmts) \subseteq Range(p[n].head) \cup Range(p[n].branch) \cup Range(p[n].tail)
  OBVIOUS
<1>6. \A i \in 1..Len(stmts) : stmts[i] \in Range(stmts)
  BY <1>4 DEF Range
<1>7. \A st \in Range(p[n].head) \cup Range(p[n].branch) \cup Range(p[n].tail) : GoodStmt(st) /\ (st = Call => Len(p) >= 2)
  BY <1>2, ProgramsAssumption
<1>8. \A i \in 1..Len(stmts) : GoodStmt(stmts[i]) /\ (stmts[i] = Call => Len(p) >= 2)
  BY <1>5, <1>6, <1>7
<1>9. LoweredOK(Lower(stmts), Len(stmts), stmts)
  BY <1>3, <1>8, Lowered
<1>10. QED
  BY <1>4, <1>8, <1>9 DEF HasCall

\* The function with which the pass starts.
LEMMA FunctionStart ==
  ASSUME NEW p \in Programs, NEW n \in 1..Len(p), NEW f, f = p[n]
  PROVE  /\ SrcOK(Src(f), Len(p)) /\ Count(f) \in Nat
         /\ BlocksOK(BuildSSA(f), Src(f)) /\ Bounded(BuildSSA(f), 3 + 2 * Count(f))
<1>1. PICK H, B, T : H = f.head /\ B = f.branch /\ T = f.tail
  OBVIOUS
<1>2. LoweredOK(Lower(H), Len(H), H) /\ Len(H) \in Nat /\ (HasCall(H) => Len(p) >= 2)
  BY <1>1, ListFacts
<1>3. LoweredOK(Lower(B), Len(B), B) /\ Len(B) \in Nat /\ (HasCall(B) => Len(p) >= 2)
  BY <1>1, ListFacts
<1>4. LoweredOK(Lower(T), Len(T), T) /\ Len(T) \in Nat /\ (HasCall(T) => Len(p) >= 2)
  BY <1>1, ListFacts
<1>5. PICK h, b, t, src : h = Lower(H) /\ b = Lower(B) /\ t = Lower(T) /\ src = <<h, b, t>>
  OBVIOUS
<1>6. /\ h \in Seq(SrcVal) /\ CoveredSrc(h) /\ IsFiniteSet(MarkedAt(h)) /\ Cardinality(MarkedAt(h)) <= Len(H)
      /\ \A j \in 1..Len(h) : h[j].op = "call" => Len(p) >= 2
  BY <1>2, <1>5 DEF LoweredOK
<1>7. /\ b \in Seq(SrcVal) /\ CoveredSrc(b) /\ IsFiniteSet(MarkedAt(b)) /\ Cardinality(MarkedAt(b)) <= Len(B)
      /\ \A j \in 1..Len(b) : b[j].op = "call" => Len(p) >= 2
  BY <1>3, <1>5 DEF LoweredOK
<1>8. /\ t \in Seq(SrcVal) /\ CoveredSrc(t) /\ IsFiniteSet(MarkedAt(t)) /\ Cardinality(MarkedAt(t)) <= Len(T)
      /\ \A j \in 1..Len(t) : t[j].op = "call" => Len(p) >= 2
  BY <1>4, <1>5 DEF LoweredOK
<1>9. Src(f) = src
  BY <1>1, <1>5 DEF Src
<1>10. src[1] = h /\ src[2] = b /\ src[3] = t
  BY <1>5
<1>11. SrcOK(src, Len(p))
  <2>1. ASSUME NEW r \in 1..3
        PROVE  /\ src[r] \in Seq(SrcVal) /\ CoveredSrc(src[r])
               /\ \A j \in 1..Len(src[r]) : src[r][j].op = "call" => Len(p) >= 2
    <3>1. CASE r = 1
      BY <3>1, <1>6, <1>10
    <3>2. CASE r = 2
      BY <3>2, <1>7, <1>10
    <3>3. CASE r = 3
      BY <3>3, <1>8, <1>10
    <3>4. QED
      BY <3>1, <3>2, <3>3
  <2>2. QED
    BY <2>1 DEF SrcOK
<1>12. PICK bs : bs = Three(h, b, t)
  OBVIOUS
<1>13. BuildSSA(f) = bs
  BY <1>1, <1>5, <1>12 DEF BuildSSA, Three
<1>14. BlocksOK(bs, src)
  BY <1>5, <1>6, <1>7, <1>8, <1>12, ThreeOK
<1>15. Len(bs) = 3 /\ bs[1].vals = h /\ bs[2].vals = b /\ bs[3].vals = t
  <2>1. PICK id : id = [j \in Nat |-> j]
    OBVIOUS
  <2>2. Len(h) \in Nat /\ Len(b) \in Nat /\ Len(t) \in Nat
    <3> HIDE DEF SrcVal
    <3> QED
      BY <1>6, <1>7, <1>8
  <2>3. h \in Seq(CodeVal) /\ b \in Seq(CodeVal) /\ t \in Seq(CodeVal)
    BY <2>1, <2>2, <1>6, <1>7, <1>8, SourceVals
  <2>4. /\ Len(bs) = 3 /\ IsBlock(bs[1], h, {}, {2, 3}, "if") /\ IsBlock(bs[2], b, {1}, {3}, "plain")
        /\ IsBlock(bs[3], t, {1, 2}, {}, "ret")
    BY <2>3, <1>12, ThreeBlocks
  <2>5. QED
    BY <2>4 DEF IsBlock
<1>16. Count(f) = Len(H) + Len(B) + Len(T)
  BY <1>1 DEF Count
<1>17. Bounded(bs, 3 + 2 * (Len(H) + Len(B) + Len(T)))
  BY <1>2, <1>3, <1>4, <1>6, <1>7, <1>8, <1>15, ThreeBounded
<1>18. Len(H) + Len(B) + Len(T) \in Nat
  BY <1>2, <1>3, <1>4
<1>19. QED
  BY <1>9, <1>11, <1>13, <1>14, <1>16, <1>17, <1>18

------------------------------------------------------------------------------
(* The invariant of the pass.                                              *)

\* What was looked at has no marks.
CurOK(bs, d, b, i) ==
  /\ d \subseteq 1..Len(bs) /\ b \in 0..Len(bs) /\ i \in Nat
  /\ b # 0 => b \in d /\ i \in 1..(Len(bs[b].vals) + 1) /\ \A j \in 1..(i - 1) : ~Marked(bs[b].vals[j])
  /\ \A x \in d : x # b => Quiet(bs[x])

\* A function that is compiled.
Compiled(bs, f) == BlocksOK(bs, Src(f)) /\ \A b \in 1..Len(bs) : Quiet(bs[b])

\* One that is being compiled.
Compiling(bs, f, d, b, i) == BlocksOK(bs, Src(f)) /\ Bounded(bs, 3 + 2 * Count(f)) /\ CurOK(bs, d, b, i)

PassInv ==
  /\ program \in Programs /\ phase \in {"pass", "run", "failed"} /\ cur \in [b : Nat, i : Nat]
  /\ code \in Seq(Seq(BlockRec))
  /\ \A n \in 1..Len(code) : Compiled(code[n], program[n])
  /\ phase # "run" => /\ fn \in 1..Len(program) /\ Len(code) = fn - 1
                      /\ Compiling(blocks, program[fn], done, cur.b, cur.i)
  /\ phase = "run" => blocks = <<>> /\ done = {} /\ Len(code) = Len(program)

\* The mark at which the pass is.
LEMMA AtTheMark ==
  ASSUME NEW f, Compiling(blocks, f, done, cur.b, cur.i), IsMarked
  PROVE  \E n, m : AtMark(blocks, n, cur.b, m, cur.i) /\ Len(blocks) = n /\ Len(Vals) = m
<1>1. blocks \in Seq(BlockRec) /\ CurOK(blocks, done, cur.b, cur.i)
  BY DEF Compiling, BlocksOK
<1>2. PICK n, m : n = Len(blocks) /\ m = Len(Vals)
  OBVIOUS
<1>3. cur.b # 0 /\ cur.i <= m /\ Marked(blocks[cur.b].vals[cur.i]) /\ Len(blocks[cur.b].vals) = m
  BY <1>2 DEF IsMarked, AtValue, V, Vals, Marked
<1>4. n \in Nat
  <2> HIDE DEF BlockRec
  <2> QED
    BY <1>1, <1>2
<1>5. cur.b \in 0..n /\ cur.i \in Nat /\ cur.i \in 1..(m + 1) /\ \A j \in 1..(cur.i - 1) : ~Marked(blocks[cur.b].vals[j])
  BY <1>1, <1>2, <1>3 DEF CurOK
<1>6. cur.b \in 1..n
  BY <1>3, <1>4, <1>5
<1>7. m \in Nat
  BY <1>1, <1>2, <1>3, <1>6, BlockType
<1>8. cur.i \in 1..m
  BY <1>3, <1>5, <1>7
<1>9. QED
  BY <1>2, <1>3, <1>4, <1>5, <1>6, <1>7, <1>8 DEF AtMark

\* PassVmem: the next value.
LEMMA VmemCur ==
  ASSUME NEW bs, NEW bs2, NEW n, NEW b, NEW m, NEW i, AtMark(bs, n, b, m, i), Revised(bs2, bs, b),
         Unmarked1(bs2[b].vals, bs[b].vals, i), NEW d, CurOK(bs, d, b, i)
  PROVE  CurOK(bs2, d, b, i + 1)
<1>1. /\ n \in Nat /\ Len(bs) = n /\ b \in 1..n /\ m \in Nat /\ Len(bs[b].vals) = m /\ i \in 1..m
      /\ \A j \in 1..(i - 1) : ~Marked(bs[b].vals[j])
  BY DEF AtMark
<1>2. Len(bs2) = n /\ \A c \in 1..n : c # b => bs2[c] = bs[c]
  BY <1>1 DEF Revised
<1>3. Len(bs2[b].vals) = m /\ ~Marked(bs2[b].vals[i]) /\ \A j \in 1..m : j # i => bs2[b].vals[j] = bs[b].vals[j]
  BY <1>1 DEF Unmarked1, Unmarks, Marked
<1>4. b # 0 /\ d \subseteq 1..n /\ b \in d /\ \A x \in d : x # b => Quiet(bs[x])
  <2>1. b # 0
    BY <1>1
  <2>2. d \subseteq 1..n /\ (\A x \in d : x # b => Quiet(bs[x]))
    BY <1>1 DEF CurOK
  <2>3. b \in d
    BY <2>1 DEF CurOK
  <2>4. QED
    BY <2>1, <2>2, <2>3
<1>5. i + 1 \in Nat /\ i + 1 \in 1..(m + 1) /\ b \in 0..n
  BY <1>1
<1>6. ASSUME NEW j \in 1..(i + 1 - 1) PROVE ~Marked(bs2[b].vals[j])
  <2>1. j \in 1..m /\ (j # i => j \in 1..(i - 1))
    BY <1>1
  <2>2. QED
    BY <2>1, <1>1, <1>3
<1>7. \A x \in d : x # b => Quiet(bs2[x])
  BY <1>2, <1>4
<1>8. QED
  BY <1>2, <1>3, <1>4, <1>5, <1>6, <1>7 DEF CurOK

\* PassPmem: the block is looked at again.
LEMMA PmemCur ==
  ASSUME NEW bs, NEW bs2, NEW n, NEW b, NEW m, NEW i, AtMark(bs, n, b, m, i), Revised(bs2, bs, b), NEW d, CurOK(bs, d, b, i)
  PROVE  CurOK(bs2, d \ {b}, 0, 0)
<1>1. n \in Nat /\ Len(bs) = n /\ b \in 1..n
  BY DEF AtMark
<1>2. Len(bs2) = n /\ \A c \in 1..n : c # b => bs2[c] = bs[c]
  BY <1>1 DEF Revised
<1>3. b # 0 /\ d \subseteq 1..n /\ \A x \in d : x # b => Quiet(bs[x])
  BY <1>1 DEF CurOK
<1>4. 0 \in 0..n /\ 0 \in Nat
  BY <1>1
<1>5. \A x \in d \ {b} : Quiet(bs2[x])
  BY <1>2, <1>3
<1>6. QED
  BY <1>2, <1>3, <1>4, <1>5 DEF CurOK

\* PassTest: what is before the test is done.
LEMMA TestCur ==
  ASSUME NEW bs, NEW bs2, NEW n, NEW b, NEW m, NEW i, AtMark(bs, n, b, m, i), NEW lv, NEW lg, NEW rv,
         SplitBlocks(bs2, bs, b, n, lv, lg, rv), TestsOK(bs2), NEW d, CurOK(bs, d, b, i)
  PROVE  CurOK(bs2, d, 0, 0)
<1>1. n \in Nat /\ Len(bs) = n /\ b \in 1..n
  BY DEF AtMark
<1>2. Len(bs2) = n + 2 /\ (\A c \in 1..n : c # b => bs2[c].vals = bs[c].vals) /\ bs2[b].kind = "inpmem"
  BY <1>1 DEF SplitBlocks
<1>3. b # 0 /\ d \subseteq 1..n /\ \A x \in d : x # b => Quiet(bs[x])
  BY <1>1 DEF CurOK
<1>4. 0 \in 0..(n + 2) /\ 0 \in Nat /\ \A c \in 1..n : c \in 1..(n + 2)
  BY <1>1
<1>5. Quiet(bs2[b])
  BY <1>1, <1>2, <1>4 DEF TestsOK
<1>6. \A x \in d : Quiet(bs2[x])
  BY <1>2, <1>3, <1>5 DEF Quiet
<1>7. d \subseteq 1..(n + 2)
  BY <1>3, <1>4
<1>8. QED
  BY <1>2, <1>4, <1>6, <1>7 DEF CurOK

\* PassBlock, PassBlockEnd and PassSkip.
LEMMA PassMoves ==
  ASSUME NEW f, Compiling(blocks, f, done, cur.b, cur.i), cur \in [b : Nat, i : Nat],
         PassBlock \/ PassBlockEnd \/ PassSkip
  PROVE  Compiling(blocks, f, done', cur'.b, cur'.i) /\ cur' \in [b : Nat, i : Nat]
<1>1. blocks \in Seq(BlockRec) /\ CurOK(blocks, done, cur.b, cur.i)
  BY DEF Compiling, BlocksOK
<1>2. PICK n : n = Len(blocks)
  OBVIOUS
<1>3. n \in Nat /\ DOMAIN blocks = 1..n
  <2> HIDE DEF BlockRec
  <2> QED
    BY <1>1, <1>2
<1>4. PICK b, i : b = cur.b /\ i = cur.i
  OBVIOUS
<1>5. /\ done \subseteq 1..n /\ b \in 0..n /\ i \in Nat
      /\ b # 0 => b \in done /\ i \in 1..(Len(blocks[b].vals) + 1) /\ \A j \in 1..(i - 1) : ~Marked(blocks[b].vals[j])
      /\ \A x \in done : x # b => Quiet(blocks[x])
  BY <1>1, <1>2, <1>4 DEF CurOK
<1>6. ASSUME b # 0 PROVE b \in 1..n /\ Len(blocks[b].vals) \in Nat
  <2>1. b \in 1..n
    BY <1>3, <1>5, <1>6
  <2>2. QED
    BY <2>1, <1>1, <1>2, BlockType
<1>7. SUFFICES CurOK(blocks, done', cur'.b, cur'.i) /\ cur' \in [b : Nat, i : Nat]
  BY DEF Compiling
<1>8. CASE PassBlock
  <2>1. PICK c \in 1..n : c \notin done /\ cur' = [b |-> c, i |-> 1] /\ done' = done \cup {c}
    BY <1>3, <1>8 DEF PassBlock
  <2>2. cur'.b = c /\ cur'.i = 1 /\ cur' \in [b : Nat, i : Nat] /\ c \in Nat /\ c \in 0..n /\ 1 \in Nat
    BY <2>1, <1>3
  <2>3. b = 0
    BY <1>4, <1>8 DEF PassBlock
  <2>4. Len(blocks[c].vals) \in Nat
    BY <2>1, <1>1, <1>2, BlockType
  <2>5. 1 \in 1..(Len(blocks[c].vals) + 1) /\ \A j \in 1..(1 - 1) : FALSE
    BY <2>4
  <2>6. \A x \in done' : x # c => Quiet(blocks[x])
    <3>1. ASSUME NEW x \in done', x # c PROVE Quiet(blocks[x])
      <4>1. x \in done /\ x \in 1..n
        BY <3>1, <2>1, <1>5
      <4>2. x # b
        BY <4>1, <2>3, <1>3
      <4>3. QED
        BY <4>1, <4>2, <1>5
    <3>2. QED
      BY <3>1
  <2>7. done' \subseteq 1..n /\ c \in done'
    BY <2>1, <1>5
  <2>8. CurOK(blocks, done', c, 1)
    BY <2>2, <2>5, <2>6, <2>7, <1>2 DEF CurOK
  <2>9. QED
    BY <2>2, <2>8
<1>9. CASE PassBlockEnd
  <2>1. b # 0 /\ i > Len(blocks[b].vals) /\ cur' = [b |-> 0, i |-> 0] /\ done' = done
    BY <1>4, <1>9 DEF PassBlockEnd, Vals
  <2>2. cur'.b = 0 /\ cur'.i = 0 /\ cur' \in [b : Nat, i : Nat] /\ 0 \in 0..n /\ 0 \in Nat
    BY <2>1, <1>3
  <2>3. PICK m : m = Len(blocks[b].vals)
    OBVIOUS
  <2>4. m \in Nat /\ i > m /\ \A j \in 1..(i - 1) : ~Marked(blocks[b].vals[j])
    BY <2>1, <2>3, <1>5, <1>6
  <2>5. \A j \in 1..m : j \in 1..(i - 1)
    BY <2>4, <1>5
  <2>6. Quiet(blocks[b])
    BY <2>3, <2>4, <2>5 DEF Quiet
  <2>7. \A x \in done : Quiet(blocks[x])
    BY <2>6, <1>5
  <2>8. CurOK(blocks, done, 0, 0)
    BY <2>2, <2>7, <1>2, <1>5 DEF CurOK
  <2>9. QED
    BY <2>1, <2>2, <2>8
<1>10. CASE PassSkip
  <2>1. b # 0 /\ i <= Len(blocks[b].vals) /\ cur' = [cur EXCEPT !.i = @ + 1] /\ done' = done /\ ~Marked(blocks[b].vals[i])
    BY <1>4, <1>10 DEF PassSkip, AtValue, IsMarked, V, Vals, Marked
  <2>2. cur'.b = b /\ cur'.i = i + 1 /\ cur' \in [b : Nat, i : Nat] /\ i + 1 \in Nat
    BY <2>1, <1>4
  <2>3. PICK m : m = Len(blocks[b].vals)
    OBVIOUS
  <2>4. m \in Nat /\ i <= m /\ i \in Nat /\ i \in 1..(m + 1)
    BY <2>1, <2>3, <1>5, <1>6
  <2>5. i + 1 \in 1..(m + 1)
    BY <2>4
  <2>6. ASSUME NEW j \in 1..(i + 1 - 1) PROVE ~Marked(blocks[b].vals[j])
    <3>1. j = i \/ j \in 1..(i - 1)
      BY <2>4
    <3>2. QED
      BY <3>1, <2>1, <1>5
  <2>7. CurOK(blocks, done, b, i + 1)
    BY <2>1, <2>2, <2>3, <2>5, <2>6, <1>2, <1>5 DEF CurOK
  <2>8. QED
    BY <2>1, <2>2, <2>7
<1>11. QED
  BY <1>8, <1>9, <1>10

\* PassVmem, PassPmem and PassTest.
LEMMA PassWrites ==
  ASSUME NEW f, Count(f) \in Nat, Compiling(blocks, f, done, cur.b, cur.i), cur \in [b : Nat, i : Nat],
         PassVmem \/ PassPmem \/ PassTest
  PROVE  Compiling(blocks', f, done', cur'.b, cur'.i) /\ cur' \in [b : Nat, i : Nat]
<1>0. PICK src, k : src = Src(f) /\ k = 3 + 2 * Count(f)
  OBVIOUS
<1>1. BlocksOK(blocks, src) /\ blocks \in Seq(BlockRec) /\ CurOK(blocks, done, cur.b, cur.i) /\ Bounded(blocks, k) /\ k \in Nat
  <2>1. k \in Nat
    BY <1>0
  <2>2. QED
    BY <2>1, <1>0 DEF Compiling, BlocksOK
<1>2. IsMarked
  BY DEF PassVmem, PassPmem, PassTest, NeedsLog
<1>3. PICK n, m, b, i, vals : /\ AtMark(blocks, n, b, m, i) /\ Len(blocks) = n /\ Len(vals) = m
                              /\ b = cur.b /\ i = cur.i /\ vals = blocks[b].vals
  BY <1>2, AtTheMark DEF Vals
<1>4. Vals = vals /\ V = vals[i]
  BY <1>3 DEF Vals, V
<1>5. vals \in Seq(CodeVal) /\ vals[i].op = "store" /\ m \in Nat /\ i \in 1..m
  <2>1. m \in Nat /\ i \in 1..m
    BY <1>3 DEF AtMark
  <2>2. blocks[b].vals \in Seq(CodeVal) /\ blocks[b].vals[i].op = "store"
    <3>1. AtMark(blocks, n, b, m, i) /\ blocks \in Seq(BlockRec)
      BY <1>1, <1>3
    <3>2. QED
      BY <3>1, AtMarkFacts
  <2>3. QED
    BY <2>1, <2>2, <1>3
<1>6. CurOK(blocks, done, b, i) /\ b \in Nat
  <2>1. cur.b \in Nat
    OBVIOUS
  <2>2. QED
    BY <2>1, <1>1, <1>3
<1>7. CASE PassVmem
  <2>1. blocks' = WithoutMark(blocks, b, i) /\ cur' = [cur EXCEPT !.i = @ + 1] /\ done' = done /\ WillAccessVmem(vals[i].addr)
    BY <1>3, <1>4, <1>7 DEF PassVmem, WithoutMark
  <2>2. cur'.b = b /\ cur'.i = i + 1 /\ cur' \in [b : Nat, i : Nat]
    BY <2>1, <1>3
  <2>3. /\ BlocksOK(blocks', src) /\ Bounded(blocks', k) /\ Revised(blocks', blocks, b)
        /\ Unmarked1(blocks'[b].vals, blocks[b].vals, i)
    <3>1. PICK bs2 : bs2 = blocks'
      OBVIOUS
    <3>2. bs2 = WithoutMark(blocks, b, i) /\ WillAccessVmem(blocks[b].vals[i].addr) /\ AtMark(blocks, n, b, m, i)
      BY <3>1, <2>1, <1>3
    <3>3. /\ BlocksOK(bs2, src) /\ Bounded(bs2, k) /\ Revised(bs2, blocks, b)
          /\ Unmarked1(bs2[b].vals, blocks[b].vals, i)
      BY <3>2, <1>1, VmemOK
    <3>4. QED
      BY <3>1, <3>3
  <2>4. CurOK(blocks', done, b, i + 1)
    BY <2>3, <1>3, <1>6, VmemCur
  <2>5. QED
    BY <2>1, <2>2, <2>3, <2>4, <1>0 DEF Compiling
<1>8. PICK vals2, lv, rv, lg :
         /\ vals2 = SubSeq(vals, 1, i - 1) \o <<LogOf(vals[i])>> \o (<<Clear(vals[i])>> \o SubSeq(vals, i + 1, Len(vals)))
         /\ lv = Append(SubSeq(vals, 1, i - 1), TestOf(vals[i]))
         /\ rv = <<Clear(vals[i])>> \o SubSeq(vals, i + 1, Len(vals))
         /\ lg = LogOf(vals[i])
  OBVIOUS
<1>9. Inserted(vals2, vals, i) /\ SplitAt(lv, rv, vals, i)
  BY <1>3, <1>5, <1>8, PutIn
<1>10. lg \in CodeVal /\ IsLogOf(lg, vals[i])
  <2>1. vals[i] \in CodeVal
    BY <1>1, <1>3, AtMarkFacts
  <2>2. QED
    BY <2>1, <1>5, <1>8, NewValues
<1>11. TxLog3Call = lg /\ Before = SubSeq(vals, 1, i - 1) /\ After = rv
  BY <1>3, <1>4, <1>8 DEF TxLog3Call, Before, After, Unmarked, LogOf, Clear
<1>12. CASE PassPmem
  <2>1. blocks' = [blocks EXCEPT ![cur.b].vals = Before \o <<TxLog3Call>> \o After] /\ done' = done \ {cur.b} /\ cur' = [b |-> 0, i |-> 0]
    BY <1>12 DEF PassPmem
  <2>2. Before \o <<TxLog3Call>> \o After = vals2
    BY <1>8, <1>11
  <2>3. blocks' = WithVals(blocks, b, vals2)
    BY <2>1, <2>2, <1>3 DEF WithVals
  <2>4. cur'.b = 0 /\ cur'.i = 0 /\ cur' \in [b : Nat, i : Nat]
    BY <2>1
  <2>5. BlocksOK(blocks', src) /\ Bounded(blocks', k) /\ Revised(blocks', blocks, b)
    <3>1. PICK bs2 : bs2 = blocks'
      OBVIOUS
    <3>2. bs2 = WithVals(blocks, b, vals2) /\ Inserted(vals2, blocks[b].vals, i) /\ AtMark(blocks, n, b, m, i)
      BY <3>1, <2>3, <1>3, <1>9
    <3>3. BlocksOK(bs2, src) /\ Bounded(bs2, k) /\ Revised(bs2, blocks, b)
      BY <3>2, <1>1, PmemOK
    <3>4. QED
      BY <3>1, <3>3
  <2>6. CurOK(blocks', done \ {b}, 0, 0)
    BY <2>5, <1>3, <1>6, PmemCur
  <2>7. QED
    BY <2>1, <2>4, <2>5, <2>6, <1>0, <1>3 DEF Compiling
<1>13. CASE PassTest
  <2>1. blocks' = TestBlocks(blocks, b, lv, lg, rv, n)
    <3>1. Append(Before, [op |-> "inpmem", st |-> V.st]) = lv
      BY <1>4, <1>8, <1>11 DEF TestOf
    <3>2. QED
      BY <3>1, <1>3, <1>11, <1>13 DEF PassTest, TestBlocks, TestBlock, AfterTest, Moved, ThenBlock, EndBlock, Cat
  <2>2. cur' = [b |-> 0, i |-> 0] /\ done' = done
    BY <1>13 DEF PassTest
  <2>3. cur'.b = 0 /\ cur'.i = 0 /\ cur' \in [b : Nat, i : Nat]
    BY <2>2
  <2>4. BlocksOK(blocks', src) /\ Bounded(blocks', k) /\ SplitBlocks(blocks', blocks, b, n, lv, lg, rv)
    <3>1. PICK bs2 : bs2 = blocks'
      OBVIOUS
    <3>2. bs2 = TestBlocks(blocks, b, lv, lg, rv, n) /\ SplitAt(lv, rv, blocks[b].vals, i) /\ AtMark(blocks, n, b, m, i) /\ IsLogOf(lg, blocks[b].vals[i])
      BY <3>1, <2>1, <1>3, <1>9, <1>10
    <3>3. BlocksOK(bs2, src) /\ Bounded(bs2, k) /\ SplitBlocks(bs2, blocks, b, n, lv, lg, rv)
      BY <3>2, <1>1, <1>10, TestOK
    <3>4. QED
      BY <3>1, <3>3
  <2>5. TestsOK(blocks')
    BY <2>4 DEF BlocksOK
  <2>6. CurOK(blocks', done, 0, 0)
    BY <2>4, <2>5, <1>3, <1>6, TestCur
  <2>7. QED
    BY <2>2, <2>3, <2>4, <2>6, <1>0 DEF Compiling
<1>14. QED
  BY <1>7, <1>12, <1>13

\* A function of the program is ready to be compiled.
LEMMA StartCompiling ==
  ASSUME NEW p \in Programs, NEW n \in 1..Len(p)
  PROVE  Compiling(BuildSSA(p[n]), p[n], {}, 0, 0)
<1>1. PICK f : f = p[n]
  OBVIOUS
<1>2. BlocksOK(BuildSSA(f), Src(f)) /\ Bounded(BuildSSA(f), 3 + 2 * Count(f))
  BY <1>1, FunctionStart
<1>3. Len(BuildSSA(f)) \in Nat
  <2>1. BuildSSA(f) \in Seq(BlockRec)
    BY <1>2 DEF BlocksOK
  <2> HIDE DEF BlockRec
  <2>2. QED
    BY <2>1
<1>4. CurOK(BuildSSA(f), {}, 0, 0)
  BY <1>3 DEF CurOK
<1>5. QED
  BY <1>1, <1>2, <1>4 DEF Compiling

\* The pass starts with the first function.
LEMMA PassInit ==
  ASSUME Init
  PROVE  PassInv
<1>1. program \in Programs /\ phase = "pass" /\ fn = 1 /\ blocks = BuildSSA(program[1]) /\ done = {} /\ cur = [b |-> 0, i |-> 0] /\ code = <<>>
  BY DEF Init
<1>2. 1 \in 1..Len(program)
  <2>1. program \in Seq(Function) /\ program # <<>>
    BY <1>1, ProgramsAssumption
  <2> HIDE DEF Function
  <2>2. QED
    BY <2>1
<1>3. Compiling(BuildSSA(program[1]), program[1], {}, 0, 0)
  BY <1>1, <1>2, StartCompiling
<1>4. cur.b = 0 /\ cur.i = 0 /\ cur \in [b : Nat, i : Nat]
  BY <1>1
<1>5. code \in Seq(Seq(BlockRec)) /\ Len(code) = 0 /\ \A n \in 1..Len(code) : FALSE
  <2> HIDE DEF BlockRec
  <2> QED
    BY <1>1
<1>6. Len(code) = fn - 1 /\ fn \in 1..Len(program)
  BY <1>1, <1>2, <1>5
<1>7. Compiling(blocks, program[fn], done, cur.b, cur.i)
  BY <1>1, <1>3, <1>4
<1>8. QED
  BY <1>1, <1>4, <1>5, <1>6, <1>7 DEF PassInv

\* One more function is compiled.
LEMMA CompiledNext ==
  ASSUME PassInv, PassEnd
  PROVE  /\ code' \in Seq(Seq(BlockRec)) /\ Len(code') = fn
         /\ \A n \in 1..Len(code') : Compiled(code'[n], program[n])
<1>1. phase = "pass" /\ cur.b = 0 /\ DOMAIN blocks \subseteq done /\ code' = Append(code, blocks)
  BY DEF PassEnd
<1>2. /\ code \in Seq(Seq(BlockRec)) /\ fn \in 1..Len(program) /\ Len(code) = fn - 1
      /\ Compiling(blocks, program[fn], done, cur.b, cur.i) /\ \A n \in 1..Len(code) : Compiled(code[n], program[n])
  BY <1>1 DEF PassInv
<1>3. blocks \in Seq(BlockRec) /\ BlocksOK(blocks, Src(program[fn])) /\ CurOK(blocks, done, cur.b, cur.i)
  BY <1>2 DEF Compiling, BlocksOK
<1>4. DOMAIN blocks = 1..Len(blocks)
  <2> HIDE DEF BlockRec
  <2> QED
    BY <1>3
<1>5. ASSUME NEW b \in 1..Len(blocks) PROVE Quiet(blocks[b])
  <2>1. b \in done
    BY <1>1, <1>4
  <2>2. b # cur.b
    BY <1>1
  <2>3. QED
    BY <2>1, <2>2, <1>3 DEF CurOK
<1>6. Compiled(blocks, program[fn])
  BY <1>3, <1>5 DEF Compiled
<1>7. fn \in Nat
  BY <1>2
<1>8. /\ code' \in Seq(Seq(BlockRec)) /\ Len(code') = fn /\ code'[fn] = blocks
      /\ \A n \in 1..Len(code) : code'[n] = code[n]
  <2> DEFINE T == Seq(BlockRec)
  <2>1. code \in Seq(T) /\ blocks \in T
    BY <1>2, <1>3
  <2> HIDE DEF T
  <2>2. code' \in Seq(T) /\ Len(code') = fn /\ code'[fn] = blocks /\ \A n \in 1..Len(code) : code'[n] = code[n]
    BY <2>1, <1>1, <1>2, <1>7
  <2>3. QED
    BY <2>2 DEF T
<1>9. ASSUME NEW n \in 1..fn PROVE Compiled(code'[n], program[n])
  <2>1. CASE n = fn
    BY <2>1, <1>6, <1>8
  <2>2. CASE n # fn
    <3>1. n \in 1..Len(code)
      BY <2>2, <1>2, <1>7
    <3>2. QED
      BY <3>1, <1>2, <1>8
  <2>3. QED
    BY <2>1, <2>2
<1>10. QED
  BY <1>8, <1>9

\* The pass keeps its invariant.
LEMMA PassStep ==
  ASSUME PassInv, [Next]_vars
  PROVE  PassInv'
<1> USE DEF PassInv
<1>1. program \in Programs
  OBVIOUS
<1>2. program \in Seq(Function) /\ Len(program) \in Nat
  <2>1. program \in Seq(Function)
    BY <1>1, ProgramsAssumption
  <2> HIDE DEF Function
  <2>2. QED
    BY <2>1
<1>3. ASSUME UNCHANGED <<program, compiling>> PROVE PassInv'
  BY <1>3 DEF compiling
<1>4. CASE PassBlock \/ PassBlockEnd \/ PassSkip
  <2>1. phase = "pass" /\ UNCHANGED <<program, phase, fn, blocks, code>>
    BY <1>4 DEF PassBlock, PassBlockEnd, PassSkip, AtValue
  <2>2. Compiling(blocks, program[fn], done', cur'.b, cur'.i) /\ cur' \in [b : Nat, i : Nat]
    BY <2>1, <1>4, PassMoves
  <2>3. QED
    BY <2>1, <2>2
<1>5. CASE PassVmem \/ PassPmem \/ PassTest
  <2>1. phase = "pass" /\ UNCHANGED <<program, phase, fn, code>>
    BY <1>5 DEF PassVmem, PassPmem, PassTest, NeedsLog, IsMarked, AtValue
  <2>2. Count(program[fn]) \in Nat
    BY <2>1, <1>1, FunctionStart
  <2>3. Compiling(blocks', program[fn], done', cur'.b, cur'.i) /\ cur' \in [b : Nat, i : Nat]
    BY <2>1, <2>2, <1>5, PassWrites
  <2>4. QED
    BY <2>1, <2>3
<1>6. CASE PassPanics
  <2>1. phase = "pass" /\ phase' = "failed" /\ UNCHANGED <<program, fn, blocks, done, cur, code>>
    BY <1>6 DEF PassPanics, NeedsLog, IsMarked, AtValue
  <2>2. QED
    BY <2>1
<1>7. CASE PassEnd
  <2>1. /\ code' \in Seq(Seq(BlockRec)) /\ Len(code') = fn
        /\ \A n \in 1..Len(code') : Compiled(code'[n], program[n])
    BY <1>7, CompiledNext
  <2>2. phase = "pass" /\ cur.b = 0 /\ fn' = fn + 1 /\ UNCHANGED <<program, cur>> /\ fn \in 1..Len(program)
    BY <1>7 DEF PassEnd
  <2>3. cur'.b = 0 /\ cur' \in [b : Nat, i : Nat] /\ cur'.i \in Nat
    BY <2>2
  <2>4. CASE fn < Len(program)
    <3>1. blocks' = BuildSSA(program[fn + 1]) /\ done' = {} /\ phase' = "pass"
      BY <2>4, <1>7 DEF PassEnd
    <3>2. fn' \in 1..Len(program) /\ fn + 1 \in 1..Len(program) /\ Len(code') = fn' - 1
      BY <2>1, <2>2, <2>4, <1>2
    <3>3. Compiling(BuildSSA(program[fn + 1]), program[fn + 1], {}, 0, 0)
      BY <3>2, <1>1, StartCompiling
    <3>4. Compiling(blocks', program'[fn'], done', cur'.b, cur'.i)
      <4>1. Compiling(blocks', program[fn + 1], {}, 0, 0)
        BY <3>1, <3>3
      <4>2. CurOK(blocks', {}, 0, cur'.i)
        BY <4>1, <2>3 DEF Compiling, CurOK
      <4>3. Compiling(blocks', program[fn + 1], {}, 0, cur'.i)
        BY <4>1, <4>2 DEF Compiling
      <4>4. QED
        BY <4>3, <3>1, <2>2, <2>3
    <3>5. QED
      BY <3>1, <3>2, <3>4, <2>1, <2>2, <2>3
  <2>5. CASE ~(fn < Len(program))
    <3>1. blocks' = <<>> /\ done' = {} /\ phase' = "run"
      BY <2>5, <1>7 DEF PassEnd
    <3>2. fn = Len(program)
      BY <2>2, <2>5, <1>2
    <3>3. QED
      BY <3>1, <3>2, <2>1, <2>2, <2>3
  <2>6. QED
    BY <2>4, <2>5
<1>8. CASE Run
  <2>1. UNCHANGED <<program, compiling>>
    BY <1>8 DEF Run, Start, GetTxHandle, NewTxHandle, Begin, RunStore, RunLog, RunCall, RunJump, RunReturn, End, Release, Leave
  <2>2. QED
    BY <2>1, <1>3
<1>9. CASE UNCHANGED vars
  <2>1. UNCHANGED <<program, compiling>>
    BY <1>9 DEF vars
  <2>2. QED
    BY <2>1, <1>3
<1>10. QED
  BY <1>4, <1>5, <1>6, <1>7, <1>8, <1>9 DEF Next, LogStorePass

------------------------------------------------------------------------------
(* The stores and calls of a function, with and without its branch.        *)

Eff         == {Effect(v) : v \in SrcVal}
EffOf(vals) == [i \in DOMAIN vals |-> Effect(vals[i])]

\* Path 1 takes the branch and path 2 does not.
PathOf(src, k) == IF k = 1 THEN Cat(Cat(EffOf(src[1]), EffOf(src[2])), EffOf(src[3]))
                  ELSE Cat(EffOf(src[1]), EffOf(src[3]))

\* How much of it comes before statement list r.
Offs(src, k, r) == IF r = 1 THEN 0 ELSE IF r = 2 THEN Len(src[1])
                   ELSE IF k = 1 THEN Len(src[1]) + Len(src[2]) ELSE Len(src[1])

SrcTyped(src) == \A r \in 1..3 : src[r] \in Seq(SrcVal) /\ Len(src[r]) \in Nat

IsPath(P, src, k) ==
  /\ P \in Seq(Eff) /\ Len(P) = Offs(src, k, 3) + Len(src[3])
  /\ \A r \in 1..3 : (k = 2 => r # 2) =>
        /\ Offs(src, k, r) \in Nat /\ Offs(src, k, r) + Len(src[r]) <= Len(P)
        /\ \A j \in 1..Len(src[r]) : P[Offs(src, k, r) + j] = Effect(src[r][j])

\* Appending to a sequence.
LEMMA AppendFacts ==
  ASSUME NEW S, NEW s \in Seq(S), NEW x \in S, NEW t, t = Append(s, x), NEW n, n = Len(s)
  PROVE  t \in Seq(S) /\ n \in Nat /\ Len(t) = n + 1 /\ t[n + 1] = x /\ \A j \in 1..n : t[j] = s[j]
OBVIOUS

\* The effects of a row of values.
LEMMA EffSeq ==
  ASSUME NEW S \in Seq(SrcVal), NEW E, E = EffOf(S)
  PROVE  E \in Seq(Eff) /\ Len(E) = Len(S) /\ \A j \in 1..Len(S) : E[j] = Effect(S[j])
<1>1. PICK n : n = Len(S)
  OBVIOUS
<1>2. n \in Nat /\ DOMAIN S = 1..n /\ \A j \in 1..n : S[j] \in SrcVal
  <2> HIDE DEF SrcVal
  <2> QED
    BY <1>1
<1>3. \A j \in 1..n : Effect(S[j]) \in Eff
  BY <1>2 DEF Eff
<1>4. E = [j \in 1..n |-> Effect(S[j])]
  BY <1>2 DEF EffOf
<1>5. E \in [1..n -> Eff] /\ \A j \in 1..n : E[j] = Effect(S[j])
  BY <1>3, <1>4
<1>6. E \in Seq(Eff) /\ Len(E) = n
  BY <1>2, <1>5
<1>7. QED
  BY <1>1, <1>5, <1>6

\* Both paths.
LEMMA PathFacts ==
  ASSUME NEW src, SrcTyped(src), NEW k \in {1, 2}
  PROVE  IsPath(PathOf(src, k), src, k)
<1>1. PICK a, b, c : a = Len(src[1]) /\ b = Len(src[2]) /\ c = Len(src[3])
  OBVIOUS
<1>2. /\ src[1] \in Seq(SrcVal) /\ src[2] \in Seq(SrcVal) /\ src[3] \in Seq(SrcVal) /\ a \in Nat /\ b \in Nat /\ c \in Nat
  BY <1>1 DEF SrcTyped
<1>3. PICK A, B, C : A = EffOf(src[1]) /\ B = EffOf(src[2]) /\ C = EffOf(src[3])
  OBVIOUS
<1>4. A \in Seq(Eff) /\ Len(A) = a /\ \A j \in 1..a : A[j] = Effect(src[1][j])
  BY <1>1, <1>2, <1>3, EffSeq
<1>5. B \in Seq(Eff) /\ Len(B) = b /\ \A j \in 1..b : B[j] = Effect(src[2][j])
  BY <1>1, <1>2, <1>3, EffSeq
<1>6. C \in Seq(Eff) /\ Len(C) = c /\ \A j \in 1..c : C[j] = Effect(src[3][j])
  BY <1>1, <1>2, <1>3, EffSeq
<1>7. PICK P : P = PathOf(src, k)
  OBVIOUS
<1>8. CASE k = 1
  <2>1. PICK D : D = Cat(A, B)
    OBVIOUS
  <2>2. D \in Seq(Eff) /\ IsCat(D, A, B)
    BY <2>1, <1>4, <1>5, CatFacts
  <2>3. Len(D) = a + b /\ (\A j \in 1..a : D[j] = A[j]) /\ (\A j \in 1..b : D[a + j] = B[j])
    BY <2>2, <1>4, <1>5 DEF IsCat
  <2>4. P = Cat(D, C)
    BY <2>1, <1>3, <1>7, <1>8 DEF PathOf
  <2>5. P \in Seq(Eff) /\ IsCat(P, D, C)
    BY <2>2, <2>4, <1>6, CatFacts
  <2>6. Len(P) = (a + b) + c /\ (\A j \in 1..(a + b) : P[j] = D[j]) /\ (\A j \in 1..c : P[(a + b) + j] = C[j])
    BY <2>3, <2>5, <1>6 DEF IsCat
  <2>7. Offs(src, k, 1) = 0 /\ Offs(src, k, 2) = a /\ Offs(src, k, 3) = a + b
    BY <1>1, <1>8 DEF Offs
  <2>8. ASSUME NEW j \in 1..a PROVE P[0 + j] = Effect(src[1][j])
    <3>1. j \in 1..(a + b) /\ 0 + j = j
      BY <1>2
    <3>2. QED
      BY <3>1, <2>3, <2>6, <1>4
  <2>9. ASSUME NEW j \in 1..b PROVE P[a + j] = Effect(src[2][j])
    <3>1. a + j \in 1..(a + b)
      BY <1>2
    <3>2. QED
      BY <3>1, <2>3, <2>6, <1>5
  <2>10. ASSUME NEW j \in 1..c PROVE P[(a + b) + j] = Effect(src[3][j])
    BY <2>6, <1>6
  <2>11. ASSUME NEW r \in 1..3
         PROVE  /\ Offs(src, k, r) \in Nat /\ Offs(src, k, r) + Len(src[r]) <= Len(P)
                /\ \A j \in 1..Len(src[r]) : P[Offs(src, k, r) + j] = Effect(src[r][j])
    <3>1. CASE r = 1
      <4>1. 0 + a <= (a + b) + c
        BY <1>2
      <4>2. Offs(src, k, r) = 0 /\ Len(src[r]) = a /\ src[r] = src[1]
        BY <3>1, <2>7, <1>1
      <4>3. \A j \in 1..a : P[0 + j] = Effect(src[r][j])
        BY <4>2, <2>8
      <4>4. Offs(src, k, r) \in Nat /\ Offs(src, k, r) + Len(src[r]) <= Len(P)
        BY <4>1, <4>2, <2>6, <1>2
      <4>5. \A j \in 1..Len(src[r]) : P[Offs(src, k, r) + j] = Effect(src[r][j])
        BY <4>2, <4>3
      <4>6. QED
        BY <4>4, <4>5
    <3>2. CASE r = 2
      <4>1. a + b <= (a + b) + c
        BY <1>2
      <4>2. Offs(src, k, r) = a /\ Len(src[r]) = b /\ src[r] = src[2]
        BY <3>2, <2>7, <1>1
      <4>3. \A j \in 1..b : P[a + j] = Effect(src[r][j])
        BY <4>2, <2>9
      <4>4. Offs(src, k, r) \in Nat /\ Offs(src, k, r) + Len(src[r]) <= Len(P)
        BY <4>1, <4>2, <2>6, <1>2
      <4>5. \A j \in 1..Len(src[r]) : P[Offs(src, k, r) + j] = Effect(src[r][j])
        BY <4>2, <4>3
      <4>6. QED
        BY <4>4, <4>5
    <3>3. CASE r = 3
      <4>1. (a + b) + c <= (a + b) + c /\ a + b \in Nat
        BY <1>2
      <4>2. Offs(src, k, r) = a + b /\ Len(src[r]) = c /\ src[r] = src[3]
        BY <3>3, <2>7, <1>1
      <4>3. \A j \in 1..c : P[(a + b) + j] = Effect(src[r][j])
        BY <4>2, <2>10
      <4>4. Offs(src, k, r) \in Nat /\ Offs(src, k, r) + Len(src[r]) <= Len(P)
        BY <4>1, <4>2, <2>6, <1>2
      <4>5. \A j \in 1..Len(src[r]) : P[Offs(src, k, r) + j] = Effect(src[r][j])
        BY <4>2, <4>3
      <4>6. QED
        BY <4>4, <4>5
    <3>4. QED
      BY <3>1, <3>2, <3>3
  <2>12. QED
    BY <2>5, <2>6, <2>7, <2>11, <1>1, <1>7 DEF IsPath
<1>9. CASE k = 2
  <2>4. P = Cat(A, C)
    BY <1>3, <1>7, <1>9 DEF PathOf
  <2>5. P \in Seq(Eff) /\ IsCat(P, A, C)
    BY <2>4, <1>4, <1>6, CatFacts
  <2>6. Len(P) = a + c /\ (\A j \in 1..a : P[j] = A[j]) /\ (\A j \in 1..c : P[a + j] = C[j])
    BY <2>5, <1>4, <1>6 DEF IsCat
  <2>7. Offs(src, k, 1) = 0 /\ Offs(src, k, 3) = a
    BY <1>1, <1>9 DEF Offs
  <2>8. ASSUME NEW j \in 1..a PROVE P[0 + j] = Effect(src[1][j])
    BY <2>6, <1>4
  <2>10. ASSUME NEW j \in 1..c PROVE P[a + j] = Effect(src[3][j])
    BY <2>6, <1>6
  <2>11. ASSUME NEW r \in 1..3, r # 2
         PROVE  /\ Offs(src, k, r) \in Nat /\ Offs(src, k, r) + Len(src[r]) <= Len(P)
                /\ \A j \in 1..Len(src[r]) : P[Offs(src, k, r) + j] = Effect(src[r][j])
    <3>1. CASE r = 1
      <4>1. 0 + a <= a + c
        BY <1>2
      <4>2. Offs(src, k, r) = 0 /\ Len(src[r]) = a /\ src[r] = src[1]
        BY <3>1, <2>7, <1>1
      <4>3. \A j \in 1..a : P[0 + j] = Effect(src[r][j])
        BY <4>2, <2>8
      <4>4. Offs(src, k, r) \in Nat /\ Offs(src, k, r) + Len(src[r]) <= Len(P)
        BY <4>1, <4>2, <2>6, <1>2
      <4>5. \A j \in 1..Len(src[r]) : P[Offs(src, k, r) + j] = Effect(src[r][j])
        BY <4>2, <4>3
      <4>6. QED
        BY <4>4, <4>5
    <3>3. CASE r = 3
      <4>1. a + c <= a + c
        BY <1>2
      <4>2. Offs(src, k, r) = a /\ Len(src[r]) = c /\ src[r] = src[3]
        BY <3>3, <2>7, <1>1
      <4>3. \A j \in 1..c : P[a + j] = Effect(src[r][j])
        BY <4>2, <2>10
      <4>4. Offs(src, k, r) \in Nat /\ Offs(src, k, r) + Len(src[r]) <= Len(P)
        BY <4>1, <4>2, <2>6, <1>2
      <4>5. \A j \in 1..Len(src[r]) : P[Offs(src, k, r) + j] = Effect(src[r][j])
        BY <4>2, <4>3
      <4>6. QED
        BY <4>4, <4>5
    <3>4. QED
      BY <3>1, <3>3, <2>11
  <2>12. QED
    BY <2>5, <2>6, <2>7, <2>11, <1>1, <1>7, <1>9 DEF IsPath
<1>10. QED
  BY <1>8, <1>9

\* A run that has done p values of statement list r.
RunOn(ran, src, k, r, p) ==
  /\ k = 2 => r # 2
  /\ p \in 0..Len(src[r]) /\ Len(ran) = Offs(src, k, r) + p
  /\ \A j \in 1..Len(ran) : ran[j] = PathOf(src, k)[j]

RunAt(ran, src, r, p) == ran \in Seq(Eff) /\ \E k \in {1, 2} : RunOn(ran, src, k, r, p)

\* At the start nothing is done.
LEMMA RunFirst ==
  ASSUME NEW src, SrcTyped(src), NEW ran, ran = <<>>
  PROVE  RunAt(ran, src, 1, 0)
<1>1. ran \in Seq(Eff) /\ Len(ran) = 0
  OBVIOUS
<1>2. Len(src[1]) \in Nat /\ Offs(src, 1, 1) = 0
  BY DEF SrcTyped, Offs
<1>3. RunOn(ran, src, 1, 1, 0)
  BY <1>1, <1>2 DEF RunOn
<1>4. QED
  BY <1>1, <1>3 DEF RunAt

\* The next value.
LEMMA RunNext ==
  ASSUME NEW src, SrcTyped(src), NEW ran, NEW r \in 1..3, NEW p \in Nat, RunAt(ran, src, r, p), NEW q, q = p + 1, q \in 1..Len(src[r])
  PROVE  RunAt(Append(ran, Effect(src[r][q])), src, r, q)
<1>1. PICK k \in {1, 2} : RunOn(ran, src, k, r, p)
  BY DEF RunAt
<1>2. PICK P, o, n, x, m, R : /\ P = PathOf(src, k) /\ o = Offs(src, k, r) /\ n = Len(ran) /\ x = Effect(src[r][q]) /\ m = Len(src[r])
                              /\ R = Append(ran, x)
  OBVIOUS
<1>3. ran \in Seq(Eff) /\ n \in Nat /\ (k = 2 => r # 2) /\ n = o + p /\ \A j \in 1..n : ran[j] = P[j]
  <2>1. ran \in Seq(Eff)
    BY DEF RunAt
  <2>2. QED
    BY <2>1, <1>1, <1>2 DEF RunOn
<1>4. IsPath(P, src, k)
  BY <1>2, PathFacts
<1>5. P \in Seq(Eff) /\ o \in Nat /\ o + m <= Len(P) /\ \A j \in 1..m : P[o + j] = Effect(src[r][j])
  BY <1>2, <1>3, <1>4 DEF IsPath
<1>6. m \in Nat /\ q \in 1..m /\ q \in Nat
  BY <1>2 DEF SrcTyped
<1>7. P[o + q] = x /\ o + q = n + 1
  <2>1. P[o + q] = x
    BY <1>2, <1>5, <1>6
  <2>2. o + q = n + 1
    BY <1>3, <1>5
  <2>3. QED
    BY <2>1, <2>2
<1>8. x \in Eff
  <2>1. o + q \in 1..Len(P)
    BY <1>5, <1>6
  <2>2. QED
    BY <2>1, <1>5, <1>7
<1>9. R \in Seq(Eff) /\ Len(R) = n + 1 /\ R[n + 1] = x /\ \A j \in 1..n : R[j] = ran[j]
  <2>1. R = Append(ran, x) /\ n = Len(ran) /\ ran \in Seq(Eff) /\ x \in Eff
    BY <1>2, <1>3, <1>8
  <2> HIDE DEF Eff
  <2>2. QED
    BY <2>1, AppendFacts
<1>10. ASSUME NEW j \in 1..(n + 1) PROVE R[j] = P[j]
  <2>1. CASE j = n + 1
    BY <2>1, <1>7, <1>9
  <2>2. CASE j # n + 1
    <3>1. j \in 1..n
      BY <2>2, <1>3
    <3>2. QED
      BY <3>1, <1>3, <1>9
  <2>3. QED
    BY <2>1, <2>2
<1>11. q \in 0..m /\ n + 1 = o + q
  BY <1>6, <1>7
<1>12. RunOn(R, src, k, r, q)
  BY <1>2, <1>3, <1>9, <1>10, <1>11 DEF RunOn
<1>13. QED
  BY <1>2, <1>9, <1>12 DEF RunAt

\* From the end of a block to the next: both paths agree on the head.
LEMMA RunEdge ==
  ASSUME NEW src, SrcTyped(src), NEW ran, NEW r \in 1..3, NEW p, RunAt(ran, src, r, p),
         NEW r2 \in 1..3, NEW p2, Edge(src, r, p, r2, p2)
  PROVE  RunAt(ran, src, r2, p2)
<1>1. PICK k \in {1, 2} : RunOn(ran, src, k, r, p)
  BY DEF RunAt
<1>2. CASE r2 = r /\ p2 = p
  BY <1>2
<1>3. CASE r < r2 /\ p = Len(src[r]) /\ p2 = 0
  <2>1. PICK a, b, c : a = Len(src[1]) /\ b = Len(src[2]) /\ c = Len(src[3])
    OBVIOUS
  <2>2. a \in Nat /\ b \in Nat /\ c \in Nat
    BY <2>1 DEF SrcTyped
  <2>3. ran \in Seq(Eff)
    BY DEF RunAt
  <2>4. (k = 2 => r # 2) /\ Len(ran) = Offs(src, k, r) + p /\ \A j \in 1..Len(ran) : ran[j] = PathOf(src, k)[j]
    BY <1>1 DEF RunOn
  <2>5. p2 \in 0..Len(src[r2])
    <3>1. Len(src[r2]) \in Nat
      BY DEF SrcTyped
    <3>2. QED
      BY <3>1, <1>3
  <2>6. CASE r = 2
    <3>1. r2 = 3 /\ k = 1
      BY <2>4, <2>6, <1>3
    <3>2. Offs(src, k, r) = a /\ Offs(src, k, r2) = a + b /\ p = b
      BY <3>1, <2>1, <2>6, <1>3 DEF Offs
    <3>3. Len(ran) = Offs(src, k, r2) + p2
      BY <3>2, <2>2, <2>4, <1>3
    <3>4. RunOn(ran, src, k, r2, p2)
      BY <3>1, <3>3, <2>4, <2>5 DEF RunOn
    <3>5. QED
      BY <3>4, <2>3 DEF RunAt
  <2>7. CASE r = 1 /\ r2 = 3
    <3>1. PICK k2 : k2 = 2
      OBVIOUS
    <3>2. Offs(src, k, r) = 0 /\ Offs(src, k2, r2) = a /\ p = a
      BY <3>1, <2>1, <2>7, <1>3 DEF Offs
    <3>3. Len(ran) = a /\ Len(ran) = Offs(src, k2, r2) + p2
      BY <3>2, <2>2, <2>4, <1>3
    <3>4. \A j \in 1..Len(ran) : ran[j] = PathOf(src, k2)[j]
      <4>1. k2 \in {1, 2}
        BY <3>1
      <4>2. IsPath(PathOf(src, k), src, k) /\ IsPath(PathOf(src, k2), src, k2)
        BY <4>1, PathFacts
      <4>3. Offs(src, k, 1) = 0 /\ Offs(src, k2, 1) = 0
        BY DEF Offs
      <4>4. ASSUME NEW x \in {1, 2}, IsPath(PathOf(src, x), src, x), NEW j \in 1..a
            PROVE  PathOf(src, x)[j] = Effect(src[1][j])
        <5>1. Offs(src, x, 1) = 0 /\ 0 + j = j
          BY <2>2 DEF Offs
        <5>2. PathOf(src, x)[Offs(src, x, 1) + j] = Effect(src[1][j])
          BY <4>4, <2>1 DEF IsPath
        <5>3. QED
          BY <5>1, <5>2
      <4>5. QED
        BY <4>1, <4>2, <4>4, <3>3, <2>4
    <3>5. RunOn(ran, src, k2, r2, p2)
      BY <3>1, <3>3, <3>4, <2>5, <2>7 DEF RunOn
    <3>6. QED
      BY <3>1, <3>5, <2>3 DEF RunAt
  <2>8. CASE r = 1 /\ r2 = 2
    <3>1. PICK k2 : k2 = 1
      OBVIOUS
    <3>2. Offs(src, k, r) = 0 /\ Offs(src, k2, r2) = a /\ p = a
      BY <3>1, <2>1, <2>8, <1>3 DEF Offs
    <3>3. Len(ran) = a /\ Len(ran) = Offs(src, k2, r2) + p2
      BY <3>2, <2>2, <2>4, <1>3
    <3>4. \A j \in 1..Len(ran) : ran[j] = PathOf(src, k2)[j]
      <4>1. k2 \in {1, 2}
        BY <3>1
      <4>2. IsPath(PathOf(src, k), src, k) /\ IsPath(PathOf(src, k2), src, k2)
        BY <4>1, PathFacts
      <4>4. ASSUME NEW x \in {1, 2}, IsPath(PathOf(src, x), src, x), NEW j \in 1..a
            PROVE  PathOf(src, x)[j] = Effect(src[1][j])
        <5>1. Offs(src, x, 1) = 0 /\ 0 + j = j
          BY <2>2 DEF Offs
        <5>2. PathOf(src, x)[Offs(src, x, 1) + j] = Effect(src[1][j])
          BY <4>4, <2>1 DEF IsPath
        <5>3. QED
          BY <5>1, <5>2
      <4>5. QED
        BY <4>1, <4>2, <4>4, <3>3, <2>4
    <3>5. RunOn(ran, src, k2, r2, p2)
      BY <3>1, <3>3, <3>4, <2>5, <2>8 DEF RunOn
    <3>6. QED
      BY <3>1, <3>5, <2>3 DEF RunAt
  <2>9. QED
    BY <2>6, <2>7, <2>8, <1>3
<1>4. QED
  BY <1>2, <1>3 DEF Edge

\* What ran so far is the beginning of one of the paths.
RunDone(ran, src) == \E k \in {1, 2} : ran = PathOf(src, k)
RunPart(ran, src) == \E k \in {1, 2} : IsPrefix(ran, PathOf(src, k))

\* A sequence that agrees with another as far as it goes.
LEMMA Agree ==
  ASSUME NEW S, NEW s \in Seq(S), NEW t \in Seq(S), Len(s) <= Len(t), \A j \in 1..Len(s) : s[j] = t[j]
  PROVE  IsPrefix(s, t) /\ (Len(s) = Len(t) => s = t)
<1>1. PICK n, m : n = Len(s) /\ m = Len(t)
  OBVIOUS
<1>2. n \in Nat /\ m \in Nat /\ n <= m /\ \A j \in 1..n : s[j] = t[j]
  BY <1>1
<1>3. PICK x, y : x = SubSeq(s, 1, n) /\ y = SubSeq(t, 1, n)
  OBVIOUS
<1>4. /\ x \in Seq(S) /\ y \in Seq(S) /\ Len(x) = n /\ Len(y) = n
      /\ \A j \in 1..n : x[j] = s[j] /\ y[j] = t[j]
  BY <1>1, <1>2, <1>3
<1>5. x = y
  <2>1. DOMAIN x = 1..n /\ DOMAIN y = 1..n /\ x = [j \in DOMAIN x |-> x[j]] /\ y = [j \in DOMAIN y |-> y[j]]
    BY <1>4
  <2>2. \A j \in 1..n : x[j] = y[j]
    BY <1>2, <1>4
  <2>3. QED
    BY <2>1, <2>2
<1>6. IsPrefix(s, t)
  BY <1>1, <1>2, <1>3, <1>5 DEF IsPrefix
<1>7. ASSUME n = m PROVE s = t
  <2>1. DOMAIN s = 1..n /\ DOMAIN t = 1..m /\ s = [j \in DOMAIN s |-> s[j]] /\ t = [j \in DOMAIN t |-> t[j]]
    BY <1>1
  <2>2. QED
    BY <2>1, <1>2, <1>7
<1>8. QED
  BY <1>1, <1>6, <1>7

\* Where a run is, it is on a path; at the end it is through.
LEMMA RunFacts ==
  ASSUME NEW src, SrcTyped(src), NEW ran, NEW r \in 1..3, NEW p, RunAt(ran, src, r, p)
  PROVE  RunPart(ran, src) /\ (r = 3 /\ p = Len(src[3]) => RunDone(ran, src))
<1>1. PICK k \in {1, 2} : RunOn(ran, src, k, r, p)
  BY DEF RunAt
<1>2. PICK P, o, m : P = PathOf(src, k) /\ o = Offs(src, k, r) /\ m = Len(src[r])
  OBVIOUS
<1>3. /\ (k = 2 => r # 2) /\ p \in 0..m /\ Len(ran) = o + p /\ \A j \in 1..Len(ran) : ran[j] = P[j]
  BY <1>1, <1>2 DEF RunOn
<1>4. IsPath(P, src, k)
  BY <1>2, PathFacts
<1>5. P \in Seq(Eff) /\ o \in Nat /\ o + m <= Len(P) /\ Len(P) = Offs(src, k, 3) + Len(src[3])
  BY <1>2, <1>3, <1>4 DEF IsPath
<1>6. m \in Nat /\ ran \in Seq(Eff) /\ Len(P) \in Nat
  <2>1. m \in Nat
    BY <1>2 DEF SrcTyped
  <2>2. ran \in Seq(Eff)
    BY DEF RunAt
  <2> HIDE DEF Eff
  <2>3. Len(P) \in Nat
    BY <1>5
  <2>4. QED
    BY <2>1, <2>2, <2>3
<1>7. Len(ran) <= Len(P)
  BY <1>3, <1>5, <1>6
<1>8. IsPrefix(ran, P) /\ (Len(ran) = Len(P) => ran = P)
  <2> HIDE DEF Eff
  <2> QED
    BY <1>3, <1>5, <1>6, <1>7, Agree
<1>9. RunPart(ran, src)
  BY <1>2, <1>8 DEF RunPart
<1>10. ASSUME r = 3, p = Len(src[3]) PROVE RunDone(ran, src)
  <2>1. Len(ran) = Len(P)
    BY <1>2, <1>3, <1>5, <1>10
  <2>2. QED
    BY <2>1, <1>2, <1>8 DEF RunDone
<1>11. QED
  BY <1>9, <1>10


------------------------------------------------------------------------------
(* A call that is in the body of its block.                                *)

\* The log u has word w of object o.
Covers(u, o, w) == \E e \in 1..Len(u) : u[e].obj = o /\ w \in DOMAIN u[e].old
InLog(u, v)     == v.st.obj \in Persistent => \A w \in Span(v.s) : Covers(u, v.st.obj, w)

Grows(u2, u) == Len(u) <= Len(u2) /\ \A e \in 1..Len(u) : u2[e] = u[e]

\* Before value i: what had to be logged so far is, and what value i stores if it has to be.
Recorded(u, vals, S, f, i) ==
  /\ \A k \in 1..f[i - 1] : Needs(S[k]) => InLog(u, S[k])
  /\ i > 1 /\ vals[i - 1].op = "log" => InLog(u, vals[i - 1])
  /\ i <= Len(vals) /\ NeedsHere(vals[i], S, f[i]) => InLog(u, vals[i])

BodyAt(bs, src, reg, pos, b, i, ran, u) ==
  /\ PlaceOK(bs, src, reg, pos)
  /\ b \in 1..Len(bs) /\ i \in 1..(Len(bs[b].vals) + 1)
  /\ RunAt(ran, src, reg[b], pos[b][i - 1])
  /\ Recorded(u, bs[b].vals, src[reg[b]], pos[b], i)

InBody(bs, src, b, i, ran, u) == \E reg, pos : BodyAt(bs, src, reg, pos, b, i, ran, u)

\* A function whose blocks are compiled.
Ready(bs, src) == BlocksOK(bs, src) /\ SrcTyped(src) /\ \A b \in 1..Len(bs) : Quiet(bs[b])

\* A longer log covers what a shorter one does.
LEMMA InLogGrows ==
  ASSUME NEW u, NEW u2, Len(u) \in Nat, Len(u2) \in Nat, Grows(u2, u), NEW v, InLog(u, v)
  PROVE  InLog(u2, v)
<1>1. ASSUME NEW o, NEW w, Covers(u, o, w) PROVE Covers(u2, o, w)
  <2>1. PICK e \in 1..Len(u) : u[e].obj = o /\ w \in DOMAIN u[e].old
    BY <1>1 DEF Covers
  <2>2. e \in 1..Len(u2) /\ u2[e] = u[e]
    BY DEF Grows
  <2>3. QED
    BY <2>1, <2>2 DEF Covers
<1>2. QED
  BY <1>1 DEF InLog

\* A call deeper in the stack keeps its place when the log grows.
LEMMA BodyGrows ==
  ASSUME NEW u, NEW u2, Len(u) \in Nat, Len(u2) \in Nat, Grows(u2, u),
         NEW bs, NEW src, NEW b, NEW i, NEW ran, InBody(bs, src, b, i, ran, u)
  PROVE  InBody(bs, src, b, i, ran, u2)
<1>1. PICK reg, pos : BodyAt(bs, src, reg, pos, b, i, ran, u)
  BY DEF InBody
<1>2. Recorded(u, bs[b].vals, src[reg[b]], pos[b], i)
  BY <1>1 DEF BodyAt
<1>3. PICK vals, S, f : vals = bs[b].vals /\ S = src[reg[b]] /\ f = pos[b]
  OBVIOUS
<1>4. \A v : InLog(u, v) => InLog(u2, v)
  BY InLogGrows
<1>5. Recorded(u, vals, S, f, i)
  BY <1>2, <1>3
<1>6. Recorded(u2, vals, S, f, i)
  BY <1>4, <1>5, Zenon DEF Recorded
<1>7. BodyAt(bs, src, reg, pos, b, i, ran, u2)
  BY <1>1, <1>3, <1>6 DEF BodyAt
<1>8. QED
  BY <1>7 DEF InBody

\* What a body says of the value that is next.
Here(bs, src, reg, pos, b, i, r, S, f, vals, m) ==
  /\ r = reg[b] /\ S = src[r] /\ f = pos[b] /\ vals = bs[b].vals /\ m = Len(vals)
  /\ r \in 1..3 /\ f \in [Nat -> Nat] /\ m \in Nat /\ b \in 1..Len(bs) /\ i \in 1..(m + 1)
  /\ vals \in Seq(CodeVal) /\ S \in Seq(SrcVal) /\ Len(S) \in Nat
  /\ ValsOK(vals, S, f) /\ \A j \in 1..m : ~Marked(vals[j])

\* A call in its body is at a value of its block, or at its end.
LEMMA BodyHere ==
  ASSUME NEW bs, NEW src, Ready(bs, src), NEW reg, NEW pos, NEW b, NEW i, NEW ran, NEW u, BodyAt(bs, src, reg, pos, b, i, ran, u)
  PROVE  \E r, S, f, vals, m : /\ Here(bs, src, reg, pos, b, i, r, S, f, vals, m)
                               /\ RunAt(ran, src, r, f[i - 1]) /\ Recorded(u, vals, S, f, i)
<1>1. PICK r, S, f, vals, m : r = reg[b] /\ S = src[r] /\ f = pos[b] /\ vals = bs[b].vals /\ m = Len(vals)
  OBVIOUS
<1>2. PlaceOK(bs, src, reg, pos) /\ b \in 1..Len(bs) /\ i \in 1..(m + 1) /\ RunAt(ran, src, r, f[i - 1]) /\ Recorded(u, vals, S, f, i)
  BY <1>1 DEF BodyAt
<1>3. bs \in Seq(BlockRec) /\ Quiet(bs[b]) /\ SrcTyped(src)
  BY <1>2 DEF Ready, BlocksOK
<1>4. vals \in Seq(CodeVal) /\ m \in Nat
  BY <1>1, <1>2, <1>3, BlockType
<1>5. r \in 1..3 /\ f \in [Nat -> Nat]
  BY <1>1, <1>2 DEF PlaceOK
<1>6. S \in Seq(SrcVal) /\ Len(S) \in Nat
  BY <1>1, <1>3, <1>5 DEF SrcTyped
<1>7. ValsOK(vals, S, f)
  BY <1>1, <1>2 DEF PlaceOK
<1>8. \A j \in 1..m : ~Marked(vals[j])
  BY <1>1, <1>3 DEF Quiet
<1>9. QED
  BY <1>1, <1>2, <1>4, <1>5, <1>6, <1>7, <1>8 DEF Here

\* Entering the body: nothing in the first block is logged by a block before it.
LEMMA BodyEnter ==
  ASSUME NEW bs, NEW src, Ready(bs, src), NEW ran, ran = <<>>, NEW u
  PROVE  InBody(bs, src, 1, 1, ran, u)
<1>1. BlocksOK(bs, src) /\ SrcTyped(src)
  BY DEF Ready
<1>2. bs \in Seq(BlockRec) /\ Len(bs) >= 3 /\ \E reg, pos : PlaceOK(bs, src, reg, pos)
  BY <1>1 DEF BlocksOK
<1>3. PICK reg, pos : PlaceOK(bs, src, reg, pos)
  BY <1>2
<1>4. 1 \in 1..Len(bs)
  <2>1. Len(bs) \in Nat
    <3> HIDE DEF BlockRec
    <3> QED
      BY <1>2
  <2>2. QED
    BY <2>1, <1>2
<1>5. PICK vals, S, f, m : vals = bs[1].vals /\ S = src[reg[1]] /\ f = pos[1] /\ m = Len(vals)
  OBVIOUS
<1>6. m \in Nat
  BY <1>2, <1>4, <1>5, BlockType
<1>7. reg[1] = 1 /\ f[0] = 0 /\ FirstOK(bs, 1, S, f)
  BY <1>3, <1>4, <1>5 DEF PlaceOK
<1>8. RunAt(ran, src, reg[1], f[1 - 1])
  <2>1. 1 - 1 = 0
    OBVIOUS
  <2>2. RunAt(ran, src, 1, 0)
    BY <1>1, RunFirst
  <2>3. QED
    BY <2>1, <2>2, <1>7
<1>9. ~(1 <= m /\ NeedsHere(vals[1], S, f[1]))
  <2>1. SUFFICES ASSUME 1 <= m, NeedsHere(vals[1], S, f[1]) PROVE FALSE
    OBVIOUS
  <2>2. m >= 1
    BY <2>1, <1>6
  <2>3. QED
    BY <2>1, <2>2, <1>5, <1>7 DEF FirstOK
<1>10. Recorded(u, vals, S, f, 1)
  <2>1. 1..f[1 - 1] = {} /\ ~(1 > 1)
    BY <1>7
  <2>2. QED
    BY <2>1, <1>5, <1>9 DEF Recorded
<1>11. 1 \in 1..(m + 1)
  BY <1>6
<1>12. BodyAt(bs, src, reg, pos, 1, 1, ran, u)
  BY <1>3, <1>4, <1>5, <1>8, <1>10, <1>11 DEF BodyAt
<1>13. QED
  BY <1>12 DEF InBody

\* An index that is not at the end.
LEMMA InnerIndex ==
  ASSUME NEW m \in Nat, NEW i \in 1..(m + 1), i <= m
  PROVE  i \in 1..m /\ i - 1 \in Nat /\ i \in Nat /\ i + 1 \in 1..(m + 1) /\ (i + 1) - 1 = i
OBVIOUS

\* The same block, at another value.
LEMMA BodyMoves ==
  ASSUME NEW bs, NEW src, NEW reg, NEW pos, NEW b, NEW i, NEW ran, NEW u, BodyAt(bs, src, reg, pos, b, i, ran, u),
         NEW r, NEW S, NEW f, NEW vals, NEW m, Here(bs, src, reg, pos, b, i, r, S, f, vals, m),
         NEW i2, i2 \in 1..(m + 1), NEW ran2, RunAt(ran2, src, r, f[i2 - 1]), NEW u2, Recorded(u2, vals, S, f, i2)
  PROVE  InBody(bs, src, b, i2, ran2, u2)
<1>1. PlaceOK(bs, src, reg, pos) /\ b \in 1..Len(bs)
  BY DEF BodyAt
<1>2. r = reg[b] /\ S = src[reg[b]] /\ f = pos[b] /\ vals = bs[b].vals /\ m = Len(bs[b].vals)
  BY DEF Here
<1>3. RunAt(ran2, src, reg[b], pos[b][i2 - 1]) /\ Recorded(u2, bs[b].vals, src[reg[b]], pos[b], i2) /\ i2 \in 1..(Len(bs[b].vals) + 1)
  BY <1>2
<1>4. BodyAt(bs, src, reg, pos, b, i2, ran2, u2)
  BY <1>1, <1>3 DEF BodyAt
<1>5. QED
  BY <1>4 DEF InBody

\* A store or a call is one of the source; what had to be logged up to it is in the log.
LEMMA ValueHere ==
  ASSUME NEW bs, NEW src, NEW reg, NEW pos, NEW b, NEW i, NEW r, NEW S, NEW f, NEW vals, NEW m,
         Here(bs, src, reg, pos, b, i, r, S, f, vals, m), i <= m, vals[i].op \in {"store", "call"},
         NEW u, Recorded(u, vals, S, f, i)
  PROVE  \E p \in Nat, q \in Nat : /\ p = f[i - 1] /\ q = f[i] /\ q = p + 1 /\ q \in 1..Len(S) /\ Same(vals[i], S[q])
                                   /\ \A k \in 1..q : Needs(S[k]) => InLog(u, S[k])
<1>1. /\ f \in [Nat -> Nat] /\ m \in Nat /\ m = Len(vals) /\ i \in 1..(m + 1) /\ ValsOK(vals, S, f)
      /\ \A j \in 1..m : ~Marked(vals[j])
  BY DEF Here
<1>2. i \in 1..m /\ i - 1 \in Nat /\ i \in Nat
  BY <1>1, InnerIndex
<1>3. PICK p, q : p = f[i - 1] /\ q = f[i]
  OBVIOUS
<1>4. p \in Nat /\ q \in Nat
  BY <1>1, <1>2, <1>3
<1>5. q = p + 1 /\ q \in 1..Len(S) /\ Same(vals[i], S[q])
  <2>1. Carried(vals[i], S, f[i - 1], f[i])
    BY <1>1, <1>2 DEF ValsOK
  <2>2. QED
    BY <2>1, <1>3 DEF Carried
<1>6. ASSUME NEW k \in 1..q, Needs(S[k]) PROVE InLog(u, S[k])
  <2>1. CASE k # q
    <3>1. k \in 1..p
      BY <2>1, <1>4, <1>5
    <3>2. \A x \in 1..p : Needs(S[x]) => InLog(u, S[x])
      BY <1>3 DEF Recorded
    <3>3. QED
      BY <3>1, <3>2, <1>6
  <2>2. CASE k = q
    <3>1. S[q].op = "store"
      BY <2>2, <1>6 DEF Needs
    <3>2. vals[i].op = "store" /\ vals[i].s = S[q].s /\ vals[i].st = S[q].st
      BY <3>1, <1>5 DEF Same
    <3>3. ~vals[i].mark
      BY <3>2, <1>1, <1>2 DEF Marked
    <3>4. NeedsHere(vals[i], S, f[i])
      BY <3>2, <3>3, <2>2, <1>3, <1>6 DEF NeedsHere
    <3>5. InLog(u, vals[i])
      BY <3>4, <1>1 DEF Recorded
    <3>6. QED
      BY <3>2, <3>5, <2>2 DEF InLog
  <2>3. QED
    BY <2>1, <2>2
<1>7. QED
  BY <1>3, <1>4, <1>5, <1>6

\* After a store or a call.
LEMMA BodyValue ==
  ASSUME NEW bs, NEW src, Ready(bs, src), NEW b, NEW i, NEW ran, NEW u, InBody(bs, src, b, i, ran, u),
         NEW v, v = bs[b].vals[i], i <= Len(bs[b].vals), v.op \in {"store", "call"}
  PROVE  InBody(bs, src, b, i + 1, Append(ran, Effect(v)), u)
<1>1. PICK reg, pos : BodyAt(bs, src, reg, pos, b, i, ran, u)
  BY DEF InBody
<1>2. PICK r, S, f, vals, m : /\ Here(bs, src, reg, pos, b, i, r, S, f, vals, m)
                              /\ RunAt(ran, src, r, f[i - 1]) /\ Recorded(u, vals, S, f, i)
  BY <1>1, BodyHere
<1>3. /\ r \in 1..3 /\ S = src[r] /\ f \in [Nat -> Nat] /\ m \in Nat /\ m = Len(vals) /\ i \in 1..(m + 1)
      /\ ValsOK(vals, S, f) /\ vals = bs[b].vals
  BY <1>2 DEF Here
<1>4. i <= m /\ v = vals[i] /\ i \in 1..m /\ i + 1 \in 1..(m + 1) /\ (i + 1) - 1 = i
  <2>1. i <= m /\ v = vals[i] /\ m \in Nat /\ i \in 1..(m + 1)
    BY <1>3
  <2>2. QED
    BY <2>1, InnerIndex
<1>5. PICK p \in Nat, q \in Nat : /\ p = f[i - 1] /\ q = f[i] /\ q = p + 1 /\ q \in 1..Len(S) /\ Same(vals[i], S[q])
                                  /\ \A k \in 1..q : Needs(S[k]) => InLog(u, S[k])
  BY <1>2, <1>4, ValueHere
<1>6. Effect(v) = Effect(S[q])
  BY <1>4, <1>5 DEF Same, Effect
<1>7. RunAt(Append(ran, Effect(v)), src, r, f[(i + 1) - 1])
  <2>1. SrcTyped(src)
    BY DEF Ready
  <2>2. RunAt(ran, src, r, p) /\ q \in 1..Len(src[r])
    BY <1>2, <1>3, <1>5
  <2>3. RunAt(Append(ran, Effect(src[r][q])), src, r, q)
    BY <2>1, <2>2, <1>3, <1>5, RunNext
  <2>4. QED
    BY <2>3, <1>3, <1>4, <1>5, <1>6
<1>8. Recorded(u, vals, S, f, i + 1)
  <2>1. \A k \in 1..f[(i + 1) - 1] : Needs(S[k]) => InLog(u, S[k])
    BY <1>4, <1>5
  <2>2. vals[(i + 1) - 1].op # "log"
    BY <1>4
  <2>3. i + 1 <= m => ~NeedsHere(vals[i + 1], S, f[i + 1])
    <3>1. SUFFICES ASSUME i + 1 <= m, NeedsHere(vals[i + 1], S, f[i + 1]) PROVE FALSE
      OBVIOUS
    <3>2. i + 1 \in 2..m
      BY <3>1, <1>3, <1>4
    <3>3. IsLogOf(vals[(i + 1) - 1], vals[i + 1])
      BY <3>1, <3>2, <1>3 DEF ValsOK
    <3>4. QED
      BY <3>3, <2>2 DEF IsLogOf
  <2>4. QED
    BY <2>1, <2>2, <2>3, <1>3 DEF Recorded
<1>9. QED
  BY <1>1, <1>2, <1>4, <1>7, <1>8, BodyMoves

\* After a log.
LEMMA BodyLog ==
  ASSUME NEW bs, NEW src, Ready(bs, src), NEW b, NEW i, NEW ran, NEW u, InBody(bs, src, b, i, ran, u),
         NEW v, v = bs[b].vals[i], i <= Len(bs[b].vals), v.op = "log",
         NEW u2, Len(u) \in Nat, Len(u2) = Len(u) + 1, Grows(u2, u),
         u2[Len(u) + 1].obj = v.st.obj, DOMAIN u2[Len(u) + 1].old = Span(v.s)
  PROVE  InBody(bs, src, b, i + 1, ran, u2)
<1>1. PICK reg, pos : BodyAt(bs, src, reg, pos, b, i, ran, u)
  BY DEF InBody
<1>2. PICK r, S, f, vals, m : /\ Here(bs, src, reg, pos, b, i, r, S, f, vals, m)
                              /\ RunAt(ran, src, r, f[i - 1]) /\ Recorded(u, vals, S, f, i)
  BY <1>1, BodyHere
<1>3. /\ r \in 1..3 /\ S = src[r] /\ f \in [Nat -> Nat] /\ m \in Nat /\ m = Len(vals) /\ i \in 1..(m + 1)
      /\ ValsOK(vals, S, f) /\ vals = bs[b].vals
  BY <1>2 DEF Here
<1>4. i <= m /\ v = vals[i] /\ i \in 1..m /\ i + 1 \in 1..(m + 1) /\ (i + 1) - 1 = i
  <2>1. i <= m /\ v = vals[i] /\ m \in Nat /\ i \in 1..(m + 1)
    BY <1>3
  <2>2. QED
    BY <2>1, InnerIndex
<1>5. f[i] = f[i - 1]
  <2>1. Carried(vals[i], S, f[i - 1], f[i])
    BY <1>3, <1>4 DEF ValsOK
  <2>2. QED
    BY <2>1, <1>4 DEF Carried
<1>6. \A x : InLog(u, x) => InLog(u2, x)
  <2>1. Len(u2) \in Nat
    OBVIOUS
  <2>2. QED
    BY <2>1, InLogGrows
<1>7. InLog(u2, v)
  <2>1. Len(u) + 1 \in 1..Len(u2)
    OBVIOUS
  <2>2. \A w \in Span(v.s) : Covers(u2, v.st.obj, w)
    BY <2>1 DEF Covers
  <2>3. QED
    BY <2>2 DEF InLog
<1>8. RunAt(ran, src, r, f[(i + 1) - 1])
  BY <1>2, <1>4, <1>5
<1>9. Recorded(u2, vals, S, f, i + 1)
  <2>1. \A k \in 1..f[(i + 1) - 1] : Needs(S[k]) => InLog(u2, S[k])
    <3>1. \A k \in 1..f[i - 1] : Needs(S[k]) => InLog(u, S[k])
      BY <1>2 DEF Recorded
    <3>2. QED
      BY <3>1, <1>4, <1>5, <1>6
  <2>2. InLog(u2, vals[(i + 1) - 1])
    BY <1>4, <1>7
  <2>3. ASSUME i + 1 <= m, NeedsHere(vals[i + 1], S, f[i + 1]) PROVE InLog(u2, vals[i + 1])
    <3>2. i + 1 \in 2..m
      BY <2>3, <1>3, <1>4
    <3>3. IsLogOf(vals[(i + 1) - 1], vals[i + 1])
      BY <2>3, <3>2, <1>3 DEF ValsOK
    <3>4. v.s = vals[i + 1].s /\ v.st = vals[i + 1].st
      BY <3>3, <1>4 DEF IsLogOf
    <3>5. QED
      BY <3>4, <1>7 DEF InLog
  <2>4. QED
    BY <2>1, <2>2, <2>3, <1>3 DEF Recorded
<1>10. QED
  BY <1>1, <1>2, <1>4, <1>8, <1>9, BodyMoves

\* A jump: k is the successor that is taken, test says that a test decides.
Jumps(B, i, k, c, test) ==
  /\ k \in DOMAIN B.succs /\ c = B.succs[k]
  /\ test => /\ i <= Len(B.vals) /\ B.vals[i].op = "inpmem"
             /\ k = (IF B.vals[i].st.obj \in Persistent THEN 1 ELSE 2)
  /\ ~test => i > Len(B.vals) /\ B.kind \in {"if", "plain"}

\* A jump leaves a block at its end.
LEMMA JumpHere ==
  ASSUME NEW bs, TestsOK(bs), NEW src, NEW reg, NEW pos, NEW b, NEW i, NEW r, NEW S, NEW f, NEW vals, NEW m,
         Here(bs, src, reg, pos, b, i, r, S, f, vals, m), NEW k, NEW c, NEW test \in BOOLEAN, Jumps(bs[b], i, k, c, test)
  PROVE  f[i - 1] = f[m] /\ (test => i = m /\ vals[m].op = "inpmem") /\ (~test => i = m + 1)
<1>1. m \in Nat /\ m = Len(vals) /\ i \in 1..(m + 1) /\ ValsOK(vals, S, f) /\ vals = bs[b].vals /\ b \in 1..Len(bs)
  BY DEF Here
<1>2. CASE test
  <2>1. i <= m /\ vals[i].op = "inpmem"
    BY <1>1, <1>2 DEF Jumps
  <2>2. i \in 1..m
    BY <2>1, <1>1, InnerIndex
  <2>3. i = m
    BY <2>1, <2>2, <1>1 DEF TestsOK
  <2>4. Carried(vals[i], S, f[i - 1], f[i])
    BY <2>2, <1>1 DEF ValsOK
  <2>5. f[i] = f[i - 1]
    BY <2>1, <2>4 DEF Carried
  <2>6. QED
    BY <2>1, <2>3, <2>5, <1>2
<1>3. CASE ~test
  <2>1. i > m
    BY <1>1, <1>3 DEF Jumps
  <2>2. i = m + 1 /\ i - 1 = m
    <3>1. m \in Nat /\ i \in 1..(m + 1)
      BY <1>1
    <3>2. QED
      BY <3>1, <2>1
  <2>3. QED
    BY <2>2, <1>3
<1>4. QED
  BY <1>2, <1>3

\* The first value of the next block is logged on the way to it.
LEMMA JumpLogged ==
  ASSUME NEW bs, NEW b, NEW i, NEW vals, NEW m \in Nat, vals = bs[b].vals, m = Len(vals), NEW u, NEW S, NEW f, Recorded(u, vals, S, f, i),
         NEW k, NEW c, NEW test \in BOOLEAN, Jumps(bs[b], i, k, c, test), test => i = m /\ vals[m].op = "inpmem", ~test => i = m + 1,
         NEW v, LogsFor(bs[b], c, v)
  PROVE  InLog(u, v)
<1>1. CASE m = 1 /\ IsLogOf(vals[1], v)
  <2>1. ~test
    BY <1>1 DEF IsLogOf
  <2>2. i > 1 /\ i - 1 = 1
    BY <2>1, <1>1
  <2>3. InLog(u, vals[1])
    BY <2>2, <1>1 DEF Recorded, IsLogOf
  <2>4. QED
    BY <2>3, <1>1 DEF IsLogOf, InLog
<1>2. CASE /\ bs[b].kind = "inpmem" /\ m >= 1 /\ vals[m].op = "inpmem" /\ vals[m].st = v.st
           /\ Len(bs[b].succs) = 2 /\ bs[b].succs[2] = c /\ bs[b].succs[1] # c
  <2>1. test
    BY <1>2 DEF Jumps
  <2>2. k = (IF v.st.obj \in Persistent THEN 1 ELSE 2) /\ c = bs[b].succs[k]
    BY <2>1, <1>2 DEF Jumps
  <2>3. v.st.obj \notin Persistent
    BY <2>2, <1>2
  <2>4. QED
    BY <2>3 DEF InLog
<1>3. QED
  BY <1>1, <1>2 DEF LogsFor

\* After a jump.
LEMMA BodyJump ==
  ASSUME NEW bs, NEW src, Ready(bs, src), NEW b, NEW i, NEW ran, NEW u, InBody(bs, src, b, i, ran, u),
         NEW k, NEW c, NEW test \in BOOLEAN, Jumps(bs[b], i, k, c, test)
  PROVE  InBody(bs, src, c, 1, ran, u)
<1>1. PICK reg, pos : BodyAt(bs, src, reg, pos, b, i, ran, u)
  BY DEF InBody
<1>2. PICK r, S, f, vals, m : /\ Here(bs, src, reg, pos, b, i, r, S, f, vals, m)
                              /\ RunAt(ran, src, r, f[i - 1]) /\ Recorded(u, vals, S, f, i)
  BY <1>1, BodyHere
<1>3. /\ r \in 1..3 /\ r = reg[b] /\ S = src[r] /\ f = pos[b] /\ m \in Nat /\ m = Len(vals) /\ i \in 1..(m + 1)
      /\ ValsOK(vals, S, f) /\ vals = bs[b].vals /\ b \in 1..Len(bs)
  BY <1>2 DEF Here
<1>4. TestsOK(bs) /\ GraphOK(bs) /\ SrcTyped(src) /\ bs \in Seq(BlockRec)
  BY DEF Ready, BlocksOK
<1>5. f[i - 1] = f[m] /\ (test => i = m /\ vals[m].op = "inpmem") /\ (~test => i = m + 1)
  BY <1>2, <1>4, JumpHere
<1>6. c \in Succs(bs[b]) /\ c \in 1..Len(bs)
  <2>1. c \in Succs(bs[b])
    BY DEF Jumps, Succs, Range
  <2>2. DOMAIN bs = 1..Len(bs)
    <3> HIDE DEF BlockRec
    <3> QED
      BY <1>4
  <2>3. c \in DOMAIN bs
    BY <2>1, <2>2, <1>3, <1>4 DEF GraphOK, Succs
  <2>4. QED
    BY <2>1, <2>2, <2>3
<1>7. PlaceOK(bs, src, reg, pos)
  BY <1>1 DEF BodyAt
<1>8. PICK r2, S2, f2, vals2, m2 : r2 = reg[c] /\ S2 = src[r2] /\ f2 = pos[c] /\ vals2 = bs[c].vals /\ m2 = Len(vals2)
  OBVIOUS
<1>9. r2 \in 1..3 /\ m2 \in Nat /\ FirstOK(bs, c, S2, f2) /\ Edge(src, r, f[m], r2, f2[0])
  <2>1. r2 \in 1..3
    BY <1>6, <1>7, <1>8 DEF PlaceOK
  <2>2. m2 \in Nat
    BY <1>4, <1>6, <1>8, BlockType
  <2>3. FirstOK(bs, c, S2, f2)
    BY <1>6, <1>7, <1>8 DEF PlaceOK
  <2>4. Edge(src, reg[b], pos[b][Len(bs[b].vals)], reg[c], pos[c][0])
    BY <1>3, <1>6, <1>7 DEF PlaceOK
  <2>5. QED
    BY <2>1, <2>2, <2>3, <2>4, <1>3, <1>8
<1>10. RunAt(ran, src, r2, f2[1 - 1])
  <2>1. RunAt(ran, src, r, f[m])
    BY <1>2, <1>5
  <2>2. RunAt(ran, src, r2, f2[0])
    BY <2>1, <1>3, <1>4, <1>9, RunEdge
  <2>3. QED
    BY <2>2
<1>11. Recorded(u, vals2, S2, f2, 1)
  <2>1. \A x \in 1..f2[1 - 1] : Needs(S2[x]) => InLog(u, S2[x])
    <3>1. \A x \in 1..f[m] : Needs(S[x]) => InLog(u, S[x])
      BY <1>2, <1>5 DEF Recorded
    <3>2. 1 - 1 = 0
      OBVIOUS
    <3>3. CASE r2 = r /\ f2[0] = f[m]
      BY <3>1, <3>2, <3>3, <1>3, <1>8
    <3>4. CASE f2[0] = 0
      <4>1. 1..0 = {}
        OBVIOUS
      <4>2. QED
        BY <4>1, <3>2, <3>4
    <3>5. QED
      BY <3>3, <3>4, <1>9 DEF Edge
  <2>2. ASSUME 1 <= m2, NeedsHere(vals2[1], S2, f2[1]) PROVE InLog(u, vals2[1])
    <3>1. m2 >= 1
      BY <2>2, <1>9
    <3>2. LogsFor(bs[b], c, vals2[1])
      BY <3>1, <2>2, <1>3, <1>6, <1>8, <1>9 DEF FirstOK
    <3>3. QED
      BY <3>2, <1>2, <1>3, <1>5, JumpLogged
  <2>3. ~(1 > 1)
    OBVIOUS
  <2>4. QED
    BY <2>1, <2>2, <2>3, <1>8 DEF Recorded
<1>12. 1 \in 1..(m2 + 1)
  BY <1>9
<1>13. BodyAt(bs, src, reg, pos, c, 1, ran, u)
  BY <1>6, <1>7, <1>8, <1>10, <1>11, <1>12 DEF BodyAt
<1>14. QED
  BY <1>13 DEF InBody

\* What ran is on a path, and at a return it is all of one.
LEMMA BodyRan ==
  ASSUME NEW bs, NEW src, Ready(bs, src), NEW b, NEW i, NEW ran, NEW u, InBody(bs, src, b, i, ran, u)
  PROVE  /\ RunPart(ran, src) /\ b \in 1..Len(bs)
         /\ i > Len(bs[b].vals) /\ bs[b].kind = "ret" => RunDone(ran, src)
<1>1. PICK reg, pos : BodyAt(bs, src, reg, pos, b, i, ran, u)
  BY DEF InBody
<1>2. PICK r, S, f, vals, m : /\ Here(bs, src, reg, pos, b, i, r, S, f, vals, m)
                              /\ RunAt(ran, src, r, f[i - 1]) /\ Recorded(u, vals, S, f, i)
  BY <1>1, BodyHere
<1>3. /\ r \in 1..3 /\ r = reg[b] /\ f = pos[b] /\ m \in Nat /\ m = Len(vals) /\ i \in 1..(m + 1)
      /\ vals = bs[b].vals /\ b \in 1..Len(bs)
  BY <1>2 DEF Here
<1>4. SrcTyped(src)
  BY DEF Ready
<1>5. RunPart(ran, src)
  BY <1>2, <1>3, <1>4, RunFacts
<1>6. ASSUME i > m, bs[b].kind = "ret" PROVE RunDone(ran, src)
  <2>1. i - 1 = m
    <3>1. m \in Nat /\ i \in 1..(m + 1)
      BY <1>3
    <3>2. QED
      BY <3>1, <1>6
  <2>2. PlaceOK(bs, src, reg, pos)
    BY <1>1 DEF BodyAt
  <2>3. reg[b] = 3 /\ pos[b][Len(bs[b].vals)] = Len(src[3])
    BY <2>2, <1>3, <1>6 DEF PlaceOK
  <2>4. r = 3 /\ f[i - 1] = Len(src[3])
    BY <2>1, <2>3, <1>3
  <2>5. QED
    BY <2>4, <1>2, <1>4, RunFacts
<1>7. QED
  BY <1>3, <1>5, <1>6

\* What a store changes in persistent memory is in the log or is not covered by it.
LEMMA BodyStore ==
  ASSUME NEW bs, NEW src, Ready(bs, src), NEW l, SrcOK(src, l), NEW b, NEW i, NEW ran, NEW u, InBody(bs, src, b, i, ran, u),
         NEW v, v = bs[b].vals[i], i <= Len(bs[b].vals)
  PROVE  /\ v \in CodeVal
         /\ v.op = "call" => l >= 2
         /\ v.op = "store" /\ v.st.obj \in Persistent =>
              \A w \in v.s.words : w \in Uncovered(v.st) \/ Covers(u, v.st.obj, w)
<1>1. PICK reg, pos : BodyAt(bs, src, reg, pos, b, i, ran, u)
  BY DEF InBody
<1>2. PICK r, S, f, vals, m : /\ Here(bs, src, reg, pos, b, i, r, S, f, vals, m)
                              /\ RunAt(ran, src, r, f[i - 1]) /\ Recorded(u, vals, S, f, i)
  BY <1>1, BodyHere
<1>3. /\ r \in 1..3 /\ S = src[r] /\ vals \in Seq(CodeVal) /\ m \in Nat /\ m = Len(vals) /\ i \in 1..(m + 1) /\ vals = bs[b].vals
  BY <1>2 DEF Here
<1>4. i <= m /\ v = vals[i] /\ i \in 1..m
  <2>1. i <= m /\ v = vals[i] /\ m \in Nat /\ i \in 1..(m + 1)
    BY <1>3
  <2>2. QED
    BY <2>1, InnerIndex
<1>5. v \in CodeVal
  <2> HIDE DEF CodeVal
  <2> QED
    BY <1>3, <1>4
<1>6. CoveredSrc(S) /\ \A j \in 1..Len(S) : S[j].op = "call" => l >= 2
  BY <1>3 DEF SrcOK
<1>7. CASE v.op \in {"store", "call"}
  <2>1. PICK p \in Nat, q \in Nat : /\ p = f[i - 1] /\ q = f[i] /\ q = p + 1 /\ q \in 1..Len(S) /\ Same(vals[i], S[q])
                                    /\ \A k \in 1..q : Needs(S[k]) => InLog(u, S[k])
    BY <1>2, <1>4, <1>7, ValueHere
  <2>2. S[q].op = v.op /\ (v.op = "store" => v.s = S[q].s /\ v.st = S[q].st)
    BY <2>1, <1>4 DEF Same
  <2>3. ASSUME v.op = "store", v.st.obj \in Persistent, NEW w \in v.s.words
        PROVE  w \in Uncovered(v.st) \/ Covers(u, v.st.obj, w)
    <3>1. S[q].op = "store" /\ S[q].st.obj \in Persistent /\ w \in S[q].s.words /\ S[q].st = v.st
      BY <2>2, <2>3
    <3>2. \/ w \in Uncovered(S[q].st)
          \/ \E k \in 1..q : Needs(S[k]) /\ S[k].st.obj = S[q].st.obj /\ w \in Span(S[k].s)
      BY <3>1, <2>1, <1>6 DEF CoveredSrc
    <3>3. CASE w \in Uncovered(S[q].st)
      BY <3>1, <3>3
    <3>4. ASSUME NEW k \in 1..q, Needs(S[k]), S[k].st.obj = S[q].st.obj, w \in Span(S[k].s)
          PROVE  Covers(u, v.st.obj, w)
      <4>1. InLog(u, S[k])
        BY <3>4, <2>1
      <4>2. S[k].st.obj \in Persistent /\ S[k].st.obj = v.st.obj
        BY <3>1, <3>4
      <4>3. QED
        BY <4>1, <4>2, <3>4 DEF InLog
    <3>5. QED
      BY <3>2, <3>3, <3>4
  <2>4. v.op = "call" => l >= 2
    BY <2>1, <2>2, <1>6
  <2>5. QED
    BY <2>3, <2>4, <1>5
<1>8. QED
  BY <1>5, <1>7

------------------------------------------------------------------------------
(* The calls under way.                                                    *)

PCs   == {"get", "new", "begin", "body", "end", "release"}
Frame == [fn : Nat, pc : PCs, b : Nat, i : Nat, ran : Seq(Eff)]

FrameOK(fr, cd, pr, u) ==
  /\ fr \in Frame /\ fr.fn \in 1..Len(cd)
  /\ fr.pc \in {"get", "new", "begin"} => fr.b = 1 /\ fr.i = 1 /\ fr.ran = <<>>
  /\ fr.pc = "body" => InBody(cd[fr.fn], Src(pr[fr.fn]), fr.b, fr.i, fr.ran, u)
  /\ fr.pc \in {"end", "release"} => RunDone(fr.ran, Src(pr[fr.fn]))

\* All calls but the innermost are in the body of their block.
Stack(fs, cd, pr, u) ==
  /\ fs \in Seq(Frame)
  /\ \A n \in 1..Len(fs) : FrameOK(fs[n], cd, pr, u)
  /\ \A n \in 1..(Len(fs) - 1) : fs[n].pc = "body"

IsSeqOf(u) == \E S : u \in Seq(S)

\* The length of a sequence.
LEMMA SeqLen ==
  ASSUME NEW u, IsSeqOf(u)
  PROVE  Len(u) \in Nat /\ DOMAIN u = 1..Len(u)
BY DEF IsSeqOf

\* A call that is not the innermost one keeps its place when the log grows.
LEMMA FrameGrows ==
  ASSUME NEW fr, NEW cd, NEW pr, NEW u, FrameOK(fr, cd, pr, u), NEW u2, Len(u) \in Nat, Len(u2) \in Nat, Grows(u2, u)
  PROVE  FrameOK(fr, cd, pr, u2)
<1>1. fr.pc = "body" => InBody(cd[fr.fn], Src(pr[fr.fn]), fr.b, fr.i, fr.ran, u2)
  BY BodyGrows DEF FrameOK
<1>2. QED
  BY <1>1 DEF FrameOK

\* A log is as long as itself.
LEMMA GrowsSame ==
  ASSUME NEW u, Len(u) \in Nat
  PROVE  Grows(u, u)
BY DEF Grows

\* fs2 is fs with another innermost call.
IsSet(fs2, fs, n, x) == Len(fs2) = n /\ fs2[n] = x /\ \A j \in 1..(n - 1) : fs2[j] = fs[j]

\* Sequences of calls.
LEMMA SetLast ==
  ASSUME NEW fs \in Seq(Frame), NEW n, n = Len(fs), n # 0, NEW x \in Frame, NEW fs2, fs2 = [fs EXCEPT ![n] = x]
  PROVE  fs2 \in Seq(Frame) /\ IsSet(fs2, fs, n, x)
<1> HIDE DEF Frame
<1>1. n \in Nat /\ n \in 1..n /\ \A j \in 1..(n - 1) : j \in 1..n /\ j # n
  OBVIOUS
<1>2. fs \in [1..n -> Frame]
  OBVIOUS
<1>3. fs2 \in [1..n -> Frame] /\ fs2[n] = x /\ \A j \in 1..n : j # n => fs2[j] = fs[j]
  BY <1>1, <1>2
<1>4. fs2 \in Seq(Frame) /\ Len(fs2) = n
  BY <1>1, <1>3
<1>5. QED
  BY <1>1, <1>3, <1>4 DEF IsSet

\* fs2 is fs without its last call.
IsPop(fs2, fs, n) == n = Len(fs) /\ n # 0 /\ fs2 = Front(fs)

\* The sequence without its last element.
LEMMA DropLast ==
  ASSUME NEW fs \in Seq(Frame), NEW n, NEW fs2, IsPop(fs2, fs, n)
  PROVE  fs2 \in Seq(Frame) /\ Len(fs2) = n - 1 /\ \A j \in 1..(n - 1) : fs2[j] = fs[j]
<1> HIDE DEF Frame
<1>0. n = Len(fs) /\ n # 0 /\ fs2 = SubSeq(fs, 1, n - 1)
  <2>1. n = Len(fs) /\ n # 0 /\ fs2 = Front(fs)
    BY DEF IsPop
  <2>2. QED
    BY <2>1, Zenon DEF Front
<1>1. n \in Nat /\ n - 1 \in Nat /\ fs2 = SubSeq(fs, 1, n - 1)
  BY <1>0
<1>2. QED
  BY <1>0, <1>1

\* An innermost call is replaced; the log stays, grows or is cleared.
LEMMA StackSet ==
  ASSUME NEW fs, NEW cd, NEW pr, NEW u, Stack(fs, cd, pr, u), NEW n, n = Len(fs), n # 0,
         NEW x, NEW u2, FrameOK(x, cd, pr, u2), n = 1 \/ (Len(u) \in Nat /\ Len(u2) \in Nat /\ Grows(u2, u)),
         NEW fs2, fs2 = [fs EXCEPT ![n] = x]
  PROVE  Stack(fs2, cd, pr, u2) /\ IsSet(fs2, fs, n, x)
<1>1. fs \in Seq(Frame) /\ x \in Frame
  BY DEF Stack, FrameOK
<1>2. fs2 \in Seq(Frame) /\ IsSet(fs2, fs, n, x)
  BY <1>1, SetLast
<1>3. n \in Nat
  <2> HIDE DEF Frame
  <2> QED
    BY <1>1
<1>4. Len(fs2) = n /\ fs2[n] = x /\ \A j \in 1..(n - 1) : fs2[j] = fs[j]
  BY <1>2 DEF IsSet
<1>5. ASSUME NEW j \in 1..(n - 1) PROVE fs2[j].pc = "body" /\ FrameOK(fs2[j], cd, pr, u2)
  <2>1. n # 1 /\ j \in 1..n
    BY <1>3
  <2>2. FrameOK(fs[j], cd, pr, u) /\ fs[j].pc = "body"
    BY <2>1 DEF Stack
  <2>3. Len(u) \in Nat /\ Len(u2) \in Nat /\ Grows(u2, u)
    BY <2>1
  <2>4. FrameOK(fs[j], cd, pr, u2)
    BY <2>2, <2>3, FrameGrows
  <2>5. QED
    BY <2>2, <2>4, <1>4
<1>6. \A j \in 1..n : j = n \/ j \in 1..(n - 1)
  BY <1>3
<1>7. \A j \in 1..n : FrameOK(fs2[j], cd, pr, u2)
  BY <1>4, <1>5, <1>6
<1>8. Stack(fs2, cd, pr, u2)
  BY <1>2, <1>4, <1>5, <1>7 DEF Stack
<1>9. QED
  BY <1>2, <1>8

Popped(fs2, n)    == n \in Nat /\ Len(fs2) = n - 1 /\ (n # 1 => fs2[n - 1].pc = "body")

\* The innermost call ends.
LEMMA StackPop ==
  ASSUME NEW fs, NEW cd, NEW pr, NEW u, Stack(fs, cd, pr, u), NEW n, NEW fs2, IsPop(fs2, fs, n)
  PROVE  Stack(fs2, cd, pr, u) /\ Popped(fs2, n)
<1>0. n = Len(fs) /\ n # 0 /\ fs2 = Front(fs)
  BY DEF IsPop
<1>1. fs \in Seq(Frame)
  BY DEF Stack
<1>2. fs2 \in Seq(Frame) /\ Len(fs2) = n - 1 /\ \A j \in 1..(n - 1) : fs2[j] = fs[j]
  BY <1>1, DropLast, Zenon
<1>3. n \in Nat
  <2> HIDE DEF Frame
  <2> QED
    BY <1>0, <1>1
<1>4. \A j \in 1..(n - 1) : j \in 1..n /\ FrameOK(fs[j], cd, pr, u) /\ fs[j].pc = "body"
  <2>1. \A j \in 1..(n - 1) : j \in 1..n
    BY <1>3
  <2>2. QED
    BY <2>1, <1>0 DEF Stack
<1>5. \A j \in 1..((n - 1) - 1) : j \in 1..(n - 1)
  BY <1>3
<1>6. Stack(fs2, cd, pr, u)
  BY <1>2, <1>4, <1>5 DEF Stack
<1>7. n # 1 => n - 1 \in 1..(n - 1)
  BY <1>0, <1>3
<1>8. Popped(fs2, n)
  BY <1>2, <1>3, <1>4, <1>7 DEF Popped
<1>9. QED
  BY <1>6, <1>8

IsPush(fs2, fs, x) == fs2 = Append(fs, x)

\* A call in a body, or the first one.
LEMMA StackPush ==
  ASSUME NEW fs, NEW cd, NEW pr, NEW u, Stack(fs, cd, pr, u), NEW n, n = Len(fs), n = 0 \/ fs[n].pc = "body",
         NEW x, FrameOK(x, cd, pr, u), NEW fs2, IsPush(fs2, fs, x)
  PROVE  Stack(fs2, cd, pr, u) /\ n \in Nat /\ Len(fs2) = n + 1 /\ fs2[n + 1] = x
<1>1. fs \in Seq(Frame) /\ x \in Frame
  BY DEF Stack, FrameOK
<1>2. fs2 \in Seq(Frame) /\ n \in Nat /\ Len(fs2) = n + 1 /\ fs2[n + 1] = x /\ \A j \in 1..n : fs2[j] = fs[j]
  <2> HIDE DEF Frame
  <2> QED
    BY <1>1, AppendFacts DEF IsPush
<1>3. \A j \in 1..n : FrameOK(fs[j], cd, pr, u)
  BY DEF Stack
<1>4. ASSUME NEW j \in 1..n PROVE fs[j].pc = "body"
  <2>1. j = n \/ j \in 1..(n - 1)
    BY <1>2
  <2>2. n # 0
    BY <1>2
  <2>3. QED
    BY <2>1, <2>2 DEF Stack
<1>5. (n + 1) - 1 = n /\ \A j \in 1..(n + 1) : j = n + 1 \/ j \in 1..n
  BY <1>2
<1>6. \A j \in 1..(n + 1) : FrameOK(fs2[j], cd, pr, u)
  BY <1>2, <1>3, <1>5
<1>7. \A j \in 1..((n + 1) - 1) : fs2[j].pc = "body"
  BY <1>2, <1>4, <1>5
<1>8. QED
  BY <1>2, <1>6, <1>7 DEF Stack

\* x is the call fr with other values for some of its fields.
IsFrame(x, f, pc, b, i, ran) == x \in Frame /\ x.fn = f /\ x.pc = pc /\ x.b = b /\ x.i = i /\ x.ran = ran

\* Setting one field of a call.
LEMMA FrameSets ==
  ASSUME NEW t \in Frame
  PROVE  /\ \A pc \in PCs : IsFrame([t EXCEPT !.pc = pc], t.fn, pc, t.b, t.i, t.ran)
         /\ IsFrame([t EXCEPT !.i = @ + 1], t.fn, t.pc, t.b, t.i + 1, t.ran)
         /\ \A ran \in Seq(Eff) : IsFrame([t EXCEPT !.ran = ran], t.fn, t.pc, t.b, t.i, ran)
<1> HIDE DEF Eff, PCs
<1>1. t.fn \in Nat /\ t.pc \in PCs /\ t.b \in Nat /\ t.i \in Nat /\ t.ran \in Seq(Eff) /\ t.i + 1 \in Nat
  BY DEF Frame
<1>2. ASSUME NEW pc \in PCs PROVE IsFrame([t EXCEPT !.pc = pc], t.fn, pc, t.b, t.i, t.ran)
  BY <1>1 DEF IsFrame, Frame
<1>3. IsFrame([t EXCEPT !.i = @ + 1], t.fn, t.pc, t.b, t.i + 1, t.ran)
  BY <1>1 DEF IsFrame, Frame
<1>4. ASSUME NEW ran \in Seq(Eff) PROVE IsFrame([t EXCEPT !.ran = ran], t.fn, t.pc, t.b, t.i, ran)
  BY <1>1 DEF IsFrame, Frame
<1>5. QED
  BY <1>2, <1>3, <1>4

\* Going to another block.
LEMMA FrameJump ==
  ASSUME NEW t \in Frame, NEW c \in Nat
  PROVE  IsFrame([t EXCEPT !.b = c, !.i = 1], t.fn, t.pc, c, 1, t.ran)
<1> HIDE DEF Eff, PCs
<1>1. t.fn \in Nat /\ t.pc \in PCs /\ t.ran \in Seq(Eff)
  BY DEF Frame
<1>2. QED
  BY <1>1 DEF IsFrame, Frame

\* A call that has just been entered.
LEMMA FrameEntered ==
  ASSUME NEW n \in Nat
  PROVE  IsFrame(Entered(n), n, "get", 1, 1, <<>>)
<1>1. "get" \in PCs /\ <<>> \in Seq(Eff) /\ 1 \in Nat
  BY DEF PCs
<1> HIDE DEF Eff, PCs
<1>2. QED
  BY <1>1 DEF IsFrame, Frame, Entered

------------------------------------------------------------------------------
(* The handle and the nesting of the blocks.                               *)

\* n calls are under way and the innermost one is at pc.
Levels(n, pc, lv, lf, g) ==
  /\ n \in Nat /\ lv \in Nat /\ lf \in Nat /\ g \in BOOLEAN
  /\ n = 0 => lv = lf /\ (IF lf > 0 THEN g = TRUE ELSE g = FALSE)
  /\ n # 0 => /\ IF pc \in {"body", "end"} THEN lv = lf + n ELSE lv = lf + (n - 1)
              /\ IF lf > 0 \/ n > 1 \/ pc \in {"begin", "body", "end", "release"} THEN g = TRUE ELSE g = FALSE
              /\ pc = "release" => lv = 0

StackInv == /\ phase # "run" => frames = <<>>
            /\ IsSeqOf(undo)
            /\ Stack(frames, code, program, undo)

LevelInv == /\ Levels(Len(frames), Top.pc, level, left, gtx)
            /\ level = 0 => undo = <<>>

\* The innermost call.
TopAt(n, t) == /\ n = Len(frames) /\ n \in Nat /\ n # 0 /\ t = frames[n] /\ t = Top /\ phase = "run"
               /\ t \in Frame /\ FrameOK(t, code, program, undo) /\ Len(undo) \in Nat
               /\ Ready(code[t.fn], Src(program[t.fn])) /\ SrcOK(Src(program[t.fn]), Len(program))
               /\ Len(code) = Len(program)

\* The functions that are compiled are ready to run.
LEMMA FnReady ==
  ASSUME PassInv, NEW n \in 1..Len(code)
  PROVE  Ready(code[n], Src(program[n])) /\ SrcOK(Src(program[n]), Len(program))
<1>1. program \in Programs /\ Compiled(code[n], program[n]) /\ Len(program) \in Nat
  <2>1. program \in Programs /\ Compiled(code[n], program[n])
    BY DEF PassInv
  <2>2. program \in Seq(Function)
    BY <2>1, ProgramsAssumption
  <2> HIDE DEF Function
  <2>3. Len(program) \in Nat
    BY <2>2
  <2>4. QED
    BY <2>1, <2>3
<1>2. n \in 1..Len(program)
  <2>1. CASE phase = "run"
    BY <2>1 DEF PassInv
  <2>2. CASE phase # "run"
    <3>1. fn \in 1..Len(program) /\ Len(code) = fn - 1
      BY <2>2 DEF PassInv
    <3>2. QED
      BY <3>1, <1>1
  <2>3. QED
    BY <2>1, <2>2
<1>3. SrcOK(Src(program[n]), Len(program))
  BY <1>1, <1>2, FunctionStart
<1>4. SrcTyped(Src(program[n]))
  <2>1. PICK src : src = Src(program[n])
    OBVIOUS
  <2>2. ASSUME NEW r \in 1..3 PROVE src[r] \in Seq(SrcVal) /\ Len(src[r]) \in Nat
    <3>1. src[r] \in Seq(SrcVal)
      BY <2>1, <1>3 DEF SrcOK
    <3> HIDE DEF SrcVal
    <3>2. QED
      BY <3>1
  <2>3. QED
    BY <2>1, <2>2 DEF SrcTyped
<1>5. QED
  BY <1>1, <1>3, <1>4 DEF Ready, Compiled

\* While there are calls the program runs, and the innermost one is as it should be.
LEMMA TopFacts ==
  ASSUME PassInv, StackInv, frames # <<>>
  PROVE  \E n, t : TopAt(n, t)
<1>1. phase = "run" /\ IsSeqOf(undo) /\ Stack(frames, code, program, undo)
  BY DEF StackInv
<1>2. PICK n, t : n = Len(frames) /\ t = frames[n]
  OBVIOUS
<1>3. n \in Nat /\ n # 0 /\ n \in 1..n
  <2>1. frames \in Seq(Frame)
    BY <1>1 DEF Stack
  <2> HIDE DEF Frame
  <2>2. QED
    BY <2>1, <1>2
<1>4. FrameOK(t, code, program, undo)
  BY <1>1, <1>2, <1>3 DEF Stack
<1>5. t \in Frame /\ t.fn \in 1..Len(code)
  BY <1>4 DEF FrameOK
<1>6. Ready(code[t.fn], Src(program[t.fn])) /\ SrcOK(Src(program[t.fn]), Len(program))
  BY <1>5, FnReady
<1>7. Len(undo) \in Nat
  BY <1>1, SeqLen
<1>8. Len(code) = Len(program)
  BY <1>1 DEF PassInv
<1>9. t = Top
  BY <1>2 DEF Top
<1>10. QED
  BY <1>1, <1>2, <1>3, <1>4, <1>5, <1>6, <1>7, <1>8, <1>9 DEF TopAt

\* The innermost call moves on.
LEMMA LevelMoves ==
  ASSUME NEW n, NEW pc, NEW lv, NEW lf, NEW g, Levels(n, pc, lv, lf, g), n # 0
  PROVE  /\ pc = "get" /\ g = TRUE => Levels(n, "begin", lv, lf, g)
         /\ pc = "get" /\ g = FALSE => Levels(n, "new", lv, lf, g)
         /\ pc = "begin" => Levels(n, "body", lv + 1, lf, g) /\ lv + 1 # 0
         /\ pc = "body" => Levels(n, "end", lv, lf, g) /\ Levels(n + 1, "get", lv, lf, g) /\ lv # 0
         /\ pc = "end" => lv # 0
         /\ pc = "end" /\ lv = 1 => n = 1 /\ Levels(n, "release", lv - 1, lf, g)
<1>1. CASE pc = "get"
  BY <1>1 DEF Levels
<1>2. CASE pc = "begin"
  BY <1>2 DEF Levels
<1>3. CASE pc = "body"
  BY <1>3 DEF Levels
<1>4. CASE pc = "end"
  BY <1>4 DEF Levels
<1>5. QED
  BY <1>1, <1>2, <1>3, <1>4

\* initTxHandleInG sets the handle.
LEMMA LevelNew ==
  ASSUME NEW n, NEW lv, NEW lf, NEW g, Levels(n, "new", lv, lf, g), n # 0, NEW g2, g2 = TRUE
  PROVE  Levels(n, "begin", lv, lf, g2)
BY DEF Levels

\* The innermost call ends, or is left.
LEMMA LevelPops ==
  ASSUME NEW n, NEW pc, NEW lv, NEW lf, NEW g, Levels(n, pc, lv, lf, g), n # 0, NEW pc2, n # 1 => pc2 = "body", NEW g2, g2 = FALSE
  PROVE  /\ pc = "end" /\ lv # 1 => Levels(n - 1, pc2, lv - 1, lf, g) /\ lv - 1 # 0
         /\ pc = "release" => Levels(n - 1, pc2, lv, lf, g2)
         /\ pc = "body" => Levels(n - 1, pc2, lv, lf + 1, g)
<1>1. CASE pc = "end"
  <2>1. CASE n = 1
    BY <1>1, <2>1 DEF Levels
  <2>2. CASE n # 1
    BY <1>1, <2>2 DEF Levels
  <2>3. QED
    BY <2>1, <2>2
<1>2. CASE pc = "release"
  <2>1. n = 1 /\ lf = 0 /\ lv = 0
    BY <1>2 DEF Levels
  <2>2. n - 1 = 0 /\ 0 \in Nat /\ ~(lf > 0)
    BY <2>1
  <2>3. g2 \in BOOLEAN
    BY Zenon
  <2>4. Levels(n - 1, pc2, lv, lf, g2)
    BY <2>1, <2>2, <2>3 DEF Levels
  <2>5. QED
    BY <2>4, <1>2
<1>3. CASE pc = "body"
  <2>1. CASE n = 1
    BY <1>3, <2>1 DEF Levels
  <2>2. CASE n # 1
    BY <1>3, <2>2 DEF Levels
  <2>3. QED
    BY <2>1, <2>2
<1>4. QED
  BY <1>1, <1>2, <1>3

\* A step that replaces the innermost call.
LEMMA TopSet ==
  ASSUME StackInv, NEW n, NEW t, TopAt(n, t), NEW x, frames' = SetTop(x), phase' = phase, code' = code, program' = program,
         IsSeqOf(undo'), FrameOK(x, code, program, undo'), n = 1 \/ Grows(undo', undo)
  PROVE  StackInv' /\ Len(frames') = n /\ Top' = x
<1>1. Stack(frames, code, program, undo) /\ n = Len(frames) /\ n # 0 /\ phase = "run" /\ Len(undo) \in Nat
  BY DEF StackInv, TopAt
<1>2. PICK u2, fs2 : u2 = undo' /\ fs2 = frames'
  OBVIOUS
<1>3. Len(u2) \in Nat
  BY <1>2, SeqLen
<1>4. fs2 = [frames EXCEPT ![n] = x]
  BY <1>1, <1>2 DEF SetTop
<1>5. Stack(fs2, code, program, u2) /\ IsSet(fs2, frames, n, x)
  BY <1>1, <1>2, <1>3, <1>4, StackSet
<1>6. StackInv'
  BY <1>1, <1>2, <1>5 DEF StackInv
<1>7. Len(frames') = n /\ frames'[n] = x
  BY <1>2, <1>5 DEF IsSet
<1>8. QED
  BY <1>6, <1>7 DEF Top

\* One that takes it away.
LEMMA TopPop ==
  ASSUME StackInv, NEW n, NEW t, TopAt(n, t), frames' = Front(frames), phase' = phase, code' = code, program' = program, undo' = undo
  PROVE  StackInv' /\ Len(frames') = n - 1 /\ (n # 1 => Top'.pc = "body")
<1>1. Stack(frames, code, program, undo) /\ n = Len(frames) /\ n # 0 /\ phase = "run" /\ IsSeqOf(undo)
  BY DEF StackInv, TopAt
<1>2. Stack(frames', code, program, undo) /\ n \in Nat /\ Len(frames') = n - 1 /\ (n # 1 => frames'[n - 1].pc = "body")
  <2>1. PICK fs2 : fs2 = frames'
    OBVIOUS
  <2>2. IsPop(fs2, frames, n)
    BY <2>1, <1>1 DEF IsPop
  <2>3. Stack(fs2, code, program, undo) /\ Popped(fs2, n)
    BY <2>2, <1>1, StackPop, Zenon
  <2>4. QED
    BY <2>1, <2>3 DEF Popped
<1>3. StackInv'
  <2>1. PICK fs2, u2 : fs2 = frames' /\ u2 = undo'
    OBVIOUS
  <2>2. Stack(fs2, code, program, undo) /\ IsSeqOf(u2)
    BY <2>1, <1>1, <1>2
  <2>3. QED
    BY <2>1, <2>2, <1>1 DEF StackInv
<1>4. QED
  BY <1>2, <1>3 DEF Top

\* Getting and making the handle, and the start of the transaction.
LEMMA HandleSteps ==
  ASSUME PassInv, StackInv, LevelInv, GetTxHandle \/ NewTxHandle \/ Begin
  PROVE  StackInv' /\ LevelInv'
<1>1. frames # <<>> /\ phase' = phase /\ code' = code /\ program' = program /\ undo' = undo /\ left' = left
  BY DEF GetTxHandle, NewTxHandle, Begin, At, compiling, txn
<1>2. PICK n, t : TopAt(n, t)
  BY <1>1, TopFacts
<1>3. /\ n = Len(frames) /\ n # 0 /\ t = Top /\ t \in Frame /\ FrameOK(t, code, program, undo) /\ Len(undo) \in Nat
      /\ Ready(code[t.fn], Src(program[t.fn]))
  BY <1>2 DEF TopAt
<1>4. Levels(n, t.pc, level, left, gtx) /\ (level = 0 => undo = <<>>) /\ IsSeqOf(undo)
  BY <1>3 DEF LevelInv, StackInv
<1>5. Grows(undo', undo) /\ IsSeqOf(undo')
  BY <1>1, <1>3, <1>4, GrowsSame
<1>6. ASSUME NEW pc \in PCs, pc = "begin" \/ pc = "new", t.pc = "get" \/ t.pc = "new", frames' = SetTop([t EXCEPT !.pc = pc])
      PROVE  StackInv' /\ Len(frames') = n /\ Top'.pc = pc
  <2>1. PICK x : x = [t EXCEPT !.pc = pc]
    OBVIOUS
  <2>2. IsFrame(x, t.fn, pc, t.b, t.i, t.ran)
    BY <2>1, <1>3, FrameSets
  <2>3. FrameOK(x, code, program, undo')
    BY <2>2, <1>1, <1>3, <1>6 DEF FrameOK, IsFrame
  <2>4. StackInv' /\ Len(frames') = n /\ Top' = x
    BY <2>1, <2>3, <1>1, <1>2, <1>5, <1>6, TopSet
  <2>5. QED
    BY <2>2, <2>4 DEF IsFrame
<1>7. "begin" \in PCs /\ "new" \in PCs /\ "body" \in PCs
  BY DEF PCs
<1>8. CASE GetTxHandle
  <2>1. t.pc = "get" /\ gtx' = gtx /\ level' = level
    BY <1>3, <1>8 DEF GetTxHandle, At, txn
  <2>2. CASE gtx = TRUE
    <3>1. frames' = SetTop([t EXCEPT !.pc = "begin"])
      BY <2>2, <1>3, <1>8 DEF GetTxHandle
    <3>2. StackInv' /\ Len(frames') = n /\ Top'.pc = "begin"
      BY <3>1, <2>1, <1>6, <1>7
    <3>3. Levels(n, "begin", level, left, gtx)
      BY <2>1, <2>2, <1>3, <1>4, LevelMoves
    <3>4. QED
      BY <3>2, <3>3, <2>1, <1>1, <1>4 DEF LevelInv
  <2>3. CASE gtx = FALSE
    <3>1. frames' = SetTop([t EXCEPT !.pc = "new"])
      BY <2>3, <1>3, <1>8 DEF GetTxHandle
    <3>2. StackInv' /\ Len(frames') = n /\ Top'.pc = "new"
      BY <3>1, <2>1, <1>6, <1>7
    <3>3. Levels(n, "new", level, left, gtx)
      BY <2>1, <2>3, <1>3, <1>4, LevelMoves
    <3>4. QED
      BY <3>2, <3>3, <2>1, <1>1, <1>4 DEF LevelInv
  <2>4. gtx \in BOOLEAN
    BY <1>4 DEF Levels
  <2>5. QED
    BY <2>2, <2>3, <2>4
<1>9. CASE NewTxHandle
  <2>1. t.pc = "new" /\ gtx' = TRUE /\ level' = level /\ frames' = SetTop([t EXCEPT !.pc = "begin"])
    BY <1>3, <1>9 DEF NewTxHandle, At
  <2>2. StackInv' /\ Len(frames') = n /\ Top'.pc = "begin"
    BY <2>1, <1>6, <1>7
  <2>3. PICK g2 : g2 = TRUE
    OBVIOUS
  <2>4. Levels(n, "begin", level, left, g2)
    BY <2>1, <2>3, <1>3, <1>4, LevelNew
  <2>5. Levels(n, "begin", level, left, gtx')
    BY <2>1, <2>3, <2>4
  <2>6. QED
    BY <2>1, <2>2, <2>5, <1>1, <1>4 DEF LevelInv
<1>10. CASE Begin
  <2>1. t.pc = "begin" /\ gtx' = gtx /\ level' = level + 1 /\ frames' = SetTop([t EXCEPT !.pc = "body"])
    BY <1>3, <1>10 DEF Begin, At
  <2>2. PICK x : x = [t EXCEPT !.pc = "body"]
    OBVIOUS
  <2>3. IsFrame(x, t.fn, "body", t.b, t.i, t.ran)
    BY <2>2, <1>3, <1>7, FrameSets
  <2>4. t.b = 1 /\ t.i = 1 /\ t.ran = <<>> /\ t.fn \in 1..Len(code)
    BY <2>1, <1>3 DEF FrameOK
  <2>5. InBody(code[t.fn], Src(program[t.fn]), 1, 1, t.ran, undo')
    BY <2>4, <1>3, BodyEnter
  <2>6. FrameOK(x, code, program, undo')
    BY <2>3, <2>4, <2>5 DEF FrameOK, IsFrame
  <2>7. StackInv' /\ Len(frames') = n /\ Top' = x
    BY <2>1, <2>2, <2>6, <1>1, <1>2, <1>5, TopSet
  <2>8. Levels(n, "body", level + 1, left, gtx) /\ level + 1 # 0
    BY <2>1, <1>3, <1>4, LevelMoves
  <2>9. QED
    BY <2>1, <2>3, <2>7, <2>8, <1>1 DEF LevelInv, IsFrame
<1>11. QED
  BY <1>8, <1>9, <1>10

\* The value that the innermost call is at.
BodyNow(n, t, bs, src) ==
  /\ TopAt(n, t) /\ t.pc = "body" /\ bs = code[t.fn] /\ src = Src(program[t.fn]) /\ CurBlock = bs[t.b]
  /\ t.fn \in 1..Len(code) /\ t.b \in Nat /\ t.i \in Nat /\ t.ran \in Seq(Eff)
  /\ InBody(bs, src, t.b, t.i, t.ran, undo) /\ Ready(bs, src) /\ SrcOK(src, Len(program))

\* The innermost call, when it is in its body.
LEMMA BodyNowFacts ==
  ASSUME PassInv, StackInv, At("body")
  PROVE  \E n, t, bs, src : BodyNow(n, t, bs, src)
<1>1. PICK n, t : TopAt(n, t)
  BY TopFacts DEF At
<1>2. /\ t = Top /\ t \in Frame /\ FrameOK(t, code, program, undo)
      /\ Ready(code[t.fn], Src(program[t.fn])) /\ SrcOK(Src(program[t.fn]), Len(program))
  BY <1>1 DEF TopAt
<1>3. t.pc = "body"
  BY <1>2 DEF At
<1>4. PICK bs, src : bs = code[t.fn] /\ src = Src(program[t.fn])
  OBVIOUS
<1>5. InBody(bs, src, t.b, t.i, t.ran, undo) /\ t.fn \in 1..Len(code)
  BY <1>2, <1>3, <1>4 DEF FrameOK
<1>6. t.b \in Nat /\ t.i \in Nat /\ t.ran \in Seq(Eff)
  <2> HIDE DEF Eff
  <2> QED
    BY <1>2 DEF Frame
<1>7. CurBlock = bs[t.b]
  BY <1>2, <1>4 DEF CurBlock
<1>8. QED
  BY <1>1, <1>2, <1>3, <1>4, <1>5, <1>6, <1>7 DEF BodyNow

\* The call after a store or a call.
LEMMA AfterValue ==
  ASSUME NEW n, NEW t, NEW bs, NEW src, BodyNow(n, t, bs, src), NEW v, v = Val, t.i <= Len(CurBlock.vals), v.op \in {"store", "call"},
         NEW x, x = [Stepped EXCEPT !.ran = Append(@, Effect(Val))]
  PROVE  FrameOK(x, code, program, undo) /\ x.pc = "body"
<1>1. /\ TopAt(n, t) /\ t.pc = "body" /\ bs = code[t.fn] /\ src = Src(program[t.fn]) /\ CurBlock = bs[t.b] /\ t.fn \in 1..Len(code)
      /\ InBody(bs, src, t.b, t.i, t.ran, undo) /\ Ready(bs, src)
  BY DEF BodyNow
<1>2. t = Top /\ t \in Frame
  BY <1>1 DEF TopAt
<1>3. PICK s : s = Stepped
  OBVIOUS
<1>4. IsFrame(s, t.fn, t.pc, t.b, t.i + 1, t.ran)
  BY <1>2, <1>3, FrameSets DEF Stepped
<1>5. v = bs[t.b].vals[t.i] /\ t.i <= Len(bs[t.b].vals)
  BY <1>1, <1>2 DEF Val
<1>6. PICK ran2 : ran2 = Append(t.ran, Effect(v))
  OBVIOUS
<1>7. InBody(bs, src, t.b, t.i + 1, ran2, undo)
  BY <1>1, <1>5, <1>6, BodyValue
<1>8. ran2 \in Seq(Eff)
  <2>1. PICK reg, pos : BodyAt(bs, src, reg, pos, t.b, t.i + 1, ran2, undo)
    BY <1>7 DEF InBody
  <2>2. QED
    BY <2>1 DEF BodyAt, RunAt
<1>9. x = [s EXCEPT !.ran = ran2]
  BY <1>3, <1>4, <1>6 DEF IsFrame
<1>10. s \in Frame
  BY <1>4 DEF IsFrame
<1>11. IsFrame(x, s.fn, s.pc, s.b, s.i, ran2)
  BY <1>8, <1>9, <1>10, FrameSets
<1>12. IsFrame(x, t.fn, "body", t.b, t.i + 1, ran2)
  BY <1>1, <1>4, <1>11 DEF IsFrame
<1>13. FrameOK(x, code, program, undo)
  BY <1>1, <1>7, <1>12 DEF FrameOK, IsFrame
<1>14. QED
  BY <1>12, <1>13 DEF IsFrame

\* A store.
LEMMA StoreStep ==
  ASSUME PassInv, StackInv, LevelInv, RunStore
  PROVE  StackInv' /\ LevelInv'
<1>1. /\ Executing("store") /\ phase' = phase /\ code' = code /\ program' = program /\ undo' = undo /\ left' = left /\ gtx' = gtx /\ level' = level
      /\ frames' = SetTop([Stepped EXCEPT !.ran = Append(@, Effect(Val))])
  BY DEF RunStore, compiling
<1>2. PICK n, t, bs, src : BodyNow(n, t, bs, src)
  BY <1>1, BodyNowFacts DEF Executing
<1>3. TopAt(n, t) /\ t.pc = "body"
  BY <1>2 DEF BodyNow
<1>4. n = Len(frames) /\ t = Top /\ Len(undo) \in Nat /\ n # 0
  BY <1>3 DEF TopAt
<1>5. t.i <= Len(CurBlock.vals) /\ Val.op = "store"
  BY <1>1, <1>4 DEF Executing, Val
<1>6. PICK x : x = [Stepped EXCEPT !.ran = Append(@, Effect(Val))]
  OBVIOUS
<1>7. FrameOK(x, code, program, undo) /\ x.pc = "body"
  BY <1>2, <1>5, <1>6, AfterValue
<1>8. IsSeqOf(undo') /\ Grows(undo', undo) /\ FrameOK(x, code, program, undo')
  BY <1>1, <1>4, <1>7, GrowsSame DEF StackInv
<1>9. StackInv' /\ Len(frames') = n /\ Top' = x
  <2>1. frames' = SetTop(x)
    BY <1>1, <1>6
  <2>2. QED
    BY <2>1, <1>1, <1>3, <1>8, TopSet
<1>10. QED
  BY <1>1, <1>3, <1>4, <1>7, <1>9 DEF LevelInv

\* A call.
LEMMA CallStep ==
  ASSUME PassInv, StackInv, LevelInv, RunCall
  PROVE  StackInv' /\ LevelInv'
<1>1. /\ Executing("call") /\ phase' = phase /\ code' = code /\ program' = program /\ undo' = undo /\ left' = left /\ gtx' = gtx /\ level' = level
      /\ frames' = Append(SetTop([Stepped EXCEPT !.ran = Append(@, Effect(Val))]), Entered(2))
  BY DEF RunCall, compiling, txn
<1>2. PICK n, t, bs, src : BodyNow(n, t, bs, src)
  BY <1>1, BodyNowFacts DEF Executing
<1>3. TopAt(n, t) /\ t.pc = "body"
  BY <1>2 DEF BodyNow
<1>4. n = Len(frames) /\ t = Top /\ Len(undo) \in Nat /\ n # 0 /\ phase = "run" /\ Len(code) = Len(program)
  BY <1>3 DEF TopAt
<1>5. t.i <= Len(CurBlock.vals) /\ Val.op = "call"
  BY <1>1, <1>4 DEF Executing, Val
<1>6. PICK x, fs : x = [Stepped EXCEPT !.ran = Append(@, Effect(Val))] /\ fs = SetTop(x)
  OBVIOUS
<1>7. FrameOK(x, code, program, undo) /\ x.pc = "body"
  BY <1>2, <1>5, <1>6, AfterValue
<1>8. IsSeqOf(undo) /\ Grows(undo, undo) /\ Stack(frames, code, program, undo)
  BY <1>4, GrowsSame DEF StackInv
<1>9. Stack(fs, code, program, undo) /\ IsSet(fs, frames, n, x)
  <2>1. fs = [frames EXCEPT ![n] = x]
    BY <1>4, <1>6 DEF SetTop
  <2>2. QED
    BY <2>1, <1>4, <1>7, <1>8, StackSet
<1>10. Len(fs) = n /\ fs[n].pc = "body"
  BY <1>7, <1>9 DEF IsSet
<1>11. Len(program) >= 2
  <2>1. /\ CurBlock = bs[t.b] /\ InBody(bs, src, t.b, t.i, t.ran, undo) /\ Ready(bs, src) /\ SrcOK(src, Len(program))
    BY <1>2 DEF BodyNow
  <2>2. PICK v, l : v = bs[t.b].vals[t.i] /\ l = Len(program)
    OBVIOUS
  <2>3. v.op = "call" /\ t.i <= Len(bs[t.b].vals)
    BY <2>1, <2>2, <1>4, <1>5 DEF Val
  <2>4. v.op = "call" => l >= 2
    BY <2>1, <2>2, <2>3, BodyStore
  <2>5. QED
    BY <2>2, <2>3, <2>4
<1>12. PICK y : y = Entered(2)
  OBVIOUS
<1>13. FrameOK(y, code, program, undo) /\ y.pc = "get"
  <2>1. IsFrame(y, 2, "get", 1, 1, <<>>)
    BY <1>12, FrameEntered
  <2>2. Len(code) \in Nat
    <3>1. code \in Seq(Seq(BlockRec))
      BY DEF PassInv
    <3> HIDE DEF BlockRec
    <3>2. QED
      BY <3>1
  <2>3. 2 \in 1..Len(code)
    BY <2>2, <1>4, <1>11
  <2>4. QED
    BY <2>1, <2>3 DEF FrameOK, IsFrame
<1>14. Stack(frames', code, program, undo) /\ n \in Nat /\ Len(frames') = n + 1 /\ frames'[n + 1] = y
  <2>1. PICK fs2 : fs2 = frames'
    OBVIOUS
  <2>2. IsPush(fs2, fs, y)
    BY <2>1, <1>1, <1>6, <1>12 DEF IsPush
  <2>3. n = Len(fs) /\ (n = 0 \/ fs[n].pc = "body") /\ Stack(fs, code, program, undo) /\ FrameOK(y, code, program, undo)
    BY <1>9, <1>10, <1>13
  <2>4. Stack(fs2, code, program, undo) /\ n \in Nat /\ Len(fs2) = n + 1 /\ fs2[n + 1] = y
    BY <2>2, <2>3, StackPush
  <2>5. QED
    BY <2>1, <2>4
<1>15. StackInv'
  BY <1>1, <1>4, <1>8, <1>14 DEF StackInv
<1>16. Levels(n + 1, "get", level, left, gtx)
  <2>1. Levels(n, t.pc, level, left, gtx)
    BY <1>4 DEF LevelInv
  <2>2. QED
    BY <2>1, <1>3, <1>4, LevelMoves
<1>17. Top'.pc = "get"
  BY <1>13, <1>14 DEF Top
<1>18. QED
  BY <1>1, <1>14, <1>15, <1>16, <1>17 DEF LevelInv

\* One more record in the log.
LEMMA LogAppend ==
  ASSUME NEW u, IsSeqOf(u), NEW e, NEW u2, u2 = Append(u, e)
  PROVE  IsSeqOf(u2) /\ Len(u) \in Nat /\ Len(u2) = Len(u) + 1 /\ Grows(u2, u) /\ u2[Len(u) + 1] = e
<1>1. PICK S : u \in Seq(S)
  BY DEF IsSeqOf
<1>2. PICK T : T = S \cup {e}
  OBVIOUS
<1>3. u \in Seq(T) /\ e \in T
  BY <1>1, <1>2
<1>4. PICK n : n = Len(u)
  OBVIOUS
<1>5. u2 \in Seq(T) /\ n \in Nat /\ Len(u2) = n + 1 /\ u2[n + 1] = e /\ \A j \in 1..n : u2[j] = u[j]
  BY <1>3, <1>4, AppendFacts
<1>6. n <= n + 1
  BY <1>5
<1>7. Grows(u2, u)
  BY <1>4, <1>5, <1>6 DEF Grows
<1>8. QED
  BY <1>4, <1>5, <1>7 DEF IsSeqOf

\* A log.
LEMMA LogStep ==
  ASSUME PassInv, StackInv, LevelInv, RunLog
  PROVE  StackInv' /\ LevelInv'
<1>1. /\ Executing("log") /\ phase' = phase /\ code' = code /\ program' = program /\ left' = left /\ gtx' = gtx /\ level' = level
      /\ frames' = SetTop(Stepped) /\ undo' = Append(undo, Logged(Val.st.obj, Val.s))
  BY DEF RunLog, compiling
<1>2. PICK n, t, bs, src : BodyNow(n, t, bs, src)
  BY <1>1, BodyNowFacts DEF Executing
<1>3. /\ TopAt(n, t) /\ t.pc = "body" /\ bs = code[t.fn] /\ src = Src(program[t.fn]) /\ CurBlock = bs[t.b] /\ t.fn \in 1..Len(code)
      /\ InBody(bs, src, t.b, t.i, t.ran, undo) /\ Ready(bs, src)
  BY <1>2 DEF BodyNow
<1>4. n = Len(frames) /\ t = Top /\ t \in Frame /\ n # 0
  BY <1>3 DEF TopAt
<1>5. PICK v, e, u2, x : v = Val /\ e = Logged(v.st.obj, v.s) /\ u2 = undo' /\ x = Stepped
  OBVIOUS
<1>6. v = bs[t.b].vals[t.i] /\ t.i <= Len(bs[t.b].vals) /\ v.op = "log"
  BY <1>1, <1>3, <1>4, <1>5 DEF Executing, Val
<1>7. e.obj = v.st.obj /\ DOMAIN e.old = Span(v.s)
  BY <1>5 DEF Logged, Span
<1>8. IsSeqOf(u2) /\ Len(undo) \in Nat /\ Len(u2) = Len(undo) + 1 /\ Grows(u2, undo) /\ u2[Len(undo) + 1] = e
  <2>1. IsSeqOf(undo)
    BY DEF StackInv
  <2>2. u2 = Append(undo, e)
    BY <1>1, <1>5
  <2>3. QED
    BY <2>1, <2>2, LogAppend
<1>9. InBody(bs, src, t.b, t.i + 1, t.ran, u2)
  BY <1>3, <1>6, <1>7, <1>8, BodyLog
<1>10. IsFrame(x, t.fn, "body", t.b, t.i + 1, t.ran)
  <2>1. IsFrame([t EXCEPT !.i = @ + 1], t.fn, t.pc, t.b, t.i + 1, t.ran)
    BY <1>4, FrameSets
  <2>2. QED
    BY <2>1, <1>3, <1>4, <1>5 DEF Stepped
<1>11. FrameOK(x, code, program, undo')
  BY <1>3, <1>5, <1>9, <1>10 DEF FrameOK, IsFrame
<1>12. StackInv' /\ Len(frames') = n /\ Top' = x
  <2>1. frames' = SetTop(x) /\ IsSeqOf(undo') /\ Grows(undo', undo)
    BY <1>1, <1>5, <1>8
  <2>2. QED
    BY <2>1, <1>1, <1>3, <1>11, TopSet
<1>13. Levels(n, "body", level, left, gtx) /\ level # 0
  <2>1. Levels(n, "body", level, left, gtx)
    BY <1>3, <1>4 DEF LevelInv
  <2>2. QED
    BY <2>1, <1>4, LevelMoves
<1>14. QED
  BY <1>1, <1>10, <1>12, <1>13 DEF LevelInv, IsFrame

\* A jump.
LEMMA JumpStep ==
  ASSUME PassInv, StackInv, LevelInv, RunJump
  PROVE  StackInv' /\ LevelInv'
<1>1. At("body") /\ phase' = phase /\ code' = code /\ program' = program /\ undo' = undo /\ left' = left /\ gtx' = gtx /\ level' = level
  BY DEF RunJump, compiling, txn
<1>2. PICK n, t, bs, src : BodyNow(n, t, bs, src)
  BY <1>1, BodyNowFacts
<1>3. /\ TopAt(n, t) /\ t.pc = "body" /\ bs = code[t.fn] /\ src = Src(program[t.fn]) /\ CurBlock = bs[t.b] /\ t.fn \in 1..Len(code)
      /\ InBody(bs, src, t.b, t.i, t.ran, undo) /\ Ready(bs, src)
  BY <1>2 DEF BodyNow
<1>4. n = Len(frames) /\ t = Top /\ t \in Frame /\ n # 0 /\ Len(undo) \in Nat
  BY <1>3 DEF TopAt
<1>5. PICK B, test : B = CurBlock /\ test \in BOOLEAN /\ (test <=> Executing("inpmem"))
  OBVIOUS
<1>6. PICK k \in DOMAIN B.succs : /\ Executing("inpmem") => k = (IF Val.st.obj \in Persistent THEN 1 ELSE 2)
                                  /\ frames' = SetTop([t EXCEPT !.b = B.succs[k], !.i = 1])
  BY <1>4, <1>5 DEF RunJump
<1>7. PICK c, x : c = B.succs[k] /\ x = [t EXCEPT !.b = c, !.i = 1]
  OBVIOUS
<1>8. Jumps(B, t.i, k, c, test)
  <2>1. CASE test
    <3>1. Executing("inpmem")
      BY <2>1, <1>5
    <3>2. Val = B.vals[t.i] /\ t.i <= Len(B.vals) /\ B.vals[t.i].op = "inpmem"
      BY <3>1, <1>4, <1>5 DEF Executing, Val
    <3>3. QED
      BY <3>1, <3>2, <2>1, <1>6, <1>7 DEF Jumps
  <2>2. CASE ~test
    <3>1. Top.i > Len(CurBlock.vals) /\ CurBlock.kind \in {"if", "plain"}
      BY <2>2, <1>5 DEF RunJump
    <3>2. QED
      BY <3>1, <2>2, <1>4, <1>5, <1>6, <1>7 DEF Jumps
  <2>3. QED
    BY <2>1, <2>2
<1>9. InBody(bs, src, c, 1, t.ran, undo)
  BY <1>3, <1>5, <1>8, BodyJump
<1>10. c \in Nat
  <2>1. c \in 1..Len(bs)
    BY <1>3, <1>9, BodyRan
  <2>2. QED
    BY <2>1
<1>11. IsFrame(x, t.fn, "body", c, 1, t.ran)
  BY <1>3, <1>4, <1>7, <1>10, FrameJump
<1>12. FrameOK(x, code, program, undo')
  BY <1>1, <1>3, <1>9, <1>11 DEF FrameOK, IsFrame
<1>13. StackInv' /\ Len(frames') = n /\ Top' = x
  <2>1. frames' = SetTop(x) /\ IsSeqOf(undo') /\ Grows(undo', undo)
    BY <1>1, <1>4, <1>6, <1>7, GrowsSame DEF StackInv
  <2>2. QED
    BY <2>1, <1>1, <1>3, <1>12, TopSet
<1>14. QED
  BY <1>1, <1>3, <1>4, <1>11, <1>13 DEF LevelInv, IsFrame

\* The end of the body.
LEMMA ReturnStep ==
  ASSUME PassInv, StackInv, LevelInv, RunReturn
  PROVE  StackInv' /\ LevelInv'
<1>1. /\ At("body") /\ phase' = phase /\ code' = code /\ program' = program /\ undo' = undo /\ left' = left /\ gtx' = gtx /\ level' = level
      /\ Top.i > Len(CurBlock.vals) /\ CurBlock.kind = "ret" /\ frames' = SetTop([Top EXCEPT !.pc = "end"])
  BY DEF RunReturn, compiling, txn
<1>2. PICK n, t, bs, src : BodyNow(n, t, bs, src)
  BY <1>1, BodyNowFacts
<1>3. /\ TopAt(n, t) /\ t.pc = "body" /\ bs = code[t.fn] /\ src = Src(program[t.fn]) /\ CurBlock = bs[t.b] /\ t.fn \in 1..Len(code)
      /\ InBody(bs, src, t.b, t.i, t.ran, undo) /\ Ready(bs, src)
  BY <1>2 DEF BodyNow
<1>4. n = Len(frames) /\ t = Top /\ t \in Frame /\ n # 0 /\ Len(undo) \in Nat
  BY <1>3 DEF TopAt
<1>5. RunDone(t.ran, src)
  <2>1. t.i > Len(bs[t.b].vals) /\ bs[t.b].kind = "ret"
    BY <1>1, <1>3, <1>4
  <2>2. QED
    BY <2>1, <1>3, BodyRan
<1>6. PICK x : x = [t EXCEPT !.pc = "end"]
  OBVIOUS
<1>7. IsFrame(x, t.fn, "end", t.b, t.i, t.ran)
  BY <1>4, <1>6, FrameSets DEF PCs
<1>8. FrameOK(x, code, program, undo')
  BY <1>3, <1>5, <1>7 DEF FrameOK, IsFrame
<1>9. StackInv' /\ Len(frames') = n /\ Top' = x
  <2>1. frames' = SetTop(x) /\ IsSeqOf(undo') /\ Grows(undo', undo)
    BY <1>1, <1>4, <1>6, GrowsSame DEF StackInv
  <2>2. QED
    BY <2>1, <1>1, <1>3, <1>8, TopSet
<1>10. Levels(n, "end", level, left, gtx)
  <2>1. Levels(n, t.pc, level, left, gtx)
    BY <1>4 DEF LevelInv
  <2>2. QED
    BY <2>1, <1>3, <1>4, LevelMoves
<1>11. QED
  BY <1>1, <1>7, <1>9, <1>10 DEF LevelInv, IsFrame

\* The end of the transaction or of an inner block, the release of the handle, and a block that is left.
LEMMA ExitSteps ==
  ASSUME PassInv, StackInv, LevelInv, End \/ Release \/ Leave
  PROVE  StackInv' /\ LevelInv'
<1>1. frames # <<>> /\ phase' = phase /\ code' = code /\ program' = program
  BY DEF End, Release, Leave, At, compiling
<1>2. PICK n, t : TopAt(n, t)
  BY <1>1, TopFacts
<1>3. n = Len(frames) /\ n # 0 /\ t = Top /\ t \in Frame /\ FrameOK(t, code, program, undo) /\ Len(undo) \in Nat
  BY <1>2 DEF TopAt
<1>4. Levels(n, t.pc, level, left, gtx) /\ (level = 0 => undo = <<>>) /\ IsSeqOf(undo)
  BY <1>3 DEF LevelInv, StackInv
<1>5. PICK g2, pc2 : g2 = FALSE /\ pc2 = Top'.pc
  OBVIOUS
<1>6. ASSUME frames' = Front(frames), undo' = undo
      PROVE  /\ StackInv' /\ Len(frames') = n - 1
             /\ t.pc = "end" /\ level # 1 => Levels(n - 1, pc2, level - 1, left, gtx) /\ level - 1 # 0
             /\ t.pc = "release" => Levels(n - 1, pc2, level, left, g2)
             /\ t.pc = "body" => Levels(n - 1, pc2, level, left + 1, gtx)
  <2>1. StackInv' /\ Len(frames') = n - 1 /\ (n # 1 => Top'.pc = "body")
    BY <1>1, <1>2, <1>6, TopPop
  <2>2. n # 1 => pc2 = "body"
    BY <2>1, <1>5
  <2>3. QED
    BY <2>1, <2>2, <1>3, <1>4, <1>5, LevelPops
<1>7. CASE End
  <2>1. t.pc = "end" /\ level' = level - 1 /\ gtx' = gtx /\ left' = left
    BY <1>3, <1>7 DEF End, At
  <2>2. CASE level = 1
    <3>1. undo' = <<>> /\ frames' = SetTop([t EXCEPT !.pc = "release"])
      BY <2>2, <1>3, <1>7 DEF End
    <3>2. n = 1 /\ Levels(n, "release", level - 1, left, gtx)
      BY <2>1, <2>2, <1>3, <1>4, LevelMoves
    <3>3. PICK x : x = [t EXCEPT !.pc = "release"]
      OBVIOUS
    <3>4. IsFrame(x, t.fn, "release", t.b, t.i, t.ran)
      BY <3>3, <1>3, FrameSets DEF PCs
    <3>5. t.fn \in 1..Len(code) /\ RunDone(t.ran, Src(program[t.fn]))
      BY <2>1, <1>3 DEF FrameOK
    <3>6. FrameOK(x, code, program, undo')
      BY <3>4, <3>5 DEF FrameOK, IsFrame
    <3>7. IsSeqOf(undo')
      <4>1. <<>> \in Seq({})
        OBVIOUS
      <4>2. QED
        BY <4>1, <3>1 DEF IsSeqOf
    <3>8. StackInv' /\ Len(frames') = n /\ Top' = x
      <4>1. frames' = SetTop(x)
        BY <3>1, <3>3
      <4>2. QED
        BY <4>1, <3>2, <3>6, <3>7, <1>1, <1>2, TopSet
    <3>9. QED
      BY <3>1, <3>2, <3>4, <3>8, <2>1 DEF LevelInv, IsFrame
  <2>3. CASE level # 1
    <3>1. undo' = undo /\ frames' = Front(frames)
      BY <2>3, <1>7 DEF End
    <3>2. StackInv' /\ Len(frames') = n - 1 /\ Levels(n - 1, pc2, level - 1, left, gtx) /\ level - 1 # 0
      BY <3>1, <2>1, <2>3, <1>6
    <3>3. QED
      BY <3>2, <2>1, <1>5 DEF LevelInv
  <2>4. QED
    BY <2>2, <2>3
<1>8. CASE Release
  <2>1. t.pc = "release" /\ gtx' = FALSE /\ level' = level /\ left' = left /\ undo' = undo /\ frames' = Front(frames)
    BY <1>3, <1>8 DEF Release, At
  <2>2. StackInv' /\ Len(frames') = n - 1 /\ Levels(n - 1, pc2, level, left, g2)
    BY <2>1, <1>6
  <2>3. Levels(n - 1, pc2, level, left, gtx')
    BY <2>1, <2>2, <1>5
  <2>4. QED
    BY <2>1, <2>2, <2>3, <1>4, <1>5 DEF LevelInv
<1>9. CASE Leave
  <2>1. t.pc = "body" /\ gtx' = gtx /\ level' = level /\ left' = left + 1 /\ undo' = undo /\ frames' = Front(frames)
    BY <1>3, <1>9 DEF Leave, At, txn
  <2>2. StackInv' /\ Len(frames') = n - 1 /\ Levels(n - 1, pc2, level, left + 1, gtx)
    BY <2>1, <1>6
  <2>3. QED
    BY <2>1, <2>2, <1>4, <1>5 DEF LevelInv
<1>10. QED
  BY <1>7, <1>8, <1>9

\* No call under way, before and after.
LEMMA Idle ==
  ASSUME NEW cd, NEW pr, NEW u, NEW fs, fs = <<>>
  PROVE  Stack(fs, cd, pr, u)
<1>1. fs \in Seq(Frame) /\ Len(fs) = 0
  <2> HIDE DEF Frame
  <2> QED
    OBVIOUS
<1>2. 1..0 = {} /\ 1..(0 - 1) = {}
  OBVIOUS
<1>3. QED
  BY <1>1, <1>2 DEF Stack

\* A call from outside.
LEMMA StartStep ==
  ASSUME PassInv, StackInv, LevelInv, Start
  PROVE  StackInv' /\ LevelInv'
<1>1. /\ phase = "run" /\ frames = <<>> /\ frames' = <<Entered(1)>> /\ phase' = phase /\ code' = code /\ program' = program
      /\ undo' = undo /\ left' = left /\ gtx' = gtx /\ level' = level
  BY DEF Start, compiling, txn
<1>2. Len(frames) = 0
  BY <1>1
<1>3. PICK y, fs2 : y = Entered(1) /\ fs2 = frames'
  OBVIOUS
<1>4. FrameOK(y, code, program, undo) /\ y.pc = "get"
  <2>1. IsFrame(y, 1, "get", 1, 1, <<>>)
    BY <1>3, FrameEntered
  <2>2. Len(code) \in Nat /\ Len(code) # 0
    <3>1. code \in Seq(Seq(BlockRec)) /\ Len(code) = Len(program) /\ program \in Programs
      BY <1>1 DEF PassInv
    <3>2. program \in Seq(Function) /\ program # <<>>
      BY <3>1, ProgramsAssumption
    <3> HIDE DEF BlockRec, Function
    <3>3. QED
      BY <3>1, <3>2
  <2>3. 1 \in 1..Len(code)
    BY <2>2
  <2>4. QED
    BY <2>1, <2>3 DEF FrameOK, IsFrame
<1>5. IsPush(fs2, frames, y)
  <2>1. Append(<<>>, y) = <<y>>
    OBVIOUS
  <2>2. QED
    BY <2>1, <1>1, <1>3 DEF IsPush
<1>6. PICK n : n = Len(frames)
  OBVIOUS
<1>7. Stack(frames, code, program, undo) /\ (n = 0 \/ frames[n].pc = "body") /\ IsSeqOf(undo)
  BY <1>2, <1>6 DEF StackInv
<1>8. Stack(fs2, code, program, undo) /\ Len(fs2) = n + 1 /\ fs2[n + 1] = y
  BY <1>4, <1>5, <1>6, <1>7, StackPush
<1>9. StackInv'
  BY <1>1, <1>3, <1>7, <1>8 DEF StackInv
<1>10. Len(frames') = 1 /\ Top'.pc = "get"
  <2>1. n + 1 = 1
    BY <1>2, <1>6
  <2>2. QED
    BY <2>1, <1>3, <1>4, <1>8 DEF Top
<1>11. Levels(1, "get", level, left, gtx)
  <2>1. Levels(0, Top.pc, level, left, gtx)
    BY <1>2 DEF LevelInv
  <2>2. QED
    BY <2>1 DEF Levels
<1>12. QED
  BY <1>1, <1>9, <1>10, <1>11 DEF LevelInv

\* A step of the pass.
LEMMA IdleStep ==
  ASSUME PassInv, StackInv, LevelInv, LogStorePass \/ UNCHANGED vars
  PROVE  StackInv' /\ LevelInv'
<1>1. frames' = frames /\ undo' = undo /\ left' = left /\ gtx' = gtx /\ level' = level /\ program' = program
  BY DEF LogStorePass, PassBlock, PassBlockEnd, PassSkip, PassVmem, PassPmem, PassTest, PassPanics, PassEnd, vars, txn
<1>2. LevelInv'
  BY <1>1 DEF LevelInv, Top
<1>3. CASE UNCHANGED vars
  <2>1. phase' = phase /\ code' = code
    BY <1>3 DEF vars, compiling
  <2>2. QED
    BY <2>1, <1>1, <1>2 DEF StackInv
<1>4. CASE LogStorePass
  <2>1. phase = "pass"
    BY <1>4 DEF LogStorePass, PassBlock, PassBlockEnd, PassSkip, PassVmem, PassPmem, PassTest, PassPanics, PassEnd,
                NeedsLog, IsMarked, AtValue
  <2>2. frames = <<>> /\ IsSeqOf(undo)
    BY <2>1 DEF StackInv
  <2>3. Stack(frames', code', program', undo')
    BY <2>2, <1>1, Idle
  <2>4. QED
    BY <2>2, <2>3, <1>1, <1>2 DEF StackInv
<1>5. QED
  BY <1>3, <1>4

\* Every step.
LEMMA StackStep ==
  ASSUME PassInv, StackInv, LevelInv, [Next]_vars
  PROVE  StackInv' /\ LevelInv'
<1>1. CASE LogStorePass \/ UNCHANGED vars
  BY <1>1, IdleStep
<1>2. CASE Run
  BY <1>2, StartStep, HandleSteps, StoreStep, LogStep, CallStep, JumpStep, ReturnStep, ExitSteps DEF Run
<1>3. QED
  BY <1>1, <1>2 DEF Next

\* Initially nothing runs and there is no handle.
LEMMA StackInit ==
  ASSUME Init
  PROVE  StackInv /\ LevelInv
<1>1. frames = <<>> /\ undo = <<>> /\ gtx = FALSE /\ level = 0 /\ left = 0 /\ phase = "pass"
  BY DEF Init
<1>2. Stack(frames, code, program, undo)
  BY <1>1, Idle
<1>3. IsSeqOf(undo)
  <2>1. <<>> \in Seq({})
    OBVIOUS
  <2>2. QED
    BY <2>1, <1>1 DEF IsSeqOf
<1>4. Len(frames) = 0
  BY <1>1
<1>5. Levels(0, Top.pc, level, left, gtx)
  <2>1. gtx \in BOOLEAN
    BY <1>1, Zenon
  <2>2. QED
    BY <2>1, <1>1 DEF Levels
<1>6. QED
  BY <1>1, <1>2, <1>3, <1>4, <1>5 DEF StackInv, LevelInv

------------------------------------------------------------------------------
(* What recovery finds.                                                    *)

Memory == [Object -> [Word -> 0..MaxRuns]]

Hit(e, o, w) == e.obj = o /\ w \in DOMAIN e.old

\* The recovered memory.
Back(m, u) == BackFn(m, u)[Len(u)]

\* Recovered undoes all of the log,
LEMMA RecoveredDef == Recovered = Back(mem, undo)
BY DEF Recovered, Back, BackFn, IsBack

\* also after a step.
LEMMA RecoveredNext == Recovered' = Back(mem', undo')
BY DEF Recovered, Back, BackFn, IsBack

\* Undoing one record.
LEMMA UndoneAt ==
  ASSUME NEW m, DOMAIN m = Object, NEW e, NEW m2, m2 = Undone(m, e), NEW o \in Object, NEW w \in Word
  PROVE  DOMAIN m2 = Object /\ m2[o][w] = IF Hit(e, o, w) THEN e.old[w] ELSE m[o][w]
<1>1. m2 = [m EXCEPT ![e.obj] = [x \in Word |-> IF x \in DOMAIN e.old THEN e.old[x] ELSE m[e.obj][x]]]
  BY DEF Undone
<1>2. DOMAIN m2 = Object
  BY <1>1
<1>3. CASE e.obj = o
  <2>1. m2[o] = [x \in Word |-> IF x \in DOMAIN e.old THEN e.old[x] ELSE m[e.obj][x]]
    BY <1>1, <1>3
  <2>2. m2[o][w] = IF w \in DOMAIN e.old THEN e.old[w] ELSE m[e.obj][w]
    BY <2>1
  <2>3. QED
    BY <2>2, <1>2, <1>3 DEF Hit
<1>4. CASE e.obj # o
  <2>1. m2[o] = m[o]
    BY <1>1, <1>4
  <2>2. QED
    BY <2>1, <1>2, <1>4 DEF Hit
<1>5. QED
  BY <1>3, <1>4

\* Both memories are defined for all objects, and have the same value there.
Equal(m, m2, o, w) == DOMAIN m = Object /\ DOMAIN m2 = Object /\ m[o][w] = m2[o][w]

\* Undoing a record keeps that, and brings it about where it has the word.
LEMMA UndoneEqual ==
  ASSUME NEW m, NEW m2, DOMAIN m = Object, DOMAIN m2 = Object, NEW e, NEW o \in Object, NEW w \in Word,
         m[o][w] = m2[o][w] \/ Hit(e, o, w)
  PROVE  Equal(Undone(m, e), Undone(m2, e), o, w)
<1>1. PICK x, y : x = Undone(m, e) /\ y = Undone(m2, e)
  OBVIOUS
<1>2. DOMAIN x = Object /\ x[o][w] = IF Hit(e, o, w) THEN e.old[w] ELSE m[o][w]
  BY <1>1, UndoneAt
<1>3. DOMAIN y = Object /\ y[o][w] = IF Hit(e, o, w) THEN e.old[w] ELSE m2[o][w]
  BY <1>1, UndoneAt
<1>4. Equal(x, y, o, w)
  BY <1>2, <1>3 DEF Equal
<1>5. QED
  BY <1>1, <1>4

\* A record of what memory has now changes nothing.
LEMMA BackLog ==
  ASSUME NEW m, DOMAIN m = Object, NEW u, Len(u) \in Nat, NEW u2, Len(u2) = Len(u) + 1, Grows(u2, u),
         NEW e, e = u2[Len(u) + 1], NEW o \in Object, NEW w \in Word, Hit(e, o, w) => e.old[w] = m[o][w]
  PROVE  Back(m, u2)[o][w] = Back(m, u)[o][w]
<1>1. PICK f, g, n : f = BackFn(m, u) /\ g = BackFn(m, u2) /\ n = Len(u)
  OBVIOUS
<1>2. n \in Nat /\ Len(u2) = n + 1 /\ \A i \in 1..n : u2[i] = u[i]
  BY <1>1 DEF Grows
<1>3. BackOK(f, m, u) /\ BackOK(g, m, u2)
  <2>1. Len(u2) \in Nat
    BY <1>2
  <2>2. QED
    BY <2>1, <1>1, BackDef
<1>4. f[0] = m /\ \A i \in 1..n : f[i] = Undone(f[i - 1], u[n + 1 - i])
  BY <1>1, <1>3 DEF BackOK
<1>5. g[0] = m /\ \A i \in 1..(n + 1) : g[i] = Undone(g[i - 1], u2[(n + 1) + 1 - i])
  BY <1>2, <1>3 DEF BackOK
<1>6. PICK S : S = {i \in Nat : Equal(g[i + 1], f[i], o, w)}
  OBVIOUS
<1>7. 0 \in S
  <2>1. 1 \in 1..(n + 1) /\ 1 - 1 = 0 /\ (n + 1) + 1 - 1 = n + 1
    BY <1>2
  <2>2. g[1] = Undone(m, e)
    BY <2>1, <1>1, <1>5
  <2>3. DOMAIN g[1] = Object /\ g[1][o][w] = IF Hit(e, o, w) THEN e.old[w] ELSE m[o][w]
    BY <2>2, UndoneAt
  <2>4. Equal(g[1], f[0], o, w)
    BY <2>3, <1>4 DEF Equal
  <2>5. 0 \in Nat /\ 0 + 1 = 1
    OBVIOUS
  <2>6. QED
    BY <2>4, <2>5, <1>6
<1>8. ASSUME NEW i \in 0..n, i \in S, i < n PROVE i + 1 \in S
  <2>1. PICK j : j = i + 1
    OBVIOUS
  <2>2. j \in 1..n /\ j - 1 = i /\ j + 1 \in 1..(n + 1) /\ (j + 1) - 1 = j /\ (n + 1) + 1 - (j + 1) = n + 1 - j /\ j \in Nat /\ n + 1 - j \in 1..n
    BY <2>1, <1>2, <1>8
  <2>3. PICK x : x = u[n + 1 - j]
    OBVIOUS
  <2>4. f[j] = Undone(f[i], x)
    BY <2>2, <2>3, <1>4
  <2>5. g[j + 1] = Undone(g[j], x)
    BY <2>2, <2>3, <1>2, <1>5
  <2>6. Equal(g[j], f[i], o, w)
    BY <2>1, <1>6, <1>8
  <2>7. Equal(Undone(g[j], x), Undone(f[i], x), o, w)
    BY <2>6, UndoneEqual DEF Equal
  <2>8. Equal(g[j + 1], f[j], o, w)
    BY <2>4, <2>5, <2>7
  <2>9. QED
    BY <2>1, <2>2, <2>8, <1>6
<1>9. n \in S
  <2>1. \A i \in 0..n : i \in S
    BY <1>2, <1>7, <1>8, UpTo
  <2>2. QED
    BY <2>1, <1>2
<1>10. QED
  BY <1>1, <1>2, <1>6, <1>9 DEF Equal, Back

\* Recovery finds the same in two memories where they agree and where the log has the word.
LEMMA BackStore ==
  ASSUME NEW m, NEW m2, DOMAIN m = Object, DOMAIN m2 = Object, NEW u, Len(u) \in Nat, NEW o \in Object, NEW w \in Word,
         m[o][w] = m2[o][w] \/ Covers(u, o, w)
  PROVE  Back(m, u)[o][w] = Back(m2, u)[o][w]
<1>1. PICK f, g, n : f = BackFn(m, u) /\ g = BackFn(m2, u) /\ n = Len(u)
  OBVIOUS
<1>2. n \in Nat
  BY <1>1
<1>3. BackOK(f, m, u) /\ BackOK(g, m2, u)
  BY <1>1, BackDef
<1>4. f[0] = m /\ \A i \in 1..n : f[i] = Undone(f[i - 1], u[n + 1 - i])
  BY <1>1, <1>3 DEF BackOK
<1>5. g[0] = m2 /\ \A i \in 1..n : g[i] = Undone(g[i - 1], u[n + 1 - i])
  BY <1>1, <1>3 DEF BackOK
<1> DEFINE Met(i) == m[o][w] = m2[o][w] \/ \E j \in 1..i : Hit(u[n + 1 - j], o, w)
           Done(i) == DOMAIN f[i] = Object /\ DOMAIN g[i] = Object /\ (Met(i) => f[i][o][w] = g[i][o][w])
<1>6. PICK S : S = {i \in Nat : Done(i)}
  OBVIOUS
<1>7. 0 \in S
  <2>1. Met(0) => m[o][w] = m2[o][w]
    OBVIOUS
  <2> HIDE DEF Met
  <2>2. Done(0)
    BY <2>1, <1>4, <1>5
  <2> HIDE DEF Done
  <2>3. 0 \in Nat
    OBVIOUS
  <2>4. QED
    BY <2>2, <2>3, <1>6
<1>8. ASSUME NEW i \in 0..n, i \in S, i < n PROVE i + 1 \in S
  <2>1. PICK j : j = i + 1
    OBVIOUS
  <2>2. j \in 1..n /\ j - 1 = i /\ j \in Nat /\ \A k \in 1..j : k = j \/ k \in 1..i
    BY <2>1, <1>2, <1>8
  <2>3. PICK x : x = u[n + 1 - j]
    OBVIOUS
  <2>4. f[j] = Undone(f[i], x) /\ g[j] = Undone(g[i], x)
    BY <2>2, <2>3, <1>4, <1>5
  <2>5. Met(j) => Met(i) \/ Hit(x, o, w)
    BY <2>2, <2>3
  <2>6. Done(i)
    <3> HIDE DEF Done
    <3> QED
      BY <1>6, <1>8
  <2> HIDE DEF Met
  <2>7. DOMAIN f[i] = Object /\ DOMAIN g[i] = Object /\ (Met(i) => f[i][o][w] = g[i][o][w])
    BY <2>6
  <2>8. DOMAIN f[j] = Object /\ DOMAIN g[j] = Object
    <3>1. PICK a, b, a2, b2 : a = f[i] /\ b = g[i] /\ a2 = f[j] /\ b2 = g[j]
      OBVIOUS
    <3>2. DOMAIN a = Object /\ a2 = Undone(a, x)
      BY <3>1, <2>4, <2>7
    <3>3. DOMAIN b = Object /\ b2 = Undone(b, x)
      BY <3>1, <2>4, <2>7
    <3>4. DOMAIN a2 = Object
      BY <3>2, UndoneAt
    <3>5. DOMAIN b2 = Object
      BY <3>3, UndoneAt
    <3>6. QED
      BY <3>1, <3>4, <3>5
  <2>9. ASSUME Met(j) PROVE f[j][o][w] = g[j][o][w]
    <3>1. f[i][o][w] = g[i][o][w] \/ Hit(x, o, w)
      BY <2>5, <2>7, <2>9
    <3>2. Equal(Undone(f[i], x), Undone(g[i], x), o, w)
      BY <3>1, <2>7, UndoneEqual
    <3>3. QED
      BY <3>2, <2>4 DEF Equal
  <2>10. Done(j)
    BY <2>8, <2>9
  <2> HIDE DEF Done
  <2>11. QED
    BY <2>1, <2>2, <2>10, <1>6
<1>9. Done(n)
  <2> HIDE DEF Done
  <2>1. \A i \in 0..n : i \in S
    BY <1>2, <1>7, <1>8, UpTo
  <2>2. n \in S
    BY <2>1, <1>2
  <2>3. QED
    BY <2>2, <1>6
<1>10. Met(n)
  <2>1. CASE m[o][w] = m2[o][w]
    BY <2>1
  <2>2. CASE Covers(u, o, w)
    <3>1. PICK k \in 1..n : Hit(u[k], o, w)
      BY <2>2, <1>1 DEF Covers, Hit
    <3>2. PICK j : j = n + 1 - k
      OBVIOUS
    <3>3. j \in 1..n /\ n + 1 - j = k
      BY <3>2, <1>2
    <3>4. QED
      BY <3>1, <3>3
  <2>3. QED
    BY <2>1, <2>2
<1>11. f[n][o][w] = g[n][o][w]
  <2> HIDE DEF Met
  <2> QED
    BY <1>9, <1>10
<1>12. QED
  BY <1>1, <1>11 DEF Back

MemInv == runs \in 0..MaxRuns /\ mem \in Memory /\ pre \in Memory /\ RollbackComplete

\* A step after which recovery finds what it found before, or a word that the log does not cover.
LEMMA RollbackKept ==
  ASSUME RollbackComplete, level' > 0 => level > 0, pre' = pre, touched \subseteq touched',
         \A o \in Persistent, w \in Word : \/ Recovered'[o][w] = Recovered[o][w]
                                           \/ \E st \in touched' : st.obj = o /\ w \in Uncovered(st)
  PROVE  RollbackComplete'
<1>1. SUFFICES ASSUME level' > 0, NEW o \in Persistent, NEW w \in Word, Recovered'[o][w] # pre[o][w]
               PROVE  \E st \in touched' : st.obj = o /\ w \in Uncovered(st)
  BY DEF RollbackComplete
<1>2. CASE Recovered'[o][w] = Recovered[o][w]
  <2>1. level > 0 /\ Recovered[o][w] # pre[o][w]
    BY <1>1, <1>2
  <2>2. PICK st \in touched : st.obj = o /\ w \in Uncovered(st)
    BY <2>1 DEF RollbackComplete
  <2>3. QED
    BY <2>2
<1>3. QED
  BY <1>1, <1>2

\* Without a change of memory and log.
LEMMA RollbackSame ==
  ASSUME RollbackComplete, level' > 0 => level > 0, pre' = pre, touched' = touched, mem' = mem, undo' = undo
  PROVE  RollbackComplete'
<1>1. Recovered' = Recovered
  BY RecoveredDef, RecoveredNext
<1>2. QED
  BY <1>1, RollbackKept

\* Objects in persistent memory are objects.
LEMMA PersistentObject ==
  ASSUME NEW o \in Persistent
  PROVE  o \in Object
BY ObjectAssumption

Writes(m2, m, v, r) == m2 = [m EXCEPT ![v.st.obj] = [w \in Word |-> IF w \in v.s.words THEN r ELSE @[w]]]
Changes(m2, m, v)   == \A o \in Object, w \in Word : m2[o][w] # m[o][w] => v.st.obj = o /\ w \in v.s.words

\* A store writes some words of its object.
LEMMA StoreMem ==
  ASSUME NEW m \in Memory, NEW v, v.st.obj \in Object, NEW r \in 0..MaxRuns, NEW m2, Writes(m2, m, v, r)
  PROVE  m2 \in Memory /\ Changes(m2, m, v)
<1>1. PICK a, f : a = v.st.obj /\ f = [w \in Word |-> IF w \in v.s.words THEN r ELSE m[a][w]]
  OBVIOUS
<1>2. a \in Object /\ m2 = [m EXCEPT ![a] = f]
  BY <1>1 DEF Writes
<1>3. \A o \in Object : m[o] \in [Word -> 0..MaxRuns]
  BY DEF Memory
<1>4. f \in [Word -> 0..MaxRuns]
  BY <1>1, <1>2, <1>3
<1>5. m2 \in Memory
  <2> HIDE DEF Word
  <2> QED
    BY <1>2, <1>4 DEF Memory
<1>6. ASSUME NEW o \in Object, NEW w \in Word, m2[o][w] # m[o][w] PROVE a = o /\ w \in v.s.words
  <2>1. DOMAIN m = Object
    BY DEF Memory
  <2>2. CASE a # o
    <3>1. m2[o] = m[o]
      BY <2>1, <2>2, <1>2
    <3>2. QED
      BY <3>1, <1>6
  <2>3. CASE a = o
    <3>1. m2[o] = f
      BY <2>1, <2>3, <1>2
    <3>2. f[w] = IF w \in v.s.words THEN r ELSE m[a][w]
      BY <1>1
    <3>3. QED
      BY <3>1, <3>2, <2>3, <1>6
  <2>4. QED
    BY <2>2, <2>3
<1>7. QED
  BY <1>1, <1>5, <1>6 DEF Changes

\* A store: what it changes is in the log or is not covered.
LEMMA StoreMemory ==
  ASSUME PassInv, StackInv, MemInv, RunStore
  PROVE  MemInv'
<1>1. /\ Executing("store") /\ undo' = undo /\ level' = level /\ runs' = runs /\ pre' = pre /\ touched' = touched \cup {Val.st}
      /\ mem' = [mem EXCEPT ![Val.st.obj] = [w \in Word |-> IF w \in Val.s.words THEN runs ELSE @[w]]]
  BY DEF RunStore
<1>2. PICK n, t, bs, src : BodyNow(n, t, bs, src)
  BY <1>1, BodyNowFacts DEF Executing
<1>3. /\ TopAt(n, t) /\ CurBlock = bs[t.b] /\ InBody(bs, src, t.b, t.i, t.ran, undo) /\ Ready(bs, src) /\ SrcOK(src, Len(program))
  BY <1>2 DEF BodyNow
<1>4. t = Top /\ Len(undo) \in Nat
  BY <1>3 DEF TopAt
<1>5. PICK v, l : v = Val /\ l = Len(program)
  OBVIOUS
<1>6. v = bs[t.b].vals[t.i] /\ t.i <= Len(bs[t.b].vals) /\ v.op = "store"
  BY <1>1, <1>3, <1>4, <1>5 DEF Executing, Val
<1>7. v \in CodeVal /\ (v.st.obj \in Persistent => \A w \in v.s.words : w \in Uncovered(v.st) \/ Covers(undo, v.st.obj, w))
  BY <1>3, <1>5, <1>6, BodyStore
<1>8. v.st.obj \in Object
  <2>1. v \in StoreVal
    BY <1>6, <1>7 DEF CodeVal, SrcVal, Call, LogVal, InpmemVal
  <2>2. v.st \in Assignment
    <3> HIDE DEF StoreRec, Assignment, Node
    <3> QED
      BY <2>1 DEF StoreVal
  <2>3. QED
    BY <2>2 DEF Assignment
<1>9. mem \in Memory /\ runs \in 0..MaxRuns /\ pre \in Memory /\ RollbackComplete
  BY DEF MemInv
<1>10. PICK m2 : m2 = mem'
  OBVIOUS
<1>11. m2 \in Memory /\ Changes(m2, mem, v)
  <2>1. Writes(m2, mem, v, runs)
    BY <1>1, <1>5, <1>10 DEF Writes
  <2>2. QED
    BY <2>1, <1>8, <1>9, StoreMem
<1>12. DOMAIN mem = Object /\ DOMAIN m2 = Object
  BY <1>9, <1>11 DEF Memory
<1>13. Recovered = Back(mem, undo) /\ Recovered' = Back(m2, undo)
  BY <1>1, <1>10, RecoveredDef, RecoveredNext
<1>14. ASSUME NEW o \in Persistent, NEW w \in Word
       PROVE  \/ Recovered'[o][w] = Recovered[o][w]
              \/ \E st \in touched' : st.obj = o /\ w \in Uncovered(st)
  <2>1. o \in Object
    BY PersistentObject
  <2>2. CASE mem[o][w] = m2[o][w] \/ Covers(undo, o, w)
    <3>1. Back(mem, undo)[o][w] = Back(m2, undo)[o][w]
      BY <2>1, <2>2, <1>4, <1>12, BackStore
    <3>2. QED
      BY <3>1, <1>13
  <2>3. CASE ~(mem[o][w] = m2[o][w] \/ Covers(undo, o, w))
    <3>1. v.st.obj = o /\ w \in v.s.words
      BY <2>1, <2>3, <1>11 DEF Changes
    <3>2. w \in Uncovered(v.st)
      BY <3>1, <2>3, <1>7
    <3>3. v.st \in touched'
      BY <1>1, <1>5
    <3>4. QED
      BY <3>1, <3>2, <3>3
  <2>4. QED
    BY <2>2, <2>3
<1>15. touched \subseteq touched' /\ (level' > 0 => level > 0)
  BY <1>1
<1>16. RollbackComplete'
  BY <1>1, <1>9, <1>14, <1>15, RollbackKept
<1>17. mem' \in Memory /\ pre' \in Memory /\ runs' \in 0..MaxRuns
  BY <1>1, <1>9, <1>10, <1>11
<1>18. QED
  BY <1>16, <1>17 DEF MemInv, Memory, Word

\* A log.
LEMMA LogMemory ==
  ASSUME StackInv, MemInv, RunLog
  PROVE  MemInv'
<1>1. /\ undo' = Append(undo, Logged(Val.st.obj, Val.s)) /\ level' = level /\ runs' = runs /\ pre' = pre /\ touched' = touched /\ mem' = mem
  BY DEF RunLog
<1>2. PICK a, s, e, u2 : a = Val.st.obj /\ s = Val.s /\ e = Logged(a, s) /\ u2 = undo'
  OBVIOUS
<1>3. IsSeqOf(undo) /\ u2 = Append(undo, e)
  BY <1>1, <1>2 DEF StackInv
<1>4. Len(undo) \in Nat /\ Len(u2) = Len(undo) + 1 /\ Grows(u2, undo) /\ e = u2[Len(undo) + 1]
  BY <1>3, LogAppend
<1>5. mem \in Memory /\ runs \in 0..MaxRuns /\ pre \in Memory /\ RollbackComplete
  BY DEF MemInv
<1>6. DOMAIN mem = Object
  BY <1>5 DEF Memory
<1>7. ASSUME NEW o, NEW w, Hit(e, o, w) PROVE e.old[w] = mem[o][w]
  <2>1. PICK D : D = s.at..(s.at + s.elem - 1)
    OBVIOUS
  <2>2. e.obj = a /\ e.old = [x \in D |-> mem[a][x]]
    BY <2>1, <1>2 DEF Logged
  <2>3. a = o /\ w \in D
    BY <2>2, <1>7 DEF Hit
  <2>4. QED
    BY <2>2, <2>3
<1>8. Recovered = Back(mem, undo) /\ Recovered' = Back(mem, u2)
  BY <1>1, <1>2, RecoveredDef, RecoveredNext
<1>9. ASSUME NEW o \in Persistent, NEW w \in Word PROVE Recovered'[o][w] = Recovered[o][w]
  <2>1. o \in Object /\ (Hit(e, o, w) => e.old[w] = mem[o][w])
    BY <1>7, PersistentObject
  <2>2. Back(mem, u2)[o][w] = Back(mem, undo)[o][w]
    BY <2>1, <1>4, <1>6, BackLog
  <2>3. QED
    BY <2>2, <1>8
<1>10. RollbackComplete'
  BY <1>1, <1>5, <1>9, RollbackKept
<1>11. QED
  BY <1>1, <1>5, <1>10 DEF MemInv, Memory, Word

\* The outermost block begins with an empty log; an inner one changes nothing.
LEMMA BeginMemory ==
  ASSUME LevelInv, MemInv, Begin
  PROVE  MemInv'
<1>1. level' = level + 1 /\ undo' = undo /\ mem' = mem /\ runs' = runs
  BY DEF Begin
<1>2. mem \in Memory /\ runs \in 0..MaxRuns /\ pre \in Memory /\ RollbackComplete
  BY DEF MemInv
<1>3. level \in Nat /\ (level = 0 => undo = <<>>)
  BY DEF LevelInv, Levels
<1>4. CASE level = 0
  <2>1. pre' = mem /\ undo = <<>>
    BY <1>3, <1>4 DEF Begin
  <2>2. PICK f, u : f = BackFn(mem, undo) /\ u = undo
    OBVIOUS
  <2>3. Len(u) = 0 /\ Len(u) \in Nat
    BY <2>1, <2>2
  <2>4. BackOK(f, mem, u)
    BY <2>2, <2>3, BackDef
  <2>5. Recovered' = mem
    BY <2>2, <2>3, <2>4, <1>1, RecoveredNext DEF BackOK, Back
  <2>6. RollbackComplete'
    BY <2>1, <2>5 DEF RollbackComplete
  <2>7. QED
    BY <2>1, <2>6, <1>1, <1>2 DEF MemInv, Memory, Word
<1>5. CASE level # 0
  <2>1. pre' = pre /\ touched' = touched
    BY <1>5 DEF Begin
  <2>2. level > 0
    BY <1>3, <1>5
  <2>3. RollbackComplete'
    BY <2>1, <2>2, <1>1, <1>2, RollbackSame
  <2>4. QED
    BY <2>1, <2>3, <1>1, <1>2 DEF MemInv, Memory, Word
<1>6. QED
  BY <1>4, <1>5

\* The end.
LEMMA EndMemory ==
  ASSUME PassInv, StackInv, LevelInv, MemInv, End
  PROVE  MemInv'
<1>1. level' = level - 1 /\ mem' = mem /\ runs' = runs /\ pre' = pre /\ touched' = touched /\ At("end")
  BY DEF End
<1>2. mem \in Memory /\ runs \in 0..MaxRuns /\ pre \in Memory /\ RollbackComplete
  BY DEF MemInv
<1>3. level \in Nat /\ level # 0
  <2>1. PICK n, t : TopAt(n, t)
    BY <1>1, TopFacts DEF At
  <2>2. n = Len(frames) /\ n # 0 /\ Top.pc = "end"
    BY <2>1, <1>1 DEF TopAt, At
  <2>3. Levels(n, "end", level, left, gtx)
    BY <2>2 DEF LevelInv
  <2>4. level \in Nat
    BY <2>3 DEF Levels
  <2>5. QED
    BY <2>2, <2>3, <2>4, LevelMoves
<1>4. RollbackComplete'
  <2>1. CASE level = 1
    <3>1. ~(level' > 0)
      BY <2>1, <1>1
    <3>2. QED
      BY <3>1 DEF RollbackComplete
  <2>2. CASE level # 1
    <3>1. undo' = undo
      BY <2>2 DEF End
    <3>2. level > 0
      BY <1>3
    <3>3. QED
      BY <3>1, <3>2, <1>1, <1>2, RollbackSame
  <2>3. QED
    BY <2>1, <2>2
<1>5. QED
  BY <1>1, <1>2, <1>4 DEF MemInv, Memory, Word

\* Every step.
LEMMA MemStep ==
  ASSUME PassInv, StackInv, LevelInv, MemInv, [Next]_vars
  PROVE  MemInv'
<1>1. mem \in Memory /\ runs \in 0..MaxRuns /\ pre \in Memory /\ RollbackComplete
  BY DEF MemInv
<1>2. ASSUME mem' = mem, undo' = undo, pre' = pre, touched' = touched, level' = level, runs' \in 0..MaxRuns PROVE MemInv'
  <2>1. RollbackComplete'
    BY <1>1, <1>2, RollbackSame
  <2>2. QED
    BY <2>1, <1>1, <1>2 DEF MemInv, Memory, Word
<1>3. CASE LogStorePass \/ UNCHANGED vars
  <2>1. mem' = mem /\ undo' = undo /\ pre' = pre /\ touched' = touched /\ level' = level /\ runs' = runs
    BY <1>3 DEF LogStorePass, PassBlock, PassBlockEnd, PassSkip, PassVmem, PassPmem, PassTest, PassPanics, PassEnd, vars, txn
  <2>2. QED
    BY <2>1, <1>1, <1>2
<1>4. CASE Start
  <2>1. mem' = mem /\ undo' = undo /\ pre' = pre /\ touched' = touched /\ level' = level /\ runs' = runs + 1 /\ runs < MaxRuns
    BY <1>4 DEF Start, txn
  <2>2. runs' \in 0..MaxRuns
    <3>1. MaxRuns \in Nat
      BY BoundsAssumption
    <3>2. runs \in 0..MaxRuns /\ runs < MaxRuns /\ runs' = runs + 1
      BY <2>1, <1>1
    <3>3. QED
      BY <3>1, <3>2
  <2>3. QED
    BY <2>1, <2>2, <1>2
<1>5. CASE GetTxHandle \/ NewTxHandle \/ RunCall \/ RunJump \/ RunReturn \/ Release \/ Leave
  <2>1. mem' = mem /\ undo' = undo /\ pre' = pre /\ touched' = touched /\ level' = level /\ runs' = runs
    BY <1>5 DEF GetTxHandle, NewTxHandle, RunCall, RunJump, RunReturn, Release, Leave, txn
  <2>2. QED
    BY <2>1, <1>1, <1>2
<1>6. CASE Begin \/ RunStore \/ RunLog \/ End
  BY <1>6, BeginMemory, StoreMemory, LogMemory, EndMemory
<1>7. QED
  BY <1>3, <1>4, <1>5, <1>6 DEF Next, Run

\* Initially memory is zero and no transaction is open.
LEMMA MemInit ==
  ASSUME Init
  PROVE  MemInv
<1>1. mem = [o \in Object |-> [w \in Word |-> 0]] /\ runs = 0 /\ pre = mem /\ level = 0
  BY DEF Init
<1>2. 0 \in 0..MaxRuns
  BY BoundsAssumption
<1>3. mem \in Memory
  BY <1>1, <1>2 DEF Memory
<1>4. RollbackComplete
  BY <1>1 DEF RollbackComplete
<1>5. QED
  BY <1>1, <1>2, <1>3, <1>4 DEF MemInv

------------------------------------------------------------------------------
(* The theorems.                                                           *)

\* The inductive invariant: what the pass keeps of the source, where each call is in
\* its blocks and what the log has there, how many blocks are open, and what recovery
\* finds.
LogStoreInv == PassInv /\ StackInv /\ LevelInv /\ MemInv

\* It holds throughout the pass and the run.
THEOREM PassAndRun == Spec => []LogStoreInv
<1>1. Init => LogStoreInv
  BY PassInit, StackInit, MemInit DEF LogStoreInv
<1>2. LogStoreInv /\ [Next]_vars => LogStoreInv'
  BY PassStep, StackStep, MemStep DEF LogStoreInv
<1>3. QED
  BY <1>1, <1>2, PTL DEF Spec

\* The pass keeps a control flow graph with fitting phis, whose size is bounded by the
\* number of statements (TypeOK of the runs), for every program.
THEOREM TypeCorrect == Spec => []TypeOK
<1>1. LogStoreInv => TypeOK
  <2>1. SUFFICES ASSUME PassInv, StackInv, LevelInv, MemInv PROVE TypeOK
    BY DEF LogStoreInv
  <2>2. phase \in {"pass", "run", "failed"} /\ program \in Programs
    BY <2>1 DEF PassInv
  <2>3. ASSUME phase # "run"
        PROVE  /\ Len(blocks) <= 3 + 2 * Count(program[fn])
               /\ GraphOK(blocks) /\ done \subseteq DOMAIN blocks
    <3>1. PICK f, k : f = program[fn] /\ k = 3 + 2 * Count(f)
      OBVIOUS
    <3>2. fn \in 1..Len(program) /\ Compiling(blocks, f, done, cur.b, cur.i)
      BY <3>1, <2>1, <2>3 DEF PassInv
    <3>3. Count(f) \in Nat
      BY <3>1, <3>2, <2>2, FunctionStart
    <3>4. BlocksOK(blocks, Src(f)) /\ Bounded(blocks, k) /\ CurOK(blocks, done, cur.b, cur.i)
      BY <3>1, <3>2 DEF Compiling
    <3>5. blocks \in Seq(BlockRec) /\ GraphOK(blocks)
      BY <3>4 DEF BlocksOK
    <3>6. PICK l, c : l = Len(blocks) /\ c = Cardinality(Marks(blocks))
      OBVIOUS
    <3>7. l \in Nat /\ DOMAIN blocks = 1..l
      <4> HIDE DEF BlockRec
      <4> QED
        BY <3>5, <3>6
    <3>8. c \in Nat /\ l + 2 * c <= k
      BY <3>4, <3>6, FS_CardinalityType DEF Bounded
    <3>9. l <= k
      <4>1. k \in Nat
        BY <3>1, <3>3
      <4>2. QED
        BY <4>1, <3>7, <3>8
    <3>10. done \subseteq 1..l
      BY <3>4, <3>6 DEF CurOK
    <3>11. QED
      BY <3>1, <3>5, <3>6, <3>7, <3>9, <3>10
  <2>4. ASSUME phase = "run" PROVE GraphOK(blocks) /\ done \subseteq DOMAIN blocks
    <3>1. blocks = <<>> /\ done = {}
      BY <2>1, <2>4 DEF PassInv
    <3>2. DOMAIN blocks = {}
      BY <3>1
    <3>3. QED
      BY <3>1, <3>2 DEF GraphOK
  <2>5. \A n \in DOMAIN code : GraphOK(code[n])
    <3>1. code \in Seq(Seq(BlockRec)) /\ \A n \in 1..Len(code) : Compiled(code[n], program[n])
      BY <2>1 DEF PassInv
    <3>2. DOMAIN code = 1..Len(code)
      <4> HIDE DEF BlockRec
      <4> QED
        BY <3>1
    <3>3. QED
      BY <3>1, <3>2 DEF Compiled, BlocksOK
  <2>6. gtx \in BOOLEAN /\ level \in Nat /\ left \in Nat
    BY <2>1 DEF LevelInv, Levels
  <2>7. mem \in [Object -> [Word -> 0..MaxRuns]] /\ pre \in [Object -> [Word -> 0..MaxRuns]]
    BY <2>1 DEF MemInv, Memory
  <2>8. \A n \in DOMAIN frames : frames[n].pc \in {"get", "new", "begin", "body", "end", "release"}
    <3>1. frames \in Seq(Frame)
      BY <2>1 DEF StackInv, Stack
    <3>2. ASSUME NEW n \in DOMAIN frames PROVE frames[n] \in Frame
      <4> HIDE DEF Frame
      <4> QED
        BY <3>1
    <3>3. QED
      BY <3>2 DEF Frame, PCs
  <2>9. phase = "pass" => LET f == program[fn] IN Len(blocks) <= 3 + 2 * (Len(f.head) + Len(f.branch) + Len(f.tail))
    BY <2>3 DEF Count
  <2>10. GraphOK(blocks) /\ done \subseteq DOMAIN blocks
    BY <2>3, <2>4
  <2> HIDE DEF Word
  <2>11. QED
    BY <2>2, <2>5, <2>6, <2>7, <2>8, <2>9, <2>10 DEF TypeOK
<1>2. QED
  BY <1>1, PassAndRun, PTL

\* Whatever blocks and tests the pass inserts, a run of a function performs its stores
\* and calls in the order of the source, each once: for every program, every nesting of
\* calls and every path.
THEOREM StoresInOrderAlways == Spec => []StoresInOrder
<1>1. LogStoreInv => StoresInOrder
  <2>1. SUFFICES ASSUME PassInv, StackInv, NEW n \in DOMAIN frames
                 PROVE  LET f == program[frames[n].fn]
                        IN  \E path \in {Source(f.head) \o Source(f.branch) \o Source(f.tail),
                                         Source(f.head) \o Source(f.tail)} :
                              /\ IsPrefix(frames[n].ran, path)
                              /\ frames[n].pc \in {"end", "release"} => frames[n].ran = path
    BY DEF LogStoreInv, StoresInOrder
  <2>2. PICK fr, f, src : fr = frames[n] /\ f = program[fr.fn] /\ src = Src(f)
    OBVIOUS
  <2>3. FrameOK(fr, code, program, undo)
    <3>1. Stack(frames, code, program, undo)
      BY <2>1 DEF StackInv
    <3>2. frames \in Seq(Frame)
      BY <3>1 DEF Stack
    <3>3. n \in 1..Len(frames)
      <4> HIDE DEF Frame
      <4> QED
        BY <3>2
    <3>4. QED
      BY <3>1, <3>3, <2>2 DEF Stack
  <2>4. fr.fn \in 1..Len(code) /\ fr.pc \in PCs
    <3>1. fr \in Frame /\ fr.fn \in 1..Len(code)
      BY <2>3 DEF FrameOK
    <3>2. QED
      BY <3>1 DEF Frame
  <2>5. Ready(code[fr.fn], src) /\ SrcTyped(src)
    <3>1. Ready(code[fr.fn], src)
      BY <2>1, <2>2, <2>4, FnReady
    <3>2. QED
      BY <3>1 DEF Ready
  <2>6. \E k \in {1, 2} : IsPrefix(fr.ran, PathOf(src, k)) /\ (fr.pc \in {"end", "release"} => fr.ran = PathOf(src, k))
    <3>1. CASE fr.pc \in {"get", "new", "begin"}
      <4>1. fr.ran = <<>>
        BY <3>1, <2>3 DEF FrameOK
      <4>2. RunAt(fr.ran, src, 1, 0)
        BY <4>1, <2>5, RunFirst
      <4>3. RunPart(fr.ran, src)
        BY <4>2, <2>5, RunFacts
      <4>4. QED
        BY <4>3, <3>1 DEF RunPart
    <3>2. CASE fr.pc = "body"
      <4>1. InBody(code[fr.fn], src, fr.b, fr.i, fr.ran, undo)
        BY <3>2, <2>2, <2>3 DEF FrameOK
      <4>2. RunPart(fr.ran, src)
        BY <4>1, <2>5, BodyRan
      <4>3. QED
        BY <4>2, <3>2 DEF RunPart
    <3>3. CASE fr.pc \in {"end", "release"}
      <4>1. RunDone(fr.ran, src)
        BY <3>3, <2>2, <2>3 DEF FrameOK
      <4>2. PICK k \in {1, 2} : fr.ran = PathOf(src, k)
        BY <4>1 DEF RunDone
      <4>3. IsPath(PathOf(src, k), src, k)
        BY <2>5, PathFacts
      <4>4. fr.ran \in Seq(Eff)
        BY <4>2, <4>3 DEF IsPath
      <4>5. IsPrefix(fr.ran, fr.ran)
        <5> HIDE DEF Eff
        <5>1. Len(fr.ran) \in Nat
          BY <4>4
        <5>2. Len(fr.ran) <= Len(fr.ran) /\ \A j \in 1..Len(fr.ran) : fr.ran[j] = fr.ran[j]
          BY <5>1
        <5>3. QED
          BY <5>2, <4>4, Agree
      <4>6. QED
        BY <4>2, <4>5
    <3>4. QED
      BY <3>1, <3>2, <3>3, <2>4 DEF PCs
  <2>7. src[1] = Lower(f.head) /\ src[2] = Lower(f.branch) /\ src[3] = Lower(f.tail)
    BY <2>2 DEF Src
  <2>8. EffOf(src[1]) = Source(f.head) /\ EffOf(src[2]) = Source(f.branch) /\ EffOf(src[3]) = Source(f.tail)
    BY <2>7 DEF EffOf, Source
  <2>9. PICK h, b, t : h = Source(f.head) /\ b = Source(f.branch) /\ t = Source(f.tail)
    OBVIOUS
  <2>10. PathOf(src, 1) = Cat(Cat(h, b), t) /\ PathOf(src, 2) = Cat(h, t)
    BY <2>8, <2>9 DEF PathOf
  <2>11. PathOf(src, 1) = h \o b \o t /\ PathOf(src, 2) = h \o t
    BY <2>10, Zenon DEF Cat
  <2>12. \E path \in {h \o b \o t, h \o t} : IsPrefix(fr.ran, path) /\ (fr.pc \in {"end", "release"} => fr.ran = path)
    BY <2>6, <2>11, Zenon
  <2>13. QED
    BY <2>2, <2>9, <2>12, Zenon
<1>2. QED
  BY <1>1, PassAndRun, PTL

\* As long as no block is left by a jump or a panic, the goroutine has a handle exactly
\* while it is in a block, the transaction counts the open blocks, and outside all of
\* them the log is empty: for every nesting.
THEOREM HandleMatchesBlocksAlways == Spec => []HandleMatchesBlocks
<1>1. LogStoreInv => HandleMatchesBlocks
  <2> DEFINE In(pcs) == {n \in DOMAIN frames : frames[n].pc \in pcs}
  <2>1. SUFFICES ASSUME StackInv, LevelInv, left = 0
                 PROVE  /\ gtx <=> In({"begin", "body", "end", "release"}) # {}
                        /\ level = Cardinality(In({"body", "end"}))
                        /\ level = 0 => undo = <<>>
    BY DEF LogStoreInv, HandleMatchesBlocks
  <2>2. PICK N, pc : N = Len(frames) /\ pc = Top.pc
    OBVIOUS
  <2>3. Levels(N, pc, level, left, gtx) /\ (level = 0 => undo = <<>>)
    BY <2>1, <2>2 DEF LevelInv
  <2>4. N \in Nat /\ DOMAIN frames = 1..N /\ (\A n \in 1..(N - 1) : frames[n].pc = "body") /\ frames[N].pc = pc
    <3>1. frames \in Seq(Frame) /\ \A n \in 1..(Len(frames) - 1) : frames[n].pc = "body"
      BY <2>1 DEF StackInv, Stack
    <3> HIDE DEF Frame
    <3>2. N \in Nat /\ DOMAIN frames = 1..N
      BY <3>1, <2>2
    <3>3. QED
      BY <3>1, <3>2, <2>2 DEF Top
  <2>5. CASE N = 0
    <3>1. level = 0 /\ gtx = FALSE
      BY <2>1, <2>3, <2>5 DEF Levels
    <3>2. DOMAIN frames = {}
      BY <2>4, <2>5
    <3>3. In({"begin", "body", "end", "release"}) = {} /\ In({"body", "end"}) = {}
      BY <3>2
    <3>4. Cardinality(In({"body", "end"})) = 0
      BY <3>3, FS_EmptySet
    <3> HIDE DEF In
    <3>5. QED
      BY <3>1, <3>3, <3>4, <2>3
  <2>6. CASE N # 0
    <3>1. N \in 1..N /\ \A n \in 1..N : n = N \/ n \in 1..(N - 1)
      BY <2>4, <2>6
    <3>2. gtx <=> In({"begin", "body", "end", "release"}) # {}
      <4>1. CASE N > 1 \/ pc \in {"begin", "body", "end", "release"}
        <5>1. gtx = TRUE
          BY <4>1, <2>3, <2>6 DEF Levels
        <5>2. In({"begin", "body", "end", "release"}) # {}
          <6>1. CASE N > 1
            <7>1. 1 \in 1..N /\ 1 \in 1..(N - 1)
              BY <6>1, <2>4
            <7>2. QED
              BY <7>1, <2>4
          <6>2. CASE pc \in {"begin", "body", "end", "release"}
            BY <6>2, <3>1, <2>4
          <6>3. QED
            BY <6>1, <6>2, <4>1
        <5> HIDE DEF In
        <5>3. QED
          BY <5>1, <5>2
      <4>2. CASE ~(N > 1 \/ pc \in {"begin", "body", "end", "release"})
        <5>1. gtx = FALSE
          BY <4>2, <2>1, <2>3, <2>6 DEF Levels
        <5>2. \A n \in 1..N : n = N
          BY <4>2, <2>4
        <5>3. In({"begin", "body", "end", "release"}) = {}
          BY <5>2, <4>2, <2>4
        <5> HIDE DEF In
        <5>4. QED
          BY <5>1, <5>3
      <4>3. QED
        BY <4>1, <4>2
    <3>3. level = Cardinality(In({"body", "end"}))
      <4>1. CASE pc \in {"body", "end"}
        <5>1. level = N
          BY <4>1, <2>1, <2>3, <2>6 DEF Levels
        <5>2. In({"body", "end"}) = 1..N
          BY <4>1, <3>1, <2>4
        <5>3. Cardinality(1..N) = N
          BY <2>4, <2>6, FS_Interval
        <5> HIDE DEF In
        <5>4. QED
          BY <5>1, <5>2, <5>3
      <4>2. CASE pc \notin {"body", "end"}
        <5>1. level = N - 1
          BY <4>2, <2>1, <2>3, <2>6 DEF Levels
        <5>2. N \notin 1..(N - 1) /\ \A n \in 1..(N - 1) : n \in 1..N
          BY <2>4
        <5>3. In({"body", "end"}) = 1..(N - 1)
          BY <5>2, <4>2, <3>1, <2>4
        <5>4. Cardinality(1..(N - 1)) = N - 1
          <6>1. PICK M : M = N - 1
            OBVIOUS
          <6>2. M \in Int /\ 1 \in Int /\ M >= 0
            BY <6>1, <2>4, <2>6
          <6>3. Cardinality(1..M) = IF 1 > M THEN 0 ELSE M - 1 + 1
            BY <6>2, FS_Interval
          <6>4. (IF 1 > M THEN 0 ELSE M - 1 + 1) = M
            BY <6>2
          <6>5. QED
            BY <6>1, <6>3, <6>4
        <5> HIDE DEF In
        <5>5. QED
          BY <5>1, <5>3, <5>4
      <4>3. QED
        BY <4>1, <4>2
    <3> HIDE DEF In
    <3>4. QED
      BY <3>2, <3>3, <2>3
  <2>7. QED
    BY <2>5, <2>6
<1>2. QED
  BY <1>1, PassAndRun, PTL

\* A power failure at any step of a transaction: undoing the log brings every persistent
\* word back to what it was at the outermost Begin, but for the words that Uncovered
\* lists.  For every program, memory and path.
THEOREM RollbackCompleteAlways == Spec => []RollbackComplete
<1>1. LogStoreInv => RollbackComplete
  BY DEF LogStoreInv, MemInv
<1>2. QED
  BY <1>1, PassAndRun, PTL
==============================================================================
