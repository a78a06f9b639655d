--------------------------- MODULE SpanTableProofs ---------------------------
(***************************************************************************)
(* The span table of an arena always parses, fresh memory is zero until    *)
(* the first restart, and reachable objects are found again after every    *)
(* restart, for every size of the arena, every number of processors and    *)
(* types, and any number of power failures.                                *)
(***************************************************************************)
EXTENDS SpanTable, FiniteSetTheorems, WellFoundedInduction, TLAPS

------------------------------------------------------------------------------
(* The entries of the span table can be decoded: for every span that       *)
(* mallocgc may log, every table of pages per size class and every width   *)
(* of an entry.                                                            *)

\* Truncation to the width of an entry changes nothing that fits.
LEMMA ModuloId ==
  ASSUME NEW v \in Nat, NEW n \in Nat, v < n
  PROVE  v % n = v
OBVIOUS

\* The fields of a large span's value do not overlap.
LEMMA LargeFields ==
  ASSUME NEW n \in Nat, NEW c \in 0..1, NEW z \in 0..1
  PROVE  LET v == n * 8 + c * 4 + z
         IN  /\ (v \div 4) % 2 = c
             /\ v \div 8 = n
             /\ (v \div 2) % 2 = 0
             /\ v % 2 = z
OBVIOUS

\* An entry of a small span carries the span class and the two flags at their
\* bit positions, and is at most maxSmallSpanLogVal.
LEMMA SmallValue ==
  ASSUME NEW s \in SmallSpan
  PROVE  /\ SpanLogValue(s) = s.spanclass * 4 + s.opt * 2 + s.needzero
         /\ SpanLogValue(s) \in 8..MaxSmallSpanLogVal
<1>1. /\ s.spanclass \in 2..133 /\ s.opt \in 0..1 /\ s.needzero \in 0..1
  BY DEF SmallSpan, Bit, MaxSmallSpanclass, NumSizeClasses
<1>2. ~IsLarge(s)
  BY <1>1 DEF IsLarge, Sizeclass
<1>3. LogLimit \in Nat /\ LogLimit > 535
  BY LogLimitAssumption DEF MaxSmallSpanLogVal, MaxSmallSpanclass, NumSizeClasses
<1> DEFINE v == s.spanclass * 4 + s.opt * 2 + s.needzero
<1>4. SpanLogValue(s) = v % LogLimit
  BY <1>2 DEF SpanLogValue
<1>5. v \in 8..535
  BY <1>1
<1> HIDE DEF v
<1>6. v % LogLimit = v
  BY <1>3, <1>5, ModuloId
<1> QED
  BY <1>4, <1>5, <1>6 DEF v, MaxSmallSpanLogVal, MaxSmallSpanclass, NumSizeClasses

\* An entry of a large span is not truncated to 32 bits and lies above
\* maxSmallSpanLogVal, so createSpan tells the two kinds apart.
LEMMA LargeValue ==
  ASSUME NEW s \in LargeSpan
  PROVE  /\ SpanLogValue(s) = (67 + s.npages - 4) * 8 + s.spanclass * 4 + s.needzero
         /\ SpanLogValue(s) \in Nat
         /\ SpanLogValue(s) > MaxSmallSpanLogVal
<1>1. /\ s.spanclass \in 0..1 /\ s.needzero \in 0..1 /\ s.npages \in Nat
      /\ s.npages > 4
      /\ (67 + s.npages - 4) * 8 + 7 < LogLimit
  BY DEF LargeSpan, Bit, PageSize, MaxSmallSize
<1>2. IsLarge(s)
  BY <1>1 DEF IsLarge, Sizeclass, PageSize, MaxSmallSize
<1> DEFINE v == (67 + s.npages - 4) * 8 + s.spanclass * 4 + s.needzero
<1>3. v \in Nat /\ v < LogLimit /\ v > 535
  BY <1>1, LogLimitAssumption
<1>4. v % LogLimit = v
  BY <1>3, LogLimitAssumption, ModuloId
<1> QED
  BY <1>2, <1>3, <1>4 DEF SpanLogValue, MaxSmallSpanLogVal, MaxSmallSpanclass, NumSizeClasses

\* No span is logged as 0, the value that logSpanFree writes and that
\* reconstruct takes for free pages.
THEOREM NeverLoggedAsFree ==
  ASSUME NEW s \in Span
  PROVE  SpanLogValue(s) # 0
<1>1. CASE s \in SmallSpan
  BY <1>1, SmallValue DEF MaxSmallSpanLogVal, MaxSmallSpanclass, NumSizeClasses
<1>2. CASE s \in LargeSpan
  BY <1>2, LargeValue DEF MaxSmallSpanLogVal, MaxSmallSpanclass, NumSizeClasses
<1> QED
  BY <1>1, <1>2 DEF Span

\* createSpan is a left inverse of spanLogValue on every span that can be
\* logged: after a restart a span has the class, the pages and the flags it
\* was logged with.
THEOREM Decodable ==
  ASSUME NEW s \in Span
  PROVE  CreateSpan(SpanLogValue(s)) = s
<1>1. CASE s \in SmallSpan
  <2>1. /\ s = [spanclass |-> s.spanclass, npages |-> s.npages, opt |-> s.opt, needzero |-> s.needzero]
        /\ s.spanclass \in 2..133 /\ s.opt \in 0..1 /\ s.needzero \in 0..1
        /\ s.npages = ClassToAllocNPages[s.spanclass \div 2]
    BY <1>1 DEF SmallSpan, Bit, MaxSmallSpanclass, NumSizeClasses, Sizeclass
  <2> DEFINE v == s.spanclass * 4 + s.opt * 2 + s.needzero
  <2>2. SpanLogValue(s) = v /\ ~(v > MaxSmallSpanLogVal)
    BY <1>1, <2>1, SmallValue DEF MaxSmallSpanLogVal, MaxSmallSpanclass, NumSizeClasses
  <2>3. /\ v \div 4 = s.spanclass
        /\ v \div 8 = s.spanclass \div 2
        /\ (v \div 2) % 2 = s.opt
        /\ v % 2 = s.needzero
    BY <2>1
  <2> HIDE DEF v
  <2> QED
    BY <2>1, <2>2, <2>3 DEF CreateSpan
<1>2. CASE s \in LargeSpan
  <2>1. /\ s = [spanclass |-> s.spanclass, npages |-> s.npages, opt |-> s.opt, needzero |-> s.needzero]
        /\ s.spanclass \in 0..1 /\ s.opt = 0 /\ s.needzero \in 0..1
        /\ s.npages \in Nat /\ s.npages > 4
    BY <1>2 DEF LargeSpan, Bit, PageSize, MaxSmallSize
  <2> DEFINE v == (67 + s.npages - 4) * 8 + s.spanclass * 4 + s.needzero
  <2>2. SpanLogValue(s) = v /\ v > MaxSmallSpanLogVal
    BY <1>2, LargeValue
  <2>3. /\ (v \div 4) % 2 = s.spanclass
        /\ (v \div 8) - 67 + 4 = s.npages
        /\ (v \div 2) % 2 = s.opt
        /\ v % 2 = s.needzero
    <3> DEFINE n == 67 + s.npages - 4
               c == s.spanclass
               z == s.needzero
    <3>1. /\ n \in Nat /\ c \in 0..1 /\ z \in 0..1
          /\ n - 67 + 4 = s.npages
      BY <2>1
    <3>2. v = n * 8 + c * 4 + z
      OBVIOUS
    <3> HIDE DEF n, c, z, v
    <3>3. /\ (v \div 4) % 2 = c
          /\ v \div 8 = n
          /\ (v \div 2) % 2 = 0
          /\ v % 2 = z
      BY <3>1, <3>2, LargeFields
    <3> QED
      BY <2>1, <3>1, <3>3 DEF c, z
  <2>4. MakeSpanClass(0, s.spanclass) = s.spanclass
    BY <2>1 DEF MakeSpanClass
  <2> HIDE DEF v
  <2> QED
    BY <2>1, <2>2, <2>3, <2>4 DEF CreateSpan
<1> QED
  BY <1>1, <1>2 DEF Span

------------------------------------------------------------------------------
(* The inductive invariant.                                                *)

JobSet == {Idle} \cup [pc : {"bits", "meta", "persist", "fence", "return"}, typ : Type, base : Page,
                       slot : Granule, new : BOOLEAN]

\* What logSpanAlloc logs of a span.
Desc(s) == [spanclass |-> s.spanclass, npages |-> s.npages, opt |-> IF s.typIndex # 0 THEN 1 ELSE 0,
            needzero |-> s.needzero]

\* A span that starts at page b: one that can be logged, inside the arena, its
\* allocated slots among its slots.
GoodSpan(s, b) == /\ s \in SpanSet /\ Desc(s) \in Span
                  /\ b + s.npages <= NPages
                  /\ s.alloc \subseteq Slots(s)

\* An entry of the span table that reconstruct can read.
Valid(v) == CreateSpan(v) \in Span

\* The pages from b on that belong to a span in use or to one that is being freed.
Taken(b) == IF spans[b] # NoSpan THEN spans[b].npages
            ELSE IF freeing # <<>> /\ freeing[1] = b THEN freeing[2] ELSE 0

SpanInv == /\ spans \in [Page -> SpanSet] /\ job \in [P -> JobSet]
           /\ \A b \in Page : spans[b] # NoSpan => GoodSpan(spans[b], b)

\* No page belongs to two spans, or to a span and to the page allocator.
ApartInv == /\ \A b, c \in Page : b < c /\ Taken(b) > 0 /\ Taken(c) > 0 => b + Taken(b) <= c
            /\ \A b \in Page : Taken(b) > 0 => PagesOf(b, Taken(b)) \cap freePages = {}
            /\ freeing # <<>> => /\ mode = "run"
                                 /\ spans[freeing[1]] = NoSpan
                                 /\ freeing[1] + freeing[2] <= NPages

\* Objects that are being allocated have slots of their own.
JobInv == /\ \A p \in P : job[p] # Idle => /\ mode = "run"
                                           /\ job[p].base \in InUse
                                           /\ job[p].slot \in spans[job[p].base].alloc
          /\ \A p, q \in P : p # q /\ job[p] # Idle /\ job[q] # Idle =>
               job[p].base # job[q].base \/ job[p].slot # job[q].slot

\* While the program runs, an entry describes the span that starts there; the durable
\* copy may still describe it when the span is being freed.
RunInv == mode = "run" =>
            /\ cursor = 0
            /\ \A b \in Page : /\ spanLog[b] # 0 => /\ Valid(spanLog[b]) /\ b \in InUse
                                                    /\ CreateSpan(spanLog[b]).npages = spans[b].npages
                               /\ dSpanLog[b] # 0 => /\ Valid(dSpanLog[b])
                                                     /\ CreateSpan(dSpanLog[b]).npages = Taken(b)

\* Otherwise the table is what the power failure has left, and reconstruct has made
\* a span of every entry in front of the cursor.
ReconInv == mode # "run" =>
              /\ spanLog = dSpanLog /\ prof = <<>> /\ cache = [p \in P |-> {}]
              /\ \A b \in Page : spanLog[b] # 0 =>
                   /\ Valid(spanLog[b])
                   /\ b + CreateSpan(spanLog[b]).npages <= NPages
                   /\ \A c \in (b + 1)..(b + CreateSpan(spanLog[b]).npages - 1) : spanLog[c] = 0
              /\ mode = "types" => cursor = 0
              /\ freePages \subseteq 0..(cursor - 1)
              /\ \A b \in Page :
                   IF b < cursor /\ spanLog[b] # 0
                   THEN /\ spans[b] # NoSpan
                        /\ spans[b].npages = CreateSpan(spanLog[b]).npages
                        /\ b + spans[b].npages <= cursor
                   ELSE spans[b] = NoSpan

\* The granules of slot k of a span at page b with elements of e granules.
Cells(b, e, k) == (b * G + k * e)..(b * G + k * e + e - 1)

\* Before the first restart, memory behind zeroedBase has never been written, what has
\* been written in a slot that is free is known to need zeroing, and the slots that are
\* being allocated are clear.
ZeroInv == crashes = 0 =>
             /\ mode = "run"
             /\ dirty \subseteq 0..(zeroedBase * G - 1)
             /\ \A b \in Page : spans[b] # NoSpan => b + spans[b].npages <= zeroedBase
             /\ \A b \in Page : spans[b] # NoSpan /\ spans[b].needzero = 0 =>
                  \A k \in Slots(spans[b]) \ spans[b].alloc : Cells(b, ElemSize(spans[b]), k) \cap dirty = {}
             /\ \A p \in P : job[p] # Idle =>
                  Cells(job[p].base, ElemSize(spans[job[p].base]), job[p].slot) \cap dirty = {}

IInv == TypeOK /\ SpanInv /\ ApartInv /\ JobInv /\ RunInv /\ ReconInv /\ ZeroInv

------------------------------------------------------------------------------
(* Arithmetic and constants.                                               *)

\* The constants of the arena.
LEMMA Consts ==
  /\ NPages \in Nat /\ NPages > 0 /\ G \in Nat /\ G > 0 /\ NPages * G \in Nat
  /\ MaxCacheTypes \in Nat /\ MaxCacheTypes >= 2 /\ MaxCrashes \in Nat
  /\ Page \subseteq Nat /\ Granule \subseteq Nat
  /\ LogLimit \in Nat /\ (67 + NPages) * 8 < LogLimit
<1>1. NPages * G \in Nat
  BY ArenaAssumption
<1>2. QED
  BY <1>1, ArenaAssumption, LogLimitAssumption DEF Page, Granule

\* Whole multiples do not pass each other.
LEMMA Multiples ==
  ASSUME NEW x \in Nat, NEW y \in Nat, NEW s \in Nat, x <= y
  PROVE  /\ x * s \in Nat /\ y * s \in Nat /\ x * s <= y * s
         /\ x < y => x * s + s <= y * s
<1>1. PICK d \in Nat : y = x + d
  <2>1. y - x \in Nat /\ y = x + (y - x)
    OBVIOUS
  <2>2. QED
    BY <2>1
<1>2. y * s = x * s + d * s /\ d * s \in Nat /\ x * s \in Nat /\ y * s \in Nat
  BY <1>1
<1>3. ASSUME x < y
      PROVE  s <= d * s
  <2>1. PICK e \in Nat : d = 1 + e
    <3>1. d - 1 \in Nat /\ d = 1 + (d - 1)
      BY <1>1, <1>3
    <3>2. QED
      BY <3>1
  <2>2. d * s = s + e * s /\ e * s \in Nat
    BY <2>1
  <2>3. QED
    BY <2>2
<1>4. QED
  BY <1>2, <1>3

\* Division rounds down.
LEMMA Quotient ==
  ASSUME NEW x \in Nat, NEW e \in Nat, e > 0
  PROVE  /\ x \div e \in Nat /\ (x \div e) * e \in Nat /\ (x \div e) * e <= x /\ x \div e <= x
         /\ e <= x => x \div e >= 1
<1> DEFINE q == x \div e
<1>1. q \in Nat /\ x = e * q + (x % e) /\ x % e \in Nat /\ x % e < e
  OBVIOUS
<1> HIDE DEF q
<1>2. q * e \in Nat /\ q * e = e * q
  BY <1>1
<1>3. q <= q * e
  <2>1. PICK d \in Nat : e = 1 + d
    <3>1. e - 1 \in Nat /\ e = 1 + (e - 1)
      OBVIOUS
    <3>2. QED
      BY <3>1
  <2>2. q * e = q + q * d /\ q * d \in Nat
    BY <2>1, <1>1
  <2>3. QED
    BY <2>2, <1>1
<1>4. q * e <= x
  BY <1>1, <1>2
<1>5. e <= x => q >= 1
  <2>1. q = 0 => e * q = 0
    BY <1>1
  <2>2. QED
    BY <2>1, <1>1
<1>6. QED
  BY <1>1, <1>2, <1>3, <1>4, <1>5 DEF q

\* The minimum of a set of numbers.
LEMMA MinOf ==
  ASSUME NEW S \in SUBSET Nat, S # {}
  PROVE  Min(S) \in S /\ \A x \in S : Min(S) <= x
<1>1. \E m \in S : \A x \in S : m <= x
  <2>1. IsWellFoundedOn(OpToRel(<, Nat), Nat)
    BY NatLessThanWellFounded
  <2>2. PICK m \in S : \A y \in S : ~(<<y, m>> \in OpToRel(<, Nat))
    BY <2>1, WFMin
  <2>3. \A x \in S : ~(x < m)
    BY <2>2 DEF OpToRel
  <2>4. QED
    BY <2>3
<1>2. QED
  BY <1>1 DEF Min

\* The maximum of a bounded set of numbers.
LEMMA MaxOf ==
  ASSUME NEW N \in Nat, NEW S \in SUBSET (0..N), S # {}
  PROVE  Max(S) \in S /\ \A x \in S : Max(S) >= x
<1> DEFINE T == {N - x : x \in S}
<1>1. T \subseteq Nat /\ T # {}
  <2>1. \A x \in S : N - x \in Nat
    OBVIOUS
  <2>2. PICK x \in S : TRUE
    OBVIOUS
  <2>3. N - x \in T
    OBVIOUS
  <2>4. QED
    BY <2>1, <2>3
<1>2. PICK m \in T : \A y \in T : m <= y
  BY <1>1, MinOf
<1>3. PICK s \in S : m = N - s
  BY <1>2
<1>4. \A x \in S : s >= x
  <2>1. ASSUME NEW x \in S
        PROVE  s >= x
    <3>1. N - x \in T /\ N - s <= N - x
      BY <1>2, <1>3
    <3>2. QED
      BY <3>1
  <2>2. QED
    BY <2>1
<1>5. QED
  BY <1>3, <1>4 DEF Max

------------------------------------------------------------------------------
(* Spans and their slots.                                                  *)

\* The pages, element size and slots of a span that can be logged.
LEMMA SpanFacts ==
  ASSUME NEW s \in SpanSet, Desc(s) \in Span
  PROVE  /\ s.npages \in Nat /\ s.npages >= 1 /\ s.npages * G \in Nat
         /\ ElemSize(s) \in Nat /\ ElemSize(s) > 0 /\ ElemSize(s) <= s.npages * G
         /\ 0 \in Slots(s) /\ Slots(s) \subseteq Nat
         /\ \A k \in Slots(s) : /\ k * ElemSize(s) \in Nat
                                /\ k * ElemSize(s) + ElemSize(s) <= s.npages * G
                                /\ k < s.npages * G
<1>1. s.spanclass \in Nat /\ s.npages \in Nat
  BY Consts DEF SpanSet
<1>2. Desc(s).spanclass = s.spanclass /\ Desc(s).npages = s.npages
  BY DEF Desc
<1> DEFINE n == s.npages
           e == ElemSize(s)
<1>3. n >= 1 /\ e \in Nat /\ e > 0 /\ e <= n * G /\ n * G \in Nat
  <2>1. CASE Desc(s) \in SmallSpan
    <3> DEFINE c == Sizeclass(s.spanclass)
    <3>1. s.spanclass \in 2..133 /\ n = ClassToAllocNPages[c]
      BY <1>2, <2>1 DEF SmallSpan, MaxSmallSpanclass, NumSizeClasses
    <3>2. c \in 1..66 /\ c # 0
      BY <3>1 DEF Sizeclass
    <3> HIDE DEF c
    <3>3. n \in Nat \ {0} /\ ClassToSize[c] \in Nat \ {0} /\ ClassToSize[c] <= n * G
      BY <3>1, <3>2, ClassAssumption, TypeAssumption DEF NumSizeClasses
    <3>4. e = ClassToSize[c]
      BY <3>2 DEF ElemSize, c
    <3>5. n * G \in Nat
      BY <3>3, Consts
    <3>6. QED
      BY <3>3, <3>4, <3>5
  <2>2. CASE Desc(s) \in LargeSpan
    <3>1. s.spanclass \in 0..1 /\ n * 8192 > 32768
      BY <1>2, <2>2 DEF LargeSpan, Bit, PageSize, MaxSmallSize
    <3>2. Sizeclass(s.spanclass) = 0 /\ n >= 1
      BY <1>1, <3>1 DEF Sizeclass
    <3>3. e = n * G
      BY <3>2 DEF ElemSize
    <3>4. n * G \in Nat /\ G <= n * G
      <4>1. 1 * G = G
        BY Consts
      <4>2. QED
        BY <4>1, <3>2, <1>1, Consts, Multiples
    <3>5. QED
      BY <3>2, <3>3, <3>4, Consts
  <2>3. QED
    BY <2>1, <2>2 DEF Span
<1>4. Slots(s) = 0..((n * G) \div e - 1)
  BY DEF Slots
<1> HIDE DEF n, e
<1> DEFINE q == (n * G) \div e
<1>5. q \in Nat /\ q * e <= n * G /\ q * e \in Nat /\ q <= n * G /\ q >= 1
  BY <1>3, Quotient
<1>6. Slots(s) = 0..(q - 1)
  BY <1>4
<1> HIDE DEF q
<1>7. ASSUME NEW k \in Slots(s)
      PROVE  k * e \in Nat /\ k * e + e <= n * G /\ k < n * G
  <2>1. k \in Nat /\ k < q
    BY <1>5, <1>6
  <2>2. k * e \in Nat /\ k * e + e <= q * e
    BY <2>1, <1>3, <1>5, Multiples
  <2>3. QED
    BY <2>1, <2>2, <1>3, <1>5
<1>8. 0 \in Slots(s) /\ Slots(s) \subseteq Nat
  BY <1>5, <1>6
<1>9. QED
  BY <1>1, <1>3, <1>7, <1>8 DEF n, e

\* The slots of a span lie inside it, and the span inside the arena.
LEMMA SlotInside ==
  ASSUME NEW b \in Page, NEW s, GoodSpan(s, b), NEW k \in Slots(s)
  PROVE  /\ Cells(b, ElemSize(s), k) \subseteq GranulesOf(b, s.npages)
         /\ GranulesOf(b, s.npages) \subseteq Granule
         /\ b * G + k * ElemSize(s) \in Granule
         /\ b * G + k * ElemSize(s) \in GranulesOf(b, s.npages)
         /\ k \in Granule
<1> DEFINE n == s.npages
           e == ElemSize(s)
<1>1. /\ n \in Nat /\ n >= 1 /\ e \in Nat /\ e > 0 /\ k * e \in Nat /\ k * e + e <= n * G
      /\ n * G \in Nat /\ k \in Nat /\ k < n * G
      /\ b + n <= NPages /\ b \in Nat
  BY SpanFacts, Consts DEF GoodSpan
<1> HIDE DEF n, e
<1>2. /\ b * G \in Nat /\ (b + n) * G \in Nat /\ (b + n) * G = b * G + n * G
      /\ (b + n) * G <= NPages * G /\ NPages * G \in Nat
  <2>1. b + n \in Nat /\ (b + n) * G <= NPages * G
    BY <1>1, Consts, Multiples
  <2>2. QED
    BY <2>1, <1>1, Consts
<1>3. Granule = 0..(NPages * G - 1)
  BY DEF Granule
<1> DEFINE x == b * G
           y == k * e
           z == n * G
           m == NPages * G
<1>4. /\ x \in Nat /\ y \in Nat /\ z \in Nat /\ m \in Nat /\ y + e <= z /\ x + z <= m
      /\ (b + n) * G = x + z
      /\ k < z
  BY <1>1, <1>2
<1>5. /\ Cells(b, e, k) = (x + y)..(x + y + e - 1)
      /\ GranulesOf(b, n) = x..(x + z - 1)
      /\ Granule = 0..(m - 1)
  BY <1>3, <1>4 DEF Cells, GranulesOf
<1>6. b * G + k * e = x + y
  OBVIOUS
<1> HIDE DEF x, y, z, m
<1>7. /\ Cells(b, e, k) \subseteq GranulesOf(b, n)
      /\ GranulesOf(b, n) \subseteq Granule
      /\ x + y \in Granule /\ x + y \in GranulesOf(b, n) /\ k \in Granule
  BY <1>1, <1>4, <1>5
<1>8. QED
  BY <1>6, <1>7 DEF n, e

\* Two slots of a span have no granule in common.
LEMMA SlotsApart ==
  ASSUME NEW b \in Nat, NEW e \in Nat, NEW k \in Nat, NEW l \in Nat, k # l
  PROVE  Cells(b, e, k) \cap Cells(b, e, l) = {}
<1> DEFINE x == b * G
           y == k * e
           z == l * e
<1>1. x \in Nat /\ y \in Nat /\ z \in Nat
  BY Consts
<1>2. y + e <= z \/ z + e <= y
  BY Multiples
<1>3. Cells(b, e, k) = (x + y)..(x + y + e - 1) /\ Cells(b, e, l) = (x + z)..(x + z + e - 1)
  BY DEF Cells
<1> HIDE DEF x, y, z
<1>4. QED
  BY <1>1, <1>2, <1>3

\* Spans that have no page in common have no granule in common.
LEMMA SpansApart ==
  ASSUME NEW b \in Nat, NEW c \in Nat, NEW n \in Nat, NEW m \in Nat, b + n <= c
  PROVE  GranulesOf(b, n) \cap GranulesOf(c, m) = {}
<1> DEFINE x == (b + n) * G
           y == c * G
<1>1. x \in Nat /\ y \in Nat /\ x <= y
  <2>1. b + n \in Nat
    OBVIOUS
  <2>2. QED
    BY <2>1, Consts, Multiples
<1>2. b * G \in Nat /\ (c + m) * G \in Nat
  BY Consts
<1>3. GranulesOf(b, n) = (b * G)..(x - 1) /\ GranulesOf(c, m) = y..((c + m) * G - 1)
  BY DEF GranulesOf
<1> HIDE DEF x, y
<1>4. QED
  BY <1>1, <1>2, <1>3

\* The entry of a span says how many pages it has.
LEMMA LogFacts ==
  ASSUME NEW s, Desc(s) \in Span
  PROVE  /\ LogValue(s) # 0 /\ LogValue(s) \in Nat
         /\ CreateSpan(LogValue(s)) = Desc(s)
         /\ Valid(LogValue(s)) /\ CreateSpan(LogValue(s)).npages = s.npages
<1>1. LogValue(s) = SpanLogValue(Desc(s))
  BY DEF LogValue, Desc
<1>2. CreateSpan(LogValue(s)) = Desc(s) /\ LogValue(s) # 0
  BY <1>1, Decodable, NeverLoggedAsFree
<1>3. LogValue(s) \in Nat
  BY <1>1, SmallValue, LargeValue DEF Span, MaxSmallSpanLogVal, MaxSmallSpanclass, NumSizeClasses
<1>4. QED
  BY <1>2, <1>3 DEF Valid, Desc

\* What SlotGranules and SlotBase are.
LEMMA SlotIs ==
  ASSUME NEW b, NEW k
  PROVE  /\ SlotGranules(b, k) = Cells(b, ElemSize(spans[b]), k)
         /\ SlotBase(b, k) = b * G + k * ElemSize(spans[b])
BY DEF SlotGranules, SlotBase, Cells

------------------------------------------------------------------------------
(* Consequences of the invariant.                                          *)

\* A span that can be logged has a page.
LEMMA SpanPages ==
  ASSUME NEW s \in Span
  PROVE  s.npages \in Nat /\ s.npages >= 1
<1>1. CASE s \in SmallSpan
  <2>1. s.spanclass \in 2..133 /\ s.npages = ClassToAllocNPages[Sizeclass(s.spanclass)]
    BY <1>1 DEF SmallSpan, MaxSmallSpanclass, NumSizeClasses
  <2>2. Sizeclass(s.spanclass) \in 1..66
    BY <2>1 DEF Sizeclass
  <2>3. QED
    BY <2>1, <2>2, ClassAssumption DEF NumSizeClasses
<1>2. CASE s \in LargeSpan
  BY <1>2 DEF LargeSpan, PageSize, MaxSmallSize
<1>3. QED
  BY <1>1, <1>2 DEF Span

\* The pages that are taken lie in the arena.
LEMMA TakenFacts ==
  ASSUME IInv, NEW b \in Page
  PROVE  /\ b \in Nat /\ b < NPages
         /\ Taken(b) \in Nat /\ b + Taken(b) <= NPages
         /\ spans[b] # NoSpan => Taken(b) = spans[b].npages /\ Taken(b) >= 1
         /\ spans[b] \in SpanSet
<1>1. b \in Nat /\ b < NPages /\ spans[b] \in SpanSet
  BY Consts DEF Page, IInv, SpanInv
<1>2. CASE spans[b] # NoSpan
  <2>1. GoodSpan(spans[b], b)
    BY <1>2 DEF IInv, SpanInv
  <2>2. spans[b].npages \in Nat /\ spans[b].npages >= 1 /\ b + spans[b].npages <= NPages
    BY <2>1, SpanFacts DEF GoodSpan
  <2>3. Taken(b) = spans[b].npages
    BY <1>2 DEF Taken
  <2>4. Taken(b) \in Nat /\ b + Taken(b) <= NPages /\ Taken(b) >= 1
    BY <2>2, <2>3
  <2>5. QED
    BY <1>1, <2>3, <2>4
<1>3. CASE spans[b] = NoSpan /\ freeing # <<>> /\ freeing[1] = b
  <2>1. freeing \in {<<c, n>> : c \in Page, n \in 1..NPages}
    BY <1>3 DEF IInv, TypeOK
  <2>2. PICK c \in Page, n \in 1..NPages : freeing = <<c, n>>
    BY <2>1
  <2>3. freeing[2] \in Nat /\ b + freeing[2] <= NPages
    BY <2>2, <1>3, Consts DEF IInv, ApartInv
  <2>4. QED
    BY <2>3, <1>1, <1>3 DEF Taken
<1>4. CASE spans[b] = NoSpan /\ ~(freeing # <<>> /\ freeing[1] = b)
  <2>1. Taken(b) = 0
    BY <1>4 DEF Taken
  <2>2. QED
    BY <1>1, <1>4, <2>1, Consts
<1>5. QED
  BY <1>2, <1>3, <1>4

\* Entries of the durable table do not overlap.
LEMMA InvNoOverlap ==
  ASSUME IInv
  PROVE  NoOverlap
<1> SUFFICES ASSUME NEW b \in Page, dSpanLog[b] # 0
             PROVE  /\ b + CreateSpan(dSpanLog[b]).npages <= NPages
                    /\ \A c \in (b + 1)..(b + CreateSpan(dSpanLog[b]).npages - 1) : dSpanLog[c] = 0
  BY DEF NoOverlap
<1>1. CASE mode = "run"
  <2>1. \A c \in Page : dSpanLog[c] # 0 => Valid(dSpanLog[c]) /\ CreateSpan(dSpanLog[c]).npages = Taken(c)
    BY <1>1 DEF IInv, RunInv
  <2>2. \A c \in Page : dSpanLog[c] # 0 => Taken(c) >= 1
    BY <2>1, SpanPages DEF Valid
  <2> DEFINE n == Taken(b)
  <2>3. b \in Nat /\ n \in Nat /\ n >= 1 /\ b + n <= NPages /\ CreateSpan(dSpanLog[b]).npages = n
    BY <2>1, <2>2, TakenFacts
  <2> HIDE DEF n
  <2>4. ASSUME NEW c \in (b + 1)..(b + n - 1)
        PROVE  dSpanLog[c] = 0
    <3>1. c \in Page /\ b < c /\ c < b + n
      BY <2>3, Consts DEF Page
    <3>2. ASSUME dSpanLog[c] # 0
          PROVE  FALSE
      <4>1. Taken(c) > 0 /\ Taken(b) > 0
        BY <2>2, <2>3, <3>1, <3>2, TakenFacts DEF n
      <4>2. b + Taken(b) <= c
        BY <4>1, <3>1 DEF IInv, ApartInv
      <4>3. QED
        BY <4>2, <3>1, <2>3 DEF n
    <3>3. QED
      BY <3>2
  <2>5. QED
    BY <2>3, <2>4
<1>2. CASE mode # "run"
  BY <1>2 DEF IInv, ReconInv
<1>3. QED
  BY <1>1, <1>2

------------------------------------------------------------------------------
(* Steps that leave the spans alone.                                       *)

\* The durable table changes in no more than one entry, which gets its current value.
WrittenBack == dSpanLog' = dSpanLog \/ \E c \in Page : dSpanLog' = [dSpanLog EXCEPT ![c] = spanLog[c]]

\* Writing back an entry is harmless at any time.
LEMMA TableStep ==
  ASSUME IInv, WrittenBack, UNCHANGED <<spans, freeing, freePages, mode, cursor, spanLog>>,
         mode = "run" \/ UNCHANGED <<prof, cache>>
  PROVE  ApartInv' /\ RunInv' /\ ReconInv' /\ dSpanLog' \in [Page -> Nat]
<1>0. spanLog \in [Page -> Nat] /\ dSpanLog \in [Page -> Nat]
  BY DEF IInv, TypeOK
<1>1. \A b : Taken(b)' = Taken(b)
  BY DEF Taken
<1>2. dSpanLog' \in [Page -> Nat] /\ \A b \in Page : dSpanLog'[b] = dSpanLog[b] \/ dSpanLog'[b] = spanLog[b]
  BY <1>0 DEF WrittenBack
<1>3. ApartInv'
  BY <1>1 DEF IInv, ApartInv
<1>4. RunInv'
  <2> SUFFICES ASSUME mode = "run", NEW b \in Page
               PROVE  /\ spanLog[b] # 0 => /\ Valid(spanLog[b]) /\ b \in InUse
                                           /\ CreateSpan(spanLog[b]).npages = spans[b].npages
                      /\ dSpanLog'[b] # 0 => /\ Valid(dSpanLog'[b])
                                             /\ CreateSpan(dSpanLog'[b]).npages = Taken(b)
    <3>1. InUse' = InUse
      BY DEF InUse
    <3>2. mode = "run" => cursor = 0
      BY DEF IInv, RunInv
    <3>3. QED
      BY <1>1, <3>1, <3>2 DEF RunInv
  <2>1. spanLog[b] # 0 => /\ Valid(spanLog[b]) /\ b \in InUse
                          /\ CreateSpan(spanLog[b]).npages = spans[b].npages
    BY DEF IInv, RunInv
  <2>2. dSpanLog[b] # 0 => /\ Valid(dSpanLog[b]) /\ CreateSpan(dSpanLog[b]).npages = Taken(b)
    BY DEF IInv, RunInv
  <2>3. b \in InUse => Taken(b) = spans[b].npages
    BY DEF InUse, Taken
  <2>4. QED
    BY <2>1, <2>2, <2>3, <1>2
<1>5. ReconInv'
  <2>1. CASE mode = "run"
    BY <2>1 DEF ReconInv
  <2>2. CASE mode # "run"
    <3>1. spanLog = dSpanLog /\ UNCHANGED <<prof, cache>>
      BY <2>2 DEF IInv, ReconInv
    <3>2. dSpanLog' = dSpanLog
      BY <3>1, <1>0 DEF WrittenBack
    <3>3. QED
      BY <3>1, <3>2 DEF IInv, ReconInv
  <2>3. QED
    BY <2>1, <2>2
<1>6. QED
  BY <1>2, <1>3, <1>4, <1>5

\* Steps that change neither spans, jobs nor the contents of memory.
LEMMA QuietStep ==
  ASSUME IInv, WrittenBack,
         UNCHANGED <<spans, job, freeing, freePages, mode, cursor, spanLog, dirty, zeroedBase, lost, crashes>>,
         mode = "run" \/ UNCHANGED <<prof, cache>>
  PROVE  /\ SpanInv' /\ ApartInv' /\ JobInv' /\ RunInv' /\ ReconInv' /\ ZeroInv'
         /\ dSpanLog' \in [Page -> Nat]
<1>1. SpanInv' /\ JobInv'
  BY DEF IInv, SpanInv, JobInv, InUse
<1>2. ZeroInv'
  BY DEF IInv, ZeroInv
<1>3. QED
  BY <1>1, <1>2, TableStep

\* The application, the type profiler, and early write-backs of other words.
LEMMA OtherSteps ==
  ASSUME IInv,
         \/ \E o \in live : Drop(o)
         \/ \E p \in P : Flush(p)
         \/ \E t \in Type : PromoteAssign(t)
         \/ PromoteStore \/ PromotePersist
         \/ \E b \in Page : EvictSpan(b)
         \/ \E g \in Granule : EvictType(g)
         \/ \E n \in 2..(MaxCacheTypes - 1) : EvictMap(n)
         \/ UNCHANGED vars
  PROVE  IInv'
<1>0. TypeOK
  BY DEF IInv
<1>1. CASE UNCHANGED vars
  <2>1. UNCHANGED <<spanLog, typeLog, typeMap, dSpanLog, dTypeLog, dTypeMap, mode, cursor, spans, freePages,
                    zeroedBase, cache, freeing, job, heapBits, typAssigns, numAssigned, prof, live, dirty,
                    written, lost, crashes>>
    BY <1>1 DEF vars, persistent, durable, recovery, heap, profile
  <2>2. TypeOK'
    BY <2>1, <1>0 DEF TypeOK
  <2>3. QED
    BY <2>1, <2>2, QuietStep DEF WrittenBack, IInv
<1>2. ASSUME NEW o \in live, Drop(o)
      PROVE  IInv'
  <2>1. /\ live' = live \ {o}
        /\ UNCHANGED <<spanLog, typeLog, typeMap, dSpanLog, dTypeLog, dTypeMap, mode, cursor, spans, freePages,
                       zeroedBase, cache, freeing, job, heapBits, typAssigns, numAssigned, prof, dirty,
                       written, lost, crashes>>
    BY <1>2 DEF Drop, persistent, durable, recovery, heap, profile
  <2>2. TypeOK'
    BY <2>1, <1>0 DEF TypeOK
  <2>3. QED
    BY <2>1, <2>2, QuietStep DEF WrittenBack, IInv
<1>3. ASSUME NEW p \in P, Flush(p)
      PROVE  IInv'
  <2>1. /\ cache' = [cache EXCEPT ![p] = {}] /\ cache[p] # {}
        /\ UNCHANGED <<spanLog, typeLog, typeMap, dSpanLog, dTypeLog, dTypeMap, mode, cursor, spans, freePages,
                       zeroedBase, freeing, job, heapBits, typAssigns, numAssigned, prof, live, dirty,
                       written, lost, crashes>>
    BY <1>3 DEF Flush, persistent, durable, recovery, profile
  <2>2. cache' \in [P -> SUBSET Page]
    BY <2>1, <1>0 DEF TypeOK
  <2>3. TypeOK'
    BY <2>1, <2>2, <1>0 DEF TypeOK
  <2>4. mode = "run"
    BY <2>1 DEF IInv, ReconInv
  <2>5. QED
    BY <2>1, <2>3, <2>4, QuietStep DEF WrittenBack, IInv
<1>4. ASSUME NEW t \in Type, PromoteAssign(t)
      PROVE  IInv'
  <2>1. /\ mode = "run" /\ numAssigned < MaxCacheTypes - 1 /\ numAssigned' = numAssigned + 1
        /\ typAssigns' = [typAssigns EXCEPT ![t] = numAssigned'] /\ prof' = <<"store", t>>
        /\ UNCHANGED <<spanLog, typeLog, typeMap, dSpanLog, dTypeLog, dTypeMap, mode, cursor, spans, freePages,
                       zeroedBase, cache, freeing, job, heapBits, live, dirty, written, lost, crashes>>
    BY <1>4 DEF PromoteAssign, persistent, durable, recovery, heap
  <2>2. numAssigned' \in 1..(MaxCacheTypes - 1) /\ numAssigned' \in Index
    BY <2>1, <1>0, Consts DEF TypeOK, Index
  <2>3. typAssigns' \in [Type -> {0} \cup Index]
    BY <2>1, <2>2, <1>0 DEF TypeOK
  <2>4. prof' \in {<<>>} \cup ({"store", "persist"} \X Type)
    BY <2>1
  <2>5. TypeOK'
    BY <2>1, <2>2, <2>3, <2>4, <1>0 DEF TypeOK
  <2>6. QED
    BY <2>1, <2>5, QuietStep DEF WrittenBack, IInv
<1>5. CASE PromoteStore \/ PromotePersist
  <2>1. /\ prof # <<>>
        /\ \/ /\ prof[1] = "store" /\ prof' = <<"persist", prof[2]>>
              /\ typeMap' = [typeMap EXCEPT ![numAssigned] = prof[2]]
              /\ UNCHANGED dTypeMap
           \/ /\ prof' = <<>>
              /\ dTypeMap' = [dTypeMap EXCEPT ![numAssigned] = typeMap[numAssigned]]
              /\ UNCHANGED typeMap
        /\ UNCHANGED <<spanLog, typeLog, dSpanLog, dTypeLog, mode, cursor, spans, freePages,
                       zeroedBase, cache, freeing, job, heapBits, typAssigns, numAssigned, live, dirty,
                       written, lost, crashes>>
    BY <1>5 DEF PromoteStore, PromotePersist, persistent, durable, recovery, heap
  <2>2. prof[2] \in Type
    BY <2>1, <1>0 DEF TypeOK
  <2>3. prof' \in {<<>>} \cup ({"store", "persist"} \X Type)
    BY <2>1, <2>2
  <2>10. typeMap \in [2..(MaxCacheTypes - 1) -> Type \cup {None}] /\ dTypeMap \in [2..(MaxCacheTypes - 1) -> Type \cup {None}]
    BY <1>0, SMTT(30) DEF TypeOK
  <2>11. ASSUME NEW S, NEW T, NEW m \in [S -> T], NEW i, NEW v, i \in S => v \in T
         PROVE  [m EXCEPT ![i] = v] \in [S -> T]
    BY <2>11
  <2>4. typeMap' \in [2..(MaxCacheTypes - 1) -> Type \cup {None}]
    BY <2>1, <2>2, <2>10, <2>11
  <2>5. dTypeMap' \in [2..(MaxCacheTypes - 1) -> Type \cup {None}]
    BY <2>1, <2>10, <2>11
  <2>6. TypeOK'
    <3>1. UNCHANGED <<spanLog, typeLog, dSpanLog, dTypeLog, mode, cursor, spans, freePages, zeroedBase, cache,
                      freeing, job, heapBits, typAssigns, numAssigned, live, dirty, written, lost, crashes>>
      BY <2>1
    <3>2. QED
      BY <3>1, <2>3, <2>4, <2>5, <1>0 DEF TypeOK
  <2>7. mode = "run"
    BY <2>1 DEF IInv, ReconInv
  <2>8. QED
    BY <2>1, <2>6, <2>7, QuietStep DEF WrittenBack, IInv
<1>6. ASSUME NEW b \in Page, EvictSpan(b)
      PROVE  IInv'
  <2>1. /\ dSpanLog' = [dSpanLog EXCEPT ![b] = spanLog[b]]
        /\ UNCHANGED <<spanLog, typeLog, typeMap, dTypeLog, dTypeMap, mode, cursor, spans, freePages,
                       zeroedBase, cache, freeing, job, heapBits, typAssigns, numAssigned, prof, live, dirty,
                       written, lost, crashes>>
    BY <1>6 DEF EvictSpan, persistent, volatile, recovery, heap, profile
  <2>2. WrittenBack
    BY <2>1 DEF WrittenBack
  <2>3. /\ SpanInv' /\ ApartInv' /\ JobInv' /\ RunInv' /\ ReconInv' /\ ZeroInv'
        /\ dSpanLog' \in [Page -> Nat]
    BY <2>1, <2>2, QuietStep
  <2>4. TypeOK'
    BY <2>1, <2>3, <1>0 DEF TypeOK
  <2>5. QED
    BY <2>3, <2>4 DEF IInv
<1>7. ASSUME NEW g \in Granule, EvictType(g)
      PROVE  IInv'
  <2>1. /\ dTypeLog' = [dTypeLog EXCEPT ![g] = typeLog[g]]
        /\ UNCHANGED <<spanLog, typeLog, typeMap, dSpanLog, dTypeMap, mode, cursor, spans, freePages,
                       zeroedBase, cache, freeing, job, heapBits, typAssigns, numAssigned, prof, live, dirty,
                       written, lost, crashes>>
    BY <1>7 DEF EvictType, persistent, volatile, recovery, heap, profile
  <2>2. dTypeLog' \in [Granule -> LogSet]
    BY <2>1, <1>0 DEF TypeOK
  <2>3. TypeOK'
    BY <2>1, <2>2, <1>0 DEF TypeOK
  <2>4. QED
    BY <2>1, <2>3, QuietStep DEF WrittenBack, IInv
<1>8. ASSUME NEW n \in 2..(MaxCacheTypes - 1), EvictMap(n)
      PROVE  IInv'
  <2>1. /\ dTypeMap' = [dTypeMap EXCEPT ![n] = typeMap[n]]
        /\ UNCHANGED <<spanLog, typeLog, typeMap, dSpanLog, dTypeLog, mode, cursor, spans, freePages,
                       zeroedBase, cache, freeing, job, heapBits, typAssigns, numAssigned, prof, live, dirty,
                       written, lost, crashes>>
    BY <1>8 DEF EvictMap, persistent, volatile, recovery, heap, profile
  <2>2. dTypeMap' \in [2..(MaxCacheTypes - 1) -> Type \cup {None}]
    BY <2>1, <1>0 DEF TypeOK
  <2>3. TypeOK'
    BY <2>1, <2>2, <1>0 DEF TypeOK
  <2>4. QED
    BY <2>1, <2>3, QuietStep DEF WrittenBack, IInv
<1>9. QED
  BY <1>1, <1>2, <1>3, <1>4, <1>5, <1>6, <1>7, <1>8

------------------------------------------------------------------------------
(* Steps that change the slots of spans, but not the spans.                *)

\* The spans keep their places, pages, classes and type indices.
SameShape == /\ spans' \in [Page -> SpanSet]
             /\ \A c \in Page : IF spans[c] = NoSpan THEN spans'[c] = NoSpan
                                ELSE /\ spans'[c].spanclass = spans[c].spanclass
                                     /\ spans'[c].npages = spans[c].npages
                                     /\ spans'[c].typIndex = spans[c].typIndex
                                     /\ spans'[c].alloc \subseteq Slots(spans[c])

\* Entries are only written for spans in use, with what the spans are.
Logged == \A c \in Page : spanLog'[c] = spanLog[c] \/ (c \in InUse /\ spanLog'[c] = LogValue(spans'[c]))

\* Such spans can still be logged, and have the same slots.
LEMMA ShapeFacts ==
  ASSUME IInv, SameShape, NEW c \in Page
  PROVE  /\ spans'[c] = NoSpan <=> spans[c] = NoSpan
         /\ c \in InUse' <=> c \in InUse
         /\ spans[c] # NoSpan => /\ GoodSpan(spans'[c], c)
                                 /\ Desc(spans'[c]) \in Span
                                 /\ ElemSize(spans'[c]) = ElemSize(spans[c])
                                 /\ Slots(spans'[c]) = Slots(spans[c])
<1>1. CASE spans[c] = NoSpan
  BY <1>1 DEF SameShape, InUse
<1>2. CASE spans[c] # NoSpan
  <2>1. GoodSpan(spans[c], c)
    BY <1>2 DEF IInv, SpanInv
  <2> DEFINE s == spans[c]
             r == spans'[c]
  <2>2. /\ r.spanclass = s.spanclass /\ r.npages = s.npages /\ r.typIndex = s.typIndex
        /\ r.alloc \subseteq Slots(s) /\ r \in SpanSet
    BY <1>2 DEF SameShape
  <2>3. s \in SpanSet /\ Desc(s) \in Span /\ c + s.npages <= NPages
    BY <2>1 DEF GoodSpan
  <2>4. s.npages >= 1
    BY <2>3, SpanFacts
  <2> HIDE DEF s, r
  <2>5. r # NoSpan
    BY <2>2, <2>4 DEF NoSpan
  <2>6. ElemSize(r) = ElemSize(s)
    BY <2>2 DEF ElemSize
  <2>7. Slots(r) = Slots(s)
    BY <2>2, <2>6 DEF Slots
  <2>8. Desc(r) \in Span
    <3>1. r.needzero \in Bit
      BY <2>2 DEF SpanSet
    <3>2. CASE Desc(s) \in SmallSpan
      <4> DEFINE x == IF s.typIndex # 0 THEN 1 ELSE 0
      <4>1. s.spanclass \in 2..MaxSmallSpanclass /\ s.npages \in Nat /\ x \in Bit
        BY <3>2 DEF SmallSpan, Desc, Bit
      <4>4. s.npages = ClassToAllocNPages[Sizeclass(s.spanclass)]
        BY <3>2 DEF SmallSpan, Desc
      <4>2. Desc(r) = [spanclass |-> s.spanclass, npages |-> s.npages, opt |-> x, needzero |-> r.needzero]
        BY <2>2 DEF Desc
      <4> HIDE DEF x
      <4>3. Desc(r) \in SmallSpan
        BY <3>1, <4>1, <4>2, <4>4 DEF SmallSpan
      <4>5. QED
        BY <4>3 DEF Span
    <3>3. CASE Desc(s) \in LargeSpan
      <4> DEFINE x == IF s.typIndex # 0 THEN 1 ELSE 0
      <4>1. Desc(r) = [spanclass |-> s.spanclass, npages |-> s.npages, opt |-> x, needzero |-> r.needzero]
        BY <2>2 DEF Desc
      <4>2. Desc(s) = [spanclass |-> s.spanclass, npages |-> s.npages, opt |-> x, needzero |-> s.needzero]
        BY DEF Desc
      <4>3. /\ s.spanclass \in Bit /\ s.npages \in Nat /\ x = 0 /\ s.npages * PageSize > MaxSmallSize
            /\ (67 + s.npages - 4) * 8 + 7 < LogLimit
        BY <3>3, <4>2 DEF LargeSpan
      <4> HIDE DEF x
      <4>4. Desc(r) \in LargeSpan
        BY <3>1, <4>1, <4>3 DEF LargeSpan
      <4>5. QED
        BY <4>4 DEF Span
    <3>4. QED
      BY <3>2, <3>3, <2>3 DEF Span
  <2>9. GoodSpan(r, c)
    BY <2>2, <2>3, <2>7, <2>8 DEF GoodSpan
  <2>10. QED
    BY <1>2, <2>5, <2>6, <2>7, <2>8, <2>9 DEF InUse, s, r
<1>3. QED
  BY <1>1, <1>2

\* The owners of pages and the table stay right.
LEMMA ReshapeStep ==
  ASSUME IInv, SameShape, Logged, mode = "run", spanLog' \in [Page -> Nat],
         UNCHANGED <<freeing, freePages, mode, cursor, dSpanLog>>
  PROVE  ApartInv' /\ RunInv' /\ ReconInv'
<1>1. \A c \in Page : Taken(c)' = Taken(c)
  <2>1. ASSUME NEW c \in Page
        PROVE  Taken(c)' = Taken(c)
    <3>1. spans'[c] = NoSpan <=> spans[c] = NoSpan
      BY ShapeFacts
    <3>2. spans[c] # NoSpan => spans'[c].npages = spans[c].npages
      BY DEF SameShape
    <3>3. QED
      BY <3>1, <3>2 DEF Taken
  <2>2. QED
    BY <2>1
<1>2. ApartInv'
  <2>1. freeing # <<>> => freeing[1] \in Page
    BY DEF IInv, TypeOK
  <2>2. freeing # <<>> => spans'[freeing[1]] = NoSpan
    BY <2>1 DEF IInv, ApartInv, SameShape
  <2>3. QED
    BY <1>1, <2>2 DEF IInv, ApartInv
<1>3. RunInv'
  <2>1. ASSUME NEW c \in Page
        PROVE  /\ spanLog'[c] # 0 => /\ Valid(spanLog'[c]) /\ c \in InUse'
                                     /\ CreateSpan(spanLog'[c]).npages = spans'[c].npages
               /\ dSpanLog'[c] # 0 => /\ Valid(dSpanLog'[c])
                                      /\ CreateSpan(dSpanLog'[c]).npages = Taken(c)'
    <3>1. c \in InUse' <=> c \in InUse
      BY ShapeFacts
    <3>2. c \in InUse => spans[c] # NoSpan /\ spans'[c].npages = spans[c].npages
      BY DEF SameShape, InUse
    <3>3. c \in InUse => Desc(spans'[c]) \in Span
      BY <3>2, ShapeFacts
    <3>4. dSpanLog'[c] # 0 => Valid(dSpanLog'[c]) /\ CreateSpan(dSpanLog'[c]).npages = Taken(c)'
      BY <1>1 DEF IInv, RunInv
    <3>5. CASE spanLog'[c] = spanLog[c]
      <4>1. spanLog[c] # 0 => /\ Valid(spanLog[c]) /\ c \in InUse
                              /\ CreateSpan(spanLog[c]).npages = spans[c].npages
        BY DEF IInv, RunInv
      <4>2. QED
        BY <3>1, <3>2, <3>4, <3>5, <4>1
    <3>6. CASE c \in InUse /\ spanLog'[c] = LogValue(spans'[c])
      <4>1. Valid(spanLog'[c]) /\ CreateSpan(spanLog'[c]).npages = spans'[c].npages
        BY <3>3, <3>6, LogFacts
      <4>2. QED
        BY <3>1, <3>4, <3>6, <4>1
    <3>7. QED
      BY <3>5, <3>6 DEF Logged
  <2>2. cursor' = 0
    BY DEF IInv, RunInv
  <2>3. QED
    BY <2>1, <2>2 DEF RunInv
<1>4. ReconInv'
  BY DEF ReconInv
<1>5. QED
  BY <1>2, <1>3, <1>4

\* mallocgc takes a free slot of a span.
LEMMA TakeStep ==
  ASSUME IInv, NEW p \in P, NEW t \in Type, NEW b \in InUse, NEW new \in BOOLEAN,
         mode = "run", job[p] = Idle, FreeSlots(b) # {}, TakeSlot(b),
         StartJob(p, t, b, Min(FreeSlots(b)), new),
         UNCHANGED <<freePages, zeroedBase>>, cache' \in [P -> SUBSET Page]
  PROVE  IInv'
<1> DEFINE k == Min(FreeSlots(b))
<1>1. b \in Page /\ spans[b] # NoSpan /\ GoodSpan(spans[b], b) /\ spans[b] \in SpanSet /\ Desc(spans[b]) \in Span
  BY DEF InUse, IInv, SpanInv, GoodSpan
<1>2. k \in Slots(spans[b]) /\ k \notin spans[b].alloc
  <2>1. FreeSlots(b) \subseteq Nat
    BY <1>1, SpanFacts DEF FreeSlots
  <2>2. k \in FreeSlots(b)
    BY <2>1, MinOf
  <2>3. QED
    BY <2>2 DEF FreeSlots
<1>3. k \in Granule
  BY <1>1, <1>2, SlotInside
<1>4. /\ spans' = [spans EXCEPT ![b].alloc = @ \cup {k}]
      /\ dirty' = IF spans[b].needzero = 1 THEN dirty \ SlotGranules(b, k) ELSE dirty
  BY DEF TakeSlot
<1>5. /\ job' = [job EXCEPT ![p] = [pc |-> IF t \notin NoScan THEN "bits" ELSE IF new THEN "fence" ELSE "return",
                                    typ |-> t, base |-> b, slot |-> k, new |-> new]]
      /\ spanLog' = IF new THEN [spanLog EXCEPT ![b] = LogValue(spans'[b])] ELSE spanLog
      /\ UNCHANGED <<typeLog, typeMap, dSpanLog, dTypeLog, dTypeMap, mode, cursor, freeing, heapBits,
                     typAssigns, numAssigned, prof, live, written, lost, crashes>>
  BY DEF StartJob, durable, recovery, profile
<1> HIDE DEF k
<1>6. TypeOK /\ spans \in [Page -> SpanSet] /\ job \in [P -> JobSet]
  BY DEF IInv, SpanInv
<1>7. /\ spans'[b].spanclass = spans[b].spanclass /\ spans'[b].npages = spans[b].npages
      /\ spans'[b].typIndex = spans[b].typIndex /\ spans'[b].needzero = spans[b].needzero
      /\ spans'[b].alloc = spans[b].alloc \cup {k}
      /\ \A c \in Page : c # b => spans'[c] = spans[c]
  BY <1>1, <1>4, <1>6 DEF SpanSet
<1>8. SameShape
  <2>1. spans' \in [Page -> SpanSet]
    <3>1. spans'[b] \in SpanSet
      <4>1. spans[b].alloc \cup {k} \in SUBSET (0..(NPages * G - 1))
        BY <1>1, <1>3 DEF SpanSet, Granule
      <4>2. spans'[b] = [spans[b] EXCEPT !.alloc = spans[b].alloc \cup {k}]
        BY <1>1, <1>4, <1>6
      <4>3. QED
        BY <4>1, <4>2, <1>1 DEF SpanSet
    <3>2. spans' = [spans EXCEPT ![b] = spans'[b]]
      BY <1>1, <1>4, <1>6
    <3>3. QED
      BY <3>1, <3>2, <1>1, <1>6
  <2>2. \A c \in Page : spans[c] # NoSpan => spans[c].alloc \subseteq Slots(spans[c])
    BY DEF IInv, SpanInv, GoodSpan
  <2>3. QED
    BY <2>1, <2>2, <1>1, <1>2, <1>7 DEF SameShape
<1>9. spanLog' \in [Page -> Nat] /\ Logged
  <2>1. Desc(spans'[b]) \in Span
    BY <1>1, <1>8, ShapeFacts
  <2>2. LogValue(spans'[b]) \in Nat
    BY <2>1, LogFacts
  <2>3. spanLog \in [Page -> Nat]
    BY <1>6 DEF TypeOK
  <2>4. spanLog' \in [Page -> Nat]
    BY <2>2, <2>3, <1>5
  <2>5. Logged
    BY <2>3, <1>5 DEF Logged
  <2>6. QED
    BY <2>4, <2>5
<1>10. ApartInv' /\ RunInv' /\ ReconInv'
  BY <1>5, <1>8, <1>9, ReshapeStep
<1>11. job' \in [P -> JobSet] /\ job'[p].base = b /\ job'[p].slot = k /\ job'[p] # Idle
  <2> DEFINE j == [pc |-> IF t \notin NoScan THEN "bits" ELSE IF new THEN "fence" ELSE "return",
                   typ |-> t, base |-> b, slot |-> k, new |-> new]
  <2>1. j \in JobSet /\ j.base = b /\ j.slot = k
    BY <1>1, <1>3 DEF JobSet
  <2>2. j.pc # "idle"
    OBVIOUS
  <2>3. job' = [job EXCEPT ![p] = j]
    BY <1>5
  <2> HIDE DEF j
  <2>4. QED
    BY <2>1, <2>2, <2>3, <1>6 DEF Idle
<1>12. SpanInv'
  <2>1. \A c \in Page : spans'[c] # NoSpan => GoodSpan(spans'[c], c)
    BY <1>8, ShapeFacts
  <2>2. QED
    BY <2>1, <1>8, <1>11 DEF SpanInv, SameShape
<1>13. \A q \in P : q # p => job'[q] = job[q]
  BY <1>5, <1>6
<1>14. \A q \in P : job[q] # Idle => /\ job[q].base \in InUse /\ job[q].slot \in spans[job[q].base].alloc
                                     /\ job[q].base \in Page
  BY DEF IInv, JobInv, InUse
<1>15. JobInv'
  <2>1. \A q \in P : job'[q] # Idle => /\ job'[q].base \in InUse' /\ job'[q].slot \in spans'[job'[q].base].alloc
    <3>1. ASSUME NEW q \in P, job'[q] # Idle
          PROVE  job'[q].base \in InUse' /\ job'[q].slot \in spans'[job'[q].base].alloc
      <4>1. CASE q = p
        BY <4>1, <1>1, <1>7, <1>8, <1>11, ShapeFacts
      <4>2. CASE q # p
        BY <4>2, <3>1, <1>7, <1>8, <1>13, <1>14, ShapeFacts
      <4>3. QED
        BY <4>1, <4>2
    <3>2. QED
      BY <3>1
  <2>2. \A q \in P : q # p /\ job'[q] # Idle => job'[q].base # b \/ job'[q].slot # k
    BY <1>2, <1>13, <1>14
  <2>3. ASSUME NEW q \in P, NEW r \in P, q # r, job'[q] # Idle, job'[r] # Idle
        PROVE  job'[q].base # job'[r].base \/ job'[q].slot # job'[r].slot
    <3>1. CASE q = p
      BY <3>1, <2>2, <2>3, <1>11
    <3>2. CASE r = p
      BY <3>2, <2>2, <2>3, <1>11
    <3>3. CASE q # p /\ r # p
      BY <3>3, <2>3, <1>13 DEF IInv, JobInv
    <3>4. QED
      BY <3>1, <3>2, <3>3
  <2>4. mode' = "run"
    BY <1>5
  <2>5. QED
    BY <2>1, <2>3, <2>4 DEF JobInv
<1>16. dirty' \subseteq dirty
  BY <1>4
<1>17. ZeroInv'
  <2>1. CASE crashes # 0
    BY <2>1, <1>5 DEF ZeroInv
  <2>2. CASE crashes = 0
    <3>1. /\ dirty \subseteq 0..(zeroedBase * G - 1)
          /\ \A c \in Page : spans[c] # NoSpan => c + spans[c].npages <= zeroedBase
      BY <2>2 DEF IInv, ZeroInv
    <3>2. \A c \in Page : spans[c] # NoSpan /\ spans[c].needzero = 0 =>
            \A l \in Slots(spans[c]) \ spans[c].alloc : Cells(c, ElemSize(spans[c]), l) \cap dirty = {}
      BY <2>2 DEF IInv, ZeroInv
    <3>3. \A q \in P : job[q] # Idle =>
            Cells(job[q].base, ElemSize(spans[job[q].base]), job[q].slot) \cap dirty = {}
      BY <2>2 DEF IInv, ZeroInv
    <3>4. \A c \in Page : /\ spans'[c] # NoSpan <=> spans[c] # NoSpan
                          /\ spans[c] # NoSpan => /\ ElemSize(spans'[c]) = ElemSize(spans[c])
                                                  /\ Slots(spans'[c]) = Slots(spans[c])
      BY <1>8, ShapeFacts
    <3>5. \A c \in Page : /\ spans'[c].npages = spans[c].npages /\ spans'[c].needzero = spans[c].needzero
                          /\ spans[c].alloc \subseteq spans'[c].alloc
      BY <1>7
    <3>6. Cells(b, ElemSize(spans[b]), k) \cap dirty' = {}
      <4>1. CASE spans[b].needzero = 1
        BY <4>1, <1>4, SlotIs
      <4>2. CASE spans[b].needzero = 0
        BY <4>2, <1>1, <1>2, <1>16, <3>2
      <4>3. QED
        BY <4>1, <4>2, <1>1 DEF SpanSet, Bit
    <3>7. ASSUME NEW q \in P, job'[q] # Idle
          PROVE  Cells(job'[q].base, ElemSize(spans'[job'[q].base]), job'[q].slot) \cap dirty' = {}
      <4>1. CASE q = p
        BY <4>1, <1>1, <1>11, <3>4, <3>6
      <4>2. CASE q # p
        <5>1. /\ job'[q] = job[q] /\ job[q] # Idle /\ job[q].base \in Page /\ spans[job[q].base] # NoSpan
          BY <4>2, <3>7, <1>13, <1>14 DEF InUse
        <5>2. QED
          BY <5>1, <3>3, <3>4, <1>16
      <4>3. QED
        BY <4>1, <4>2
    <3>8. dirty' \subseteq 0..(zeroedBase' * G - 1)
      BY <1>16, <3>1
    <3>9. \A c \in Page : spans'[c] # NoSpan => c + spans'[c].npages <= zeroedBase'
      BY <3>1, <3>4, <3>5
    <3>10. \A c \in Page : spans'[c] # NoSpan /\ spans'[c].needzero = 0 =>
             \A l \in Slots(spans'[c]) \ spans'[c].alloc : Cells(c, ElemSize(spans'[c]), l) \cap dirty' = {}
      BY <3>2, <3>4, <3>5, <1>16
    <3>11. QED
      BY <3>7, <3>8, <3>9, <3>10, <1>5 DEF ZeroInv
  <2>3. QED
    BY <2>1, <2>2
<1>18. TypeOK'
  <2>1. \A c \in Page : spans'[c] \in SpanSet /\ spans'[c].alloc \subseteq Granule
    BY <1>8 DEF SameShape, SpanSet, Granule
  <2>2. \A q \in P : job'[q].pc \in {"idle", "bits", "meta", "persist", "fence", "return"}
    BY <1>11 DEF JobSet, Idle
  <2>3. dirty' \subseteq written
    BY <1>6, <1>16 DEF TypeOK
  <2>4. QED
    BY <2>1, <2>2, <2>3, <1>5, <1>6, <1>9 DEF TypeOK
<1>19. QED
  BY <1>10, <1>12, <1>15, <1>17, <1>18 DEF IInv

------------------------------------------------------------------------------
(* Steps that make spans of free pages.                                    *)

\* Free pages lie in the arena.
LEMMA PagesFit ==
  ASSUME NEW b \in Page, NEW n \in Nat, n >= 1, PagesOf(b, n) \subseteq Page
  PROVE  b + n <= NPages /\ b \in PagesOf(b, n)
<1>1. b \in Nat /\ b + n - 1 \in b..(b + n - 1) /\ b \in b..(b + n - 1)
  BY Consts
<1>2. b + n - 1 \in Page
  BY <1>1 DEF PagesOf
<1>3. b + n - 1 <= NPages - 1
  BY <1>2, Consts DEF Page
<1>4. QED
  BY <1>1, <1>3, Consts DEF PagesOf

\* Pages that are free belong to no span, and nothing is logged for them.
LEMMA FreeFacts ==
  ASSUME IInv, mode = "run", NEW b \in freePages
  PROVE  /\ b \in Page /\ spans[b] = NoSpan /\ Taken(b) = 0 /\ dSpanLog[b] = 0
         /\ freeing # <<>> => freeing[1] # b
<1>1. b \in Page
  BY DEF IInv, TypeOK
<1>2. b \in Nat /\ Taken(b) \in Nat /\ (spans[b] # NoSpan => Taken(b) >= 1)
  BY <1>1, TakenFacts
<1>3. Taken(b) = 0
  <2>1. ASSUME Taken(b) > 0
        PROVE  FALSE
    <3>1. PagesOf(b, Taken(b)) \cap freePages = {}
      BY <1>1, <2>1 DEF IInv, ApartInv
    <3>2. b \in PagesOf(b, Taken(b))
      BY <1>2, <2>1 DEF PagesOf
    <3>3. QED
      BY <3>1, <3>2
  <2>2. QED
    BY <2>1, <1>2
<1>4. spans[b] = NoSpan
  BY <1>2, <1>3
<1>5. dSpanLog[b] = 0
  <2>1. dSpanLog[b] # 0 => Valid(dSpanLog[b]) /\ CreateSpan(dSpanLog[b]).npages = Taken(b)
    BY <1>1 DEF IInv, RunInv
  <2>2. QED
    BY <2>1, <1>3, SpanPages DEF Valid
<1>6. freeing # <<>> => freeing[1] # b
  <2>1. ASSUME freeing # <<>>, freeing[1] = b
        PROVE  FALSE
    <3>1. freeing \in {<<c, n>> : c \in Page, n \in 1..NPages}
      BY <2>1 DEF IInv, TypeOK
    <3>2. freeing[2] \in 1..NPages
      BY <3>1
    <3>3. Taken(b) = freeing[2]
      BY <1>4, <2>1 DEF Taken
    <3>4. QED
      BY <3>2, <3>3, <1>3
  <2>2. QED
    BY <2>1
<1>7. QED
  BY <1>1, <1>3, <1>4, <1>5, <1>6

\* mheap.alloc and the start of mallocgc with a new span.
LEMMA FreshStep ==
  ASSUME IInv, NEW p \in P, NEW t \in Type, NEW b \in Page, NEW n \in Nat,
         NEW spc \in 0..MaxSmallSpanclass, NEW ti \in 0..(MaxCacheTypes - 1),
         n >= 1, n <= NPages =>
           [spanclass |-> spc, npages |-> n, opt |-> IF ti # 0 THEN 1 ELSE 0, needzero |-> 0] \in Span,
         mode = "run", job[p] = Idle, AllocPages(b, n, spc, ti), StartJob(p, t, b, 0, TRUE),
         cache' \in [P -> SUBSET Page]
  PROVE  IInv'
<1> DEFINE s == [spanclass |-> spc, npages |-> n, typIndex |-> ti, needzero |-> 0, alloc |-> {0}]
<1>1. /\ PagesOf(b, n) \subseteq freePages /\ freePages' = freePages \ PagesOf(b, n)
      /\ spans' = [spans EXCEPT ![b] = s]
      /\ dirty' = IF b < zeroedBase THEN dirty \ GranulesOf(b, n) ELSE dirty
      /\ zeroedBase' = Max({zeroedBase, b + n})
  BY DEF AllocPages, AllocNeedsZero
<1>2. /\ job' = [job EXCEPT ![p] = [pc |-> IF t \notin NoScan THEN "bits" ELSE "fence",
                                    typ |-> t, base |-> b, slot |-> 0, new |-> TRUE]]
      /\ spanLog' = [spanLog EXCEPT ![b] = LogValue(spans'[b])]
      /\ UNCHANGED <<typeLog, typeMap, dSpanLog, dTypeLog, dTypeMap, mode, cursor, freeing, heapBits,
                     typAssigns, numAssigned, prof, live, written, lost, crashes>>
  BY DEF StartJob, durable, recovery, profile
<1>3. TypeOK /\ spans \in [Page -> SpanSet] /\ job \in [P -> JobSet] /\ freePages \subseteq Page
  BY DEF IInv, SpanInv, TypeOK
<1>4. b \in Nat /\ b + n <= NPages /\ n <= NPages /\ b \in freePages
  <2>1. PagesOf(b, n) \subseteq Page
    BY <1>1, <1>3
  <2>2. b + n <= NPages /\ b \in PagesOf(b, n)
    BY <2>1, PagesFit
  <2>3. b \in Nat
    BY Consts
  <2>4. QED
    BY <2>2, <2>3, <1>1, Consts
<1>5. spans[b] = NoSpan /\ Taken(b) = 0 /\ dSpanLog[b] = 0 /\ (freeing # <<>> => freeing[1] # b)
  BY <1>4, FreeFacts
<1>6. GoodSpan(s, b) /\ s \in SpanSet /\ Desc(s) \in Span /\ 0 \in Granule
  <2>1. 0 \in 0..(NPages * G - 1)
    BY Consts
  <2>2. s \in SpanSet
    BY <2>1, <1>4, Consts DEF SpanSet, Bit
  <2>3. Desc(s) \in Span
    BY <1>4 DEF Desc
  <2>4. s.npages = n /\ s.alloc = {0}
    OBVIOUS
  <2> HIDE DEF s
  <2>5. 0 \in Slots(s)
    BY <2>2, <2>3, SpanFacts
  <2>6. QED
    BY <2>1, <2>2, <2>3, <2>4, <2>5, <1>4 DEF GoodSpan, Granule
<1>7. s.npages = n /\ s.alloc = {0} /\ s # NoSpan
  BY DEF NoSpan
<1> HIDE DEF s
<1>8. spans'[b] = s /\ (\A c \in Page : c # b => spans'[c] = spans[c]) /\ spans' \in [Page -> SpanSet]
  BY <1>1, <1>3, <1>6
<1>9. Taken(b)' = n /\ \A c \in Page : c # b => Taken(c)' = Taken(c)
  BY <1>2, <1>7, <1>8 DEF Taken
<1>10. ApartInv'
  <2>1. \A c \in Page : c \in Nat /\ Taken(c) \in Nat
    BY TakenFacts
  <2>2. \A c \in Page : Taken(c) > 0 => PagesOf(c, Taken(c)) \cap freePages = {}
    BY DEF IInv, ApartInv
  <2>3. \A c \in Page : c # b /\ Taken(c) > 0 => c + Taken(c) <= b \/ b + n <= c
    <3>1. ASSUME NEW c \in Page, c # b, Taken(c) > 0
          PROVE  c + Taken(c) <= b \/ b + n <= c
      <4> DEFINE m == Taken(c)
      <4>1. c \in Nat /\ m \in Nat /\ m > 0
        BY <2>1, <3>1
      <4>2. c..(c + m - 1) \cap freePages = {}
        BY <2>2, <3>1 DEF PagesOf
      <4> HIDE DEF m
      <4>3. c \in c..(c + m - 1)
        BY <4>1
      <4>4. b \notin c..(c + m - 1) /\ c \notin b..(b + n - 1)
        BY <4>2, <4>3, <1>1, <1>4 DEF PagesOf
      <4>5. QED
        BY <4>1, <4>4, <1>4, <3>1 DEF m
    <3>2. QED
      BY <3>1
  <2>4. ASSUME NEW c \in Page, NEW d \in Page, c < d, Taken(c)' > 0, Taken(d)' > 0
        PROVE  c + Taken(c)' <= d
    <3>1. CASE c = b
      <4>1. d # b /\ Taken(d) > 0 /\ d \in Nat /\ Taken(d) \in Nat
        BY <3>1, <2>1, <2>4, <1>9
      <4>2. QED
        BY <4>1, <3>1, <2>3, <2>4, <1>4, <1>9
    <3>2. CASE d = b
      <4>1. c # b /\ Taken(c) > 0 /\ c \in Nat /\ Taken(c) \in Nat
        BY <3>2, <2>1, <2>4, <1>9
      <4>2. QED
        BY <4>1, <3>2, <2>3, <2>4, <1>4, <1>9
    <3>3. CASE c # b /\ d # b
      BY <3>3, <2>4, <1>9 DEF IInv, ApartInv
    <3>4. QED
      BY <3>1, <3>2, <3>3
  <2>5. ASSUME NEW c \in Page, Taken(c)' > 0
        PROVE  PagesOf(c, Taken(c)') \cap freePages' = {}
    <3>1. CASE c = b
      BY <3>1, <1>1, <1>9
    <3>2. CASE c # b
      BY <3>2, <2>2, <2>5, <1>1, <1>9
    <3>3. QED
      BY <3>1, <3>2
  <2>6. \A c \in Page : Taken(c)' > 0 => PagesOf(c, Taken(c))' \cap freePages' = {}
    BY <2>5 DEF PagesOf
  <2>7. freeing # <<>> => freeing[1] \in Page
    BY <1>3 DEF TypeOK
  <2>8. freeing' # <<>> => /\ mode' = "run" /\ spans'[freeing'[1]] = NoSpan
                           /\ freeing'[1] + freeing'[2] <= NPages
    BY <1>2, <1>5, <1>8, <2>7 DEF IInv, ApartInv
  <2>9. QED
    BY <2>4, <2>6, <2>8 DEF ApartInv
<1>11. LogValue(s) \in Nat /\ Valid(LogValue(s)) /\ CreateSpan(LogValue(s)).npages = n
  BY <1>6, <1>7, LogFacts
<1>12. spanLog \in [Page -> Nat] /\ spanLog' \in [Page -> Nat] /\ spanLog'[b] = LogValue(s)
       /\ \A c \in Page : c # b => spanLog'[c] = spanLog[c]
  BY <1>2, <1>3, <1>8, <1>11 DEF TypeOK
<1>13. RunInv'
  <2>1. ASSUME NEW c \in Page
        PROVE  /\ spanLog'[c] # 0 => /\ Valid(spanLog'[c]) /\ c \in InUse'
                                     /\ CreateSpan(spanLog'[c]).npages = spans'[c].npages
               /\ dSpanLog'[c] # 0 => /\ Valid(dSpanLog'[c])
                                      /\ CreateSpan(dSpanLog'[c]).npages = Taken(c)'
    <3>1. CASE c = b
      <4>1. b \in InUse'
        BY <1>7, <1>8 DEF InUse
      <4>2. QED
        BY <3>1, <4>1, <1>2, <1>5, <1>7, <1>8, <1>11, <1>12
    <3>2. CASE c # b
      <4>1. c \in InUse' <=> c \in InUse
        BY <3>2, <1>8 DEF InUse
      <4>2. spanLog'[c] = spanLog[c] /\ dSpanLog' = dSpanLog /\ spans'[c] = spans[c] /\ Taken(c)' = Taken(c)
        BY <3>2, <1>2, <1>8, <1>9, <1>12
      <4>3. /\ spanLog[c] # 0 => /\ Valid(spanLog[c]) /\ c \in InUse
                                 /\ CreateSpan(spanLog[c]).npages = spans[c].npages
            /\ dSpanLog[c] # 0 => Valid(dSpanLog[c]) /\ CreateSpan(dSpanLog[c]).npages = Taken(c)
        BY DEF IInv, RunInv
      <4>4. QED
        BY <4>1, <4>2, <4>3
    <3>3. QED
      BY <3>1, <3>2
  <2>2. cursor' = 0
    BY <1>2 DEF IInv, RunInv
  <2>3. QED
    BY <2>1, <2>2 DEF RunInv
<1>14. ReconInv'
  BY <1>2 DEF ReconInv
<1>15. job' \in [P -> JobSet] /\ job'[p].base = b /\ job'[p].slot = 0 /\ job'[p] # Idle
  <2> DEFINE j == [pc |-> IF t \notin NoScan THEN "bits" ELSE "fence", typ |-> t, base |-> b, slot |-> 0,
                   new |-> TRUE]
  <2>1. j \in JobSet /\ j.base = b /\ j.slot = 0
    BY <1>6 DEF JobSet
  <2>2. j.pc # "idle"
    OBVIOUS
  <2>3. job' = [job EXCEPT ![p] = j]
    BY <1>2
  <2> HIDE DEF j
  <2>4. QED
    BY <2>1, <2>2, <2>3, <1>3 DEF Idle
<1>16. \A q \in P : q # p => job'[q] = job[q]
  BY <1>2, <1>3
<1>17. \A q \in P : job[q] # Idle => /\ job[q].base \in Page /\ spans[job[q].base] # NoSpan
                                     /\ job[q].slot \in spans[job[q].base].alloc /\ job[q].base # b
  BY <1>5 DEF IInv, JobInv, InUse
<1>18. SpanInv'
  <2>1. \A c \in Page : spans'[c] # NoSpan => GoodSpan(spans'[c], c)
    BY <1>6, <1>8 DEF IInv, SpanInv
  <2>2. QED
    BY <2>1, <1>8, <1>15 DEF SpanInv
<1>19. JobInv'
  <2>1. \A q \in P : job'[q] # Idle => job'[q].base \in InUse' /\ job'[q].slot \in spans'[job'[q].base].alloc
    <3>1. ASSUME NEW q \in P, job'[q] # Idle
          PROVE  job'[q].base \in InUse' /\ job'[q].slot \in spans'[job'[q].base].alloc
      <4>1. CASE q = p
        BY <4>1, <1>7, <1>8, <1>15 DEF InUse
      <4>2. CASE q # p
        BY <4>2, <3>1, <1>8, <1>16, <1>17 DEF InUse
      <4>3. QED
        BY <4>1, <4>2
    <3>2. QED
      BY <3>1
  <2>2. \A q \in P : q # p /\ job'[q] # Idle => job'[q].base # b
    BY <1>16, <1>17
  <2>3. ASSUME NEW q \in P, NEW r \in P, q # r, job'[q] # Idle, job'[r] # Idle
        PROVE  job'[q].base # job'[r].base \/ job'[q].slot # job'[r].slot
    <3>1. CASE q = p
      BY <3>1, <2>2, <2>3, <1>15
    <3>2. CASE r = p
      BY <3>2, <2>2, <2>3, <1>15
    <3>3. CASE q # p /\ r # p
      BY <3>3, <2>3, <1>16 DEF IInv, JobInv
    <3>4. QED
      BY <3>1, <3>2, <3>3
  <2>4. QED
    BY <2>1, <2>3, <1>2 DEF JobInv
<1>20. /\ zeroedBase \in Nat /\ zeroedBase' \in 0..NPages /\ zeroedBase' \in Nat
       /\ zeroedBase <= zeroedBase' /\ b + n <= zeroedBase'
  <2> DEFINE Z == {zeroedBase, b + n}
  <2>1. zeroedBase \in 0..NPages /\ b + n \in 0..NPages /\ NPages \in Nat
    BY <1>3, <1>4, Consts DEF TypeOK
  <2>2. Z \in SUBSET (0..NPages) /\ Z # {} /\ zeroedBase \in Z /\ b + n \in Z
    BY <2>1
  <2>3. zeroedBase' = Max(Z)
    BY <1>1
  <2> HIDE DEF Z
  <2>4. Max(Z) \in Z /\ \A x \in Z : Max(Z) >= x
    BY <2>1, <2>2, MaxOf
  <2>5. Max(Z) \in 0..NPages /\ Max(Z) >= zeroedBase /\ Max(Z) >= b + n
    BY <2>2, <2>4
  <2>6. QED
    BY <2>1, <2>3, <2>5, <1>4
<1>21. dirty' \subseteq dirty
  BY <1>1
<1>22. ZeroInv'
  <2>1. CASE crashes # 0
    BY <2>1, <1>2 DEF ZeroInv
  <2>2. CASE crashes = 0
    <3>1. /\ dirty \subseteq 0..(zeroedBase * G - 1)
          /\ \A c \in Page : spans[c] # NoSpan => c + spans[c].npages <= zeroedBase
      BY <2>2 DEF IInv, ZeroInv
    <3>2. \A c \in Page : spans[c] # NoSpan /\ spans[c].needzero = 0 =>
            \A l \in Slots(spans[c]) \ spans[c].alloc : Cells(c, ElemSize(spans[c]), l) \cap dirty = {}
      BY <2>2 DEF IInv, ZeroInv
    <3>3. \A q \in P : job[q] # Idle =>
            Cells(job[q].base, ElemSize(spans[job[q].base]), job[q].slot) \cap dirty = {}
      BY <2>2 DEF IInv, ZeroInv
    <3>4. dirty' \subseteq 0..(zeroedBase' * G - 1)
      <4> DEFINE x == zeroedBase * G
                 y == zeroedBase' * G
      <4>1. x \in Nat /\ y \in Nat /\ x <= y
        BY <1>20, Consts, Multiples
      <4>2. dirty \subseteq 0..(x - 1)
        BY <3>1
      <4> HIDE DEF x, y
      <4>3. dirty' \subseteq 0..(y - 1)
        BY <4>1, <4>2, <1>21
      <4>4. QED
        BY <4>3 DEF y
    <3>5. GranulesOf(b, n) \cap dirty' = {}
      <4>1. CASE b < zeroedBase
        BY <4>1, <1>1
      <4>2. CASE zeroedBase <= b
        <5> DEFINE x == zeroedBase * G
                   y == b * G
                   z == (b + n) * G
        <5>1. x \in Nat /\ y \in Nat /\ x <= y /\ z \in Nat
          BY <4>2, <1>4, <1>20, Consts, Multiples
        <5>2. dirty \subseteq 0..(x - 1) /\ GranulesOf(b, n) = y..(z - 1)
          BY <3>1 DEF GranulesOf
        <5> HIDE DEF x, y, z
        <5>3. QED
          BY <5>1, <5>2, <1>21
      <4>3. QED
        BY <4>1, <4>2, <1>4, <1>20
    <3>6. \A k \in Slots(s) : Cells(b, ElemSize(s), k) \cap dirty' = {}
      BY <3>5, <1>6, <1>7, SlotInside
    <3>7. 0 \in Slots(s)
      BY <1>6, SpanFacts
    <3>8. ASSUME NEW q \in P, job'[q] # Idle
          PROVE  Cells(job'[q].base, ElemSize(spans'[job'[q].base]), job'[q].slot) \cap dirty' = {}
      <4>1. CASE q = p
        BY <4>1, <1>8, <1>15, <3>6, <3>7
      <4>2. CASE q # p
        <5>1. /\ job'[q] = job[q] /\ job[q] # Idle /\ job[q].base \in Page /\ job[q].base # b
          BY <4>2, <3>8, <1>16, <1>17
        <5>2. QED
          BY <5>1, <3>3, <1>8, <1>21
      <4>3. QED
        BY <4>1, <4>2
    <3>9. ASSUME NEW c \in Page, spans'[c] # NoSpan
          PROVE  c + spans'[c].npages <= zeroedBase'
      <4>1. CASE c = b
        BY <4>1, <1>7, <1>8, <1>20
      <4>2. CASE c # b
        <5>1. spans'[c] = spans[c] /\ c + spans[c].npages <= zeroedBase
          BY <4>2, <3>1, <3>9, <1>8
        <5>2. c \in Nat /\ spans[c].npages \in Nat
          BY Consts, <1>3 DEF SpanSet
        <5>3. QED
          BY <5>1, <5>2, <1>20
      <4>3. QED
        BY <4>1, <4>2
    <3>10. \A c \in Page : spans'[c] # NoSpan /\ spans'[c].needzero = 0 =>
             \A l \in Slots(spans'[c]) \ spans'[c].alloc : Cells(c, ElemSize(spans'[c]), l) \cap dirty' = {}
      <4>1. ASSUME NEW c \in Page, spans'[c] # NoSpan, spans'[c].needzero = 0,
                   NEW l \in Slots(spans'[c]) \ spans'[c].alloc
            PROVE  Cells(c, ElemSize(spans'[c]), l) \cap dirty' = {}
        <5>1. CASE c = b
          BY <5>1, <4>1, <3>6, <1>8
        <5>2. CASE c # b
          BY <5>2, <4>1, <3>2, <1>8, <1>21
        <5>3. QED
          BY <5>1, <5>2
      <4>2. QED
        BY <4>1
    <3>11. QED
      BY <3>4, <3>8, <3>9, <3>10, <1>2 DEF ZeroInv
  <2>3. QED
    BY <2>1, <2>2
<1>23. TypeOK'
  <2>1. \A c \in Page : spans'[c] \in SpanSet /\ spans'[c].alloc \subseteq Granule
    BY <1>8 DEF SpanSet, Granule
  <2>2. \A q \in P : job'[q].pc \in {"idle", "bits", "meta", "persist", "fence", "return"}
    BY <1>15 DEF JobSet, Idle
  <2>3. dirty' \subseteq written /\ freePages' \subseteq Page
    BY <1>1, <1>3, <1>21 DEF TypeOK
  <2>4. QED
    BY <2>1, <2>2, <2>3, <1>2, <1>3, <1>12, <1>20, SMTT(30) DEF TypeOK
<1>24. QED
  BY <1>10, <1>13, <1>14, <1>18, <1>19, <1>22, <1>23 DEF IInv

\* The span class and the type index of a type.
LEMMA ClassFacts ==
  ASSUME TypeOK, NEW t \in Type
  PROVE  /\ SpanClassOf(t) \in 0..MaxSmallSpanclass /\ TypeIndex(t) \in 0..(MaxCacheTypes - 1)
         /\ Sizeclass(SpanClassOf(t)) = SizeClassOf[t] /\ SizeClassOf[t] \in 0..66
         /\ SizeClassOf[t] # 0 => SpanClassOf(t) \in 2..MaxSmallSpanclass
         /\ SizeClassOf[t] = 0 => SpanClassOf(t) \in Bit
<1> DEFINE c == SizeClassOf[t]
           x == NoScanBit(t)
<1>1. c \in 0..66 /\ x \in 0..1
  BY TypeAssumption DEF NumSizeClasses, NoScanBit
<1>2. SpanClassOf(t) = c * 2 + x
  BY DEF SpanClassOf, MakeSpanClass
<1> HIDE DEF x, c
<1>3. /\ SpanClassOf(t) \in 0..133 /\ Sizeclass(SpanClassOf(t)) = c
      /\ c # 0 => SpanClassOf(t) \in 2..133
      /\ c = 0 => SpanClassOf(t) \in 0..1
  BY <1>1, <1>2 DEF Sizeclass
<1>4. TypeIndex(t) \in 0..(MaxCacheTypes - 1)
  <2>1. typAssigns[t] \in {0} \cup (1..(MaxCacheTypes - 1))
    BY DEF TypeOK, Index
  <2>2. QED
    BY <2>1, Consts DEF TypeIndex
<1>5. QED
  BY <1>1, <1>3, <1>4 DEF c, MaxSmallSpanclass, NumSizeClasses, Bit

\* mallocgc finds or makes a slot.
LEMMA AllocSteps ==
  ASSUME IInv, NEW p \in P, NEW t \in Type,
         AllocCached(p, t) \/ AllocCentral(p, t) \/ AllocFresh(p, t) \/ AllocLarge(p, t)
  PROVE  IInv'
<1>1. TypeOK /\ cache \in [P -> SUBSET Page]
  BY DEF IInv, TypeOK
<1>2. /\ SpanClassOf(t) \in 0..MaxSmallSpanclass /\ TypeIndex(t) \in 0..(MaxCacheTypes - 1)
      /\ Sizeclass(SpanClassOf(t)) = SizeClassOf[t] /\ SizeClassOf[t] \in 0..66
      /\ SizeClassOf[t] # 0 => SpanClassOf(t) \in 2..MaxSmallSpanclass
      /\ SizeClassOf[t] = 0 => SpanClassOf(t) \in Bit
  BY <1>1, ClassFacts
<1>3. \A b \in Page : Refilled(p, t, b) \in [P -> SUBSET Page]
  BY <1>1 DEF Refilled
<1>4. ASSUME AllocCached(p, t)
      PROVE  IInv'
  <2>1. mode = "run" /\ job[p] = Idle /\ SizeClassOf[t] # 0 /\ UNCHANGED <<freePages, zeroedBase, cache>>
    BY <1>4 DEF AllocCached
  <2>2. PICK b \in Cached(p, SpanClassOf(t), TypeIndex(t)) :
          /\ FreeSlots(b) # {}
          /\ TakeSlot(b)
          /\ \E new \in BOOLEAN : StartJob(p, t, b, Min(FreeSlots(b)), new)
    BY <1>4 DEF AllocCached
  <2>3. PICK new \in BOOLEAN : StartJob(p, t, b, Min(FreeSlots(b)), new)
    BY <2>2
  <2>4. b \in Page /\ spans[b].spanclass = SpanClassOf(t)
    BY <1>1 DEF Cached
  <2>5. spans[b].spanclass # 0
    BY <1>2, <2>1, <2>4
  <2>6. b \in InUse
    BY <2>4, <2>5 DEF InUse, NoSpan
  <2>7. QED
    BY <2>1, <2>2, <2>3, <2>6, <1>1, TakeStep
<1>5. ASSUME AllocCentral(p, t)
      PROVE  IInv'
  <2>1. mode = "run" /\ job[p] = Idle /\ UNCHANGED <<freePages, zeroedBase>>
    BY <1>5 DEF AllocCentral
  <2>2. PICK b \in Partial(SpanClassOf(t), TypeIndex(t)) :
          /\ TakeSlot(b)
          /\ cache' = Refilled(p, t, b)
          /\ StartJob(p, t, b, Min(FreeSlots(b)), TRUE)
    BY <1>5 DEF AllocCentral
  <2>3. b \in InUse /\ b \in Page /\ FreeSlots(b) # {}
    BY DEF Partial, InUse
  <2>4. cache' \in [P -> SUBSET Page]
    BY <2>2, <2>3, <1>3
  <2>5. QED
    BY <2>1, <2>2, <2>3, <2>4, TakeStep
<1>6. ASSUME AllocFresh(p, t)
      PROVE  IInv'
  <2> DEFINE n == ClassToAllocNPages[SizeClassOf[t]]
             spc == SpanClassOf(t)
             ti == TypeIndex(t)
             x == IF ti # 0 THEN 1 ELSE 0
             d == [spanclass |-> spc, npages |-> n, opt |-> x, needzero |-> 0]
  <2>1. mode = "run" /\ job[p] = Idle /\ SizeClassOf[t] # 0
    BY <1>6 DEF AllocFresh
  <2>2. PICK b \in Page : /\ AllocPages(b, n, spc, ti)
                          /\ cache' = Refilled(p, t, b)
                          /\ StartJob(p, t, b, 0, TRUE)
    BY <1>6 DEF AllocFresh
  <2>3. SizeClassOf[t] \in 1..66
    BY <2>1, <1>2
  <2>4. n \in Nat /\ n >= 1
    BY <2>3, ClassAssumption DEF NumSizeClasses
  <2>5. x \in Bit /\ 0 \in Bit
    BY DEF Bit
  <2>6. spc \in 2..MaxSmallSpanclass /\ n = ClassToAllocNPages[Sizeclass(spc)]
    BY <2>1, <1>2
  <2>7. cache' \in [P -> SUBSET Page]
    BY <2>2, <1>3
  <2>8. spc \in 0..MaxSmallSpanclass /\ ti \in 0..(MaxCacheTypes - 1)
    BY <1>2
  <2> HIDE DEF n, spc, ti
  <2>9. d \in Span
    <3> HIDE DEF x
    <3>1. d \in SmallSpan
      BY <2>4, <2>5, <2>6 DEF SmallSpan
    <3>2. QED
      BY <3>1 DEF Span
  <2>10. QED
    BY <2>1, <2>2, <2>4, <2>7, <2>8, <2>9, FreshStep
<1>7. ASSUME AllocLarge(p, t)
      PROVE  IInv'
  <2> DEFINE n == LargePages[t]
             spc == SpanClassOf(t)
             d == [spanclass |-> spc, npages |-> n, opt |-> 0, needzero |-> 0]
             ti == 0
  <2>1. mode = "run" /\ job[p] = Idle /\ SizeClassOf[t] = 0 /\ cache' = cache
    BY <1>7 DEF AllocLarge
  <2>2. PICK b \in Page : /\ AllocPages(b, n, spc, ti)
                          /\ StartJob(p, t, b, 0, TRUE)
    BY <1>7 DEF AllocLarge
  <2>3. n \in Nat /\ n * PageSize > MaxSmallSize
    BY <2>1, TypeAssumption
  <2>4. n >= 1
    BY <2>3 DEF PageSize, MaxSmallSize
  <2>5. spc \in Bit /\ 0 \in Bit /\ spc \in 0..MaxSmallSpanclass
    BY <2>1, <1>2 DEF Bit
  <2>6. ti \in 0..(MaxCacheTypes - 1)
    BY Consts
  <2>7. d = [spanclass |-> spc, npages |-> n, opt |-> IF ti # 0 THEN 1 ELSE 0, needzero |-> 0]
    OBVIOUS
  <2> HIDE DEF n, spc, ti
  <2>8. n <= NPages => d \in Span
    <3>1. n <= NPages => (67 + n - 4) * 8 + 7 < LogLimit
      BY <2>3, Consts
    <3>2. n <= NPages => d \in LargeSpan
      BY <3>1, <2>3, <2>5 DEF LargeSpan
    <3>3. QED
      BY <3>2 DEF Span
  <2> HIDE DEF d
  <2>9. QED
    BY <2>1, <2>2, <2>3, <2>4, <2>5, <2>6, <2>7, <2>8, <1>1, FreshStep
<1>8. QED
  BY <1>4, <1>5, <1>6, <1>7

------------------------------------------------------------------------------
(* The rest of mallocgc.                                                   *)

\* Slots in use have no granule in common.
LEMMA CellsApart ==
  ASSUME IInv, NEW b \in Page, NEW c \in Page, spans[b] # NoSpan, spans[c] # NoSpan,
         NEW k \in Slots(spans[b]), NEW l \in Slots(spans[c]), b # c \/ k # l
  PROVE  Cells(b, ElemSize(spans[b]), k) \cap Cells(c, ElemSize(spans[c]), l) = {}
<1>1. GoodSpan(spans[b], b) /\ GoodSpan(spans[c], c)
  BY DEF IInv, SpanInv
<1>2. CASE b = c
  <2>1. ElemSize(spans[b]) \in Nat /\ k \in Nat /\ l \in Nat
    BY <1>1, <1>2, SpanFacts DEF GoodSpan
  <2>2. QED
    BY <1>2, <2>1, SlotsApart, Consts
<1>3. CASE b # c
  <2>1. /\ Cells(b, ElemSize(spans[b]), k) \subseteq GranulesOf(b, spans[b].npages)
        /\ Cells(c, ElemSize(spans[c]), l) \subseteq GranulesOf(c, spans[c].npages)
    BY <1>1, SlotInside
  <2>2. /\ Taken(b) = spans[b].npages /\ Taken(b) >= 1 /\ Taken(b) \in Nat /\ b \in Nat
        /\ Taken(c) = spans[c].npages /\ Taken(c) >= 1 /\ Taken(c) \in Nat /\ c \in Nat
    BY TakenFacts
  <2>3. b + Taken(b) <= c \/ c + Taken(c) <= b
    <3>1. b < c => b + Taken(b) <= c
      BY <2>2 DEF IInv, ApartInv
    <3>2. c < b => c + Taken(c) <= b
      BY <2>2 DEF IInv, ApartInv
    <3>3. QED
      BY <3>1, <3>2, <2>2, <1>3
  <2>4. GranulesOf(b, spans[b].npages) \cap GranulesOf(c, spans[c].npages) = {}
    BY <2>2, <2>3, SpansApart
  <2>5. QED
    BY <2>1, <2>4
<1>4. QED
  BY <1>2, <1>3

\* What a processor is doing.
LEMMA JobFacts ==
  ASSUME IInv, NEW p \in P, job[p] # Idle
  PROVE  /\ mode = "run" /\ job[p].base \in Page /\ spans[job[p].base] # NoSpan
         /\ job[p].slot \in spans[job[p].base].alloc /\ job[p].slot \in Slots(spans[job[p].base])
         /\ GoodSpan(spans[job[p].base], job[p].base) /\ spans[job[p].base] \in SpanSet
         /\ job[p].typ \in Type /\ job[p].new \in BOOLEAN
         /\ job[p] \in [pc : {"bits", "meta", "persist", "fence", "return"}, typ : Type, base : Page,
                        slot : Granule, new : BOOLEAN]
<1>1. mode = "run" /\ job[p].base \in InUse /\ job[p].slot \in spans[job[p].base].alloc
  BY DEF IInv, JobInv
<1>2. job[p].base \in Page /\ spans[job[p].base] # NoSpan
  BY <1>1 DEF InUse
<1>3. GoodSpan(spans[job[p].base], job[p].base)
  BY <1>2 DEF IInv, SpanInv
<1>4. job[p] \in [pc : {"bits", "meta", "persist", "fence", "return"}, typ : Type, base : Page,
                  slot : Granule, new : BOOLEAN]
  BY DEF IInv, SpanInv, JobSet
<1>5. job[p].typ \in Type /\ job[p].new \in BOOLEAN
  BY <1>4
<1>6. QED
  BY <1>1, <1>2, <1>3, <1>4, <1>5 DEF GoodSpan

\* A step in which jobs end or go on.
LEMMA JobsKept ==
  ASSUME IInv, UNCHANGED <<spans, mode>>, job' \in [P -> JobSet],
         \A q \in P : job'[q] # Idle => /\ job[q] # Idle /\ job'[q].base = job[q].base
                                        /\ job'[q].slot = job[q].slot
  PROVE  SpanInv' /\ JobInv'
<1>1. SpanInv'
  BY DEF IInv, SpanInv
<1>2. InUse' = InUse
  BY DEF InUse
<1>3. JobInv'
  BY <1>2 DEF IInv, JobInv
<1>4. QED
  BY <1>1, <1>3

\* mallocgc goes on with its next step.
LEMMA GotoStep ==
  ASSUME IInv, NEW p \in P, job[p] # Idle, NEW pc \in {"meta", "persist"}, Goto(p, pc),
         typeLog' \in [Granule -> LogSet], heapBits' \in [Granule -> Type \cup {None, Garbage}],
         UNCHANGED <<spanLog, typeMap, dSpanLog, dTypeLog, dTypeMap, mode, cursor, spans, freePages, zeroedBase,
                     cache, freeing, typAssigns, numAssigned, prof, live, dirty, written, lost, crashes>>
  PROVE  IInv'
<1>0. TypeOK /\ job \in [P -> JobSet]
  BY DEF IInv, SpanInv
<1>1. job' = [job EXCEPT ![p] = [job[p] EXCEPT !.pc = pc]]
  BY <1>0 DEF Goto
<1> DEFINE j == [job[p] EXCEPT !.pc = pc]
<1>2. job[p] \in [pc : {"bits", "meta", "persist", "fence", "return"}, typ : Type, base : Page,
                  slot : Granule, new : BOOLEAN]
  BY JobFacts
<1>3. j \in [pc : {"bits", "meta", "persist", "fence", "return"}, typ : Type, base : Page,
             slot : Granule, new : BOOLEAN]
  BY <1>2
<1>4. j.base = job[p].base /\ j.slot = job[p].slot
  BY <1>2
<1>5. job' = [job EXCEPT ![p] = j]
  BY <1>1
<1> HIDE DEF j
<1>6. job' \in [P -> JobSet]
  BY <1>0, <1>3, <1>5 DEF JobSet
<1>7. \A q \in P : job'[q] # Idle => job[q] # Idle /\ job'[q].base = job[q].base /\ job'[q].slot = job[q].slot
  BY <1>0, <1>4, <1>5
<1>8. SpanInv' /\ JobInv'
  BY <1>6, <1>7, JobsKept
<1>9. ApartInv' /\ RunInv' /\ ReconInv'
  BY TableStep DEF WrittenBack
<1>10. ZeroInv'
  BY <1>7 DEF IInv, ZeroInv
<1>11. \A q \in P : job'[q].pc \in {"idle", "bits", "meta", "persist", "fence", "return"}
  BY <1>6 DEF JobSet, Idle
<1>12. TypeOK'
  BY <1>0, <1>11 DEF TypeOK
<1>13. QED
  BY <1>8, <1>9, <1>10, <1>12 DEF IInv

\* mallocgc returns an object, whose memory the application may write.
LEMMA ReturnStep ==
  ASSUME IInv, NEW p \in P, job[p] # Idle, Return(p), WrittenBack,
         typeLog' \in [Granule -> LogSet], dTypeLog' \in [Granule -> LogSet],
         heapBits' \in [Granule -> Type \cup {None, Garbage}],
         UNCHANGED <<spanLog, typeMap, dTypeMap, mode, cursor, spans, freePages, zeroedBase,
                     cache, freeing, typAssigns, numAssigned, prof, lost, crashes>>
  PROVE  IInv'
<1> DEFINE b == job[p].base
           k == job[p].slot
           s == spans[b]
           C == Cells(b, ElemSize(s), k)
<1>0. TypeOK /\ job \in [P -> JobSet]
  BY DEF IInv, SpanInv
<1>1. /\ mode = "run" /\ b \in Page /\ s # NoSpan /\ k \in s.alloc /\ k \in Slots(s) /\ GoodSpan(s, b)
      /\ job[p].typ \in Type
  BY JobFacts
<1>2. /\ live' = live \cup {[typ |-> job[p].typ, at |-> b * G + k * ElemSize(s)]}
      /\ dirty' = dirty \cup C /\ written' = written \cup C
      /\ job' = [job EXCEPT ![p] = Idle]
  BY SlotIs DEF Return
<1>3. C \subseteq GranulesOf(b, s.npages) /\ GranulesOf(b, s.npages) \subseteq Granule
      /\ b * G + k * ElemSize(s) \in Granule
  BY <1>1, SlotInside
<1>4. job' \in [P -> JobSet] /\ job'[p] = Idle /\ \A q \in P : q # p => job'[q] = job[q]
  BY <1>0, <1>2 DEF JobSet
<1>5. SpanInv' /\ JobInv'
  BY <1>4, JobsKept
<1>6. ApartInv' /\ RunInv' /\ ReconInv' /\ dSpanLog' \in [Page -> Nat]
  BY TableStep
<1>7. ZeroInv'
  <2>1. CASE crashes # 0
    BY <2>1 DEF ZeroInv
  <2>2. CASE crashes = 0
    <3>1. /\ dirty \subseteq 0..(zeroedBase * G - 1)
          /\ \A c \in Page : spans[c] # NoSpan => c + spans[c].npages <= zeroedBase
      BY <2>2 DEF IInv, ZeroInv
    <3>2. \A c \in Page : spans[c] # NoSpan /\ spans[c].needzero = 0 =>
            \A l \in Slots(spans[c]) \ spans[c].alloc : Cells(c, ElemSize(spans[c]), l) \cap dirty = {}
      BY <2>2 DEF IInv, ZeroInv
    <3>3. \A q \in P : job[q] # Idle =>
            Cells(job[q].base, ElemSize(spans[job[q].base]), job[q].slot) \cap dirty = {}
      BY <2>2 DEF IInv, ZeroInv
    <3>4. dirty' \subseteq 0..(zeroedBase * G - 1)
      <4> DEFINE x == (b + s.npages) * G
                 y == zeroedBase * G
                 z == b * G
      <4>1. b \in Nat /\ s.npages \in Nat /\ zeroedBase \in Nat /\ b + s.npages <= zeroedBase
        <5>1. s.npages \in Nat /\ b \in Nat
          BY <1>1, Consts, SpanFacts DEF GoodSpan
        <5>2. zeroedBase \in Nat
          BY <1>0, Consts DEF TypeOK
        <5>3. b + s.npages <= zeroedBase
          BY <3>1, <1>1
        <5>4. QED
          BY <5>1, <5>2, <5>3
      <4>2. b + s.npages \in Nat
        BY <4>1
      <4>3. x \in Nat /\ y \in Nat /\ x <= y /\ z \in Nat
        BY <4>1, <4>2, Consts, Multiples
      <4>4. GranulesOf(b, s.npages) = z..(x - 1) /\ dirty \subseteq 0..(y - 1)
        BY <3>1 DEF GranulesOf
      <4> HIDE DEF x, y, z, C
      <4>5. dirty' \subseteq 0..(y - 1)
        <5>1. z..(x - 1) \subseteq 0..(y - 1)
          BY <4>3
        <5>2. C \subseteq z..(x - 1)
          BY <4>4, <1>3
        <5>3. QED
          BY <5>1, <5>2, <4>4, <1>2
      <4>6. QED
        BY <4>5 DEF y
    <3>5. \A c \in Page : \A l \in Slots(spans[c]) :
            spans[c] # NoSpan /\ (b # c \/ k # l) => C \cap Cells(c, ElemSize(spans[c]), l) = {}
      BY <1>1, CellsApart
    <3> HIDE DEF C
    <3>6. ASSUME NEW c \in Page, spans[c] # NoSpan, spans[c].needzero = 0,
                 NEW l \in Slots(spans[c]) \ spans[c].alloc
          PROVE  Cells(c, ElemSize(spans[c]), l) \cap dirty' = {}
      <4>1. b # c \/ k # l
        BY <1>1, <3>6
      <4>2. QED
        BY <4>1, <3>2, <3>5, <3>6, <1>2
    <3>7. ASSUME NEW q \in P, job'[q] # Idle
          PROVE  Cells(job'[q].base, ElemSize(spans[job'[q].base]), job'[q].slot) \cap dirty' = {}
      <4>1. q # p /\ job'[q] = job[q] /\ job[q] # Idle
        BY <3>7, <1>4
      <4>2. /\ job[q].base \in Page /\ spans[job[q].base] # NoSpan
            /\ job[q].slot \in Slots(spans[job[q].base])
        BY <4>1, JobFacts
      <4>3. b # job[q].base \/ k # job[q].slot
        BY <4>1 DEF IInv, JobInv
      <4>4. C \cap Cells(job[q].base, ElemSize(spans[job[q].base]), job[q].slot) = {}
        BY <4>2, <4>3, <3>5
      <4>5. QED
        BY <4>1, <4>4, <3>3, <1>2
    <3>8. QED
      BY <3>1, <3>4, <3>6, <3>7, <1>1 DEF ZeroInv
  <2>3. QED
    BY <2>1, <2>2
<1>8. TypeOK'
  <2>1. live' \subseteq [typ : Type, at : Granule]
    BY <1>0, <1>1, <1>2, <1>3 DEF TypeOK
  <2>2. dirty' \subseteq written' /\ written' \subseteq Granule
    BY <1>0, <1>2, <1>3 DEF TypeOK
  <2>3. \A q \in P : job'[q].pc \in {"idle", "bits", "meta", "persist", "fence", "return"}
    BY <1>4 DEF JobSet, Idle
  <2> HIDE DEF C
  <2>4. QED
    BY <2>1, <2>2, <2>3, <1>0, <1>6 DEF TypeOK
<1>9. QED
  BY <1>5, <1>6, <1>7, <1>8 DEF IInv

\* The page of a span has a first granule.
LEMMA FirstGranule ==
  ASSUME NEW b \in Page
  PROVE  b * G \in Granule
<1>1. b \in Nat /\ b < NPages
  BY Consts DEF Page
<1>2. b * G \in Nat /\ b * G + G <= NPages * G
  BY <1>1, Consts, Multiples
<1> DEFINE x == b * G
           m == NPages * G
<1>3. x \in Nat /\ m \in Nat /\ x + G <= m
  BY <1>2, Consts
<1>4. Granule = 0..(m - 1)
  BY DEF Granule
<1> HIDE DEF x, m
<1>5. x \in Granule
  BY <1>3, <1>4, Consts
<1>6. QED
  BY <1>5 DEF x

\* The type bits of an object are set, logged and made durable, and it is returned.
LEMMA JobSteps ==
  ASSUME IInv, NEW p \in P,
         HeapBits(p) \/ LogMeta(p) \/ PersistBits(p) \/ FenceSpan(p) \/ ReturnNoScan(p)
  PROVE  IInv'
<1> DEFINE b == job[p].base
           k == job[p].slot
           t == job[p].typ
<1>0. TypeOK
  BY DEF IInv
<1>1. job[p] # Idle
  BY DEF HeapBits, LogMeta, PersistBits, FenceSpan, ReturnNoScan, Idle
<1>2. b \in Page /\ t \in Type /\ b * G \in Granule /\ spans[b] \in SpanSet
  BY <1>1, JobFacts, FirstGranule
<1>3. /\ typeLog \in [Granule -> LogSet] /\ dTypeLog \in [Granule -> LogSet]
      /\ heapBits \in [Granule -> Type \cup {None, Garbage}]
      /\ dSpanLog \in [Page -> Nat]
  BY <1>0 DEF TypeOK
<1>4. ASSUME HeapBits(p)
      PROVE  IInv'
  <2> DEFINE gs == SlotGranules(b, k)
  <2>1. /\ heapBits' = [g \in Granule |-> IF g \in gs THEN t ELSE heapBits[g]]
        /\ UNCHANGED <<spanLog, typeMap, dSpanLog, dTypeLog, dTypeMap, mode, cursor, spans, freePages,
                       zeroedBase, cache, freeing, typAssigns, numAssigned, prof, lost, crashes>>
    BY <1>4 DEF HeapBits, durable, recovery, heap, profile
  <2>2. \/ Return(p) /\ UNCHANGED typeLog
        \/ /\ typeLog' = [g \in Granule |-> IF g \in gs THEN [idx |-> Raw, bits |-> <<"raw", t>>] ELSE typeLog[g]]
           /\ Goto(p, "persist") /\ UNCHANGED <<live, dirty, written>>
        \/ /\ typeLog' = [typeLog EXCEPT ![b * G].idx = spans[b].typIndex]
           /\ Goto(p, "meta") /\ UNCHANGED <<live, dirty, written>>
    BY <1>4 DEF HeapBits
  <2> HIDE DEF gs, t
  <2>3. heapBits' \in [Granule -> Type \cup {None, Garbage}]
    BY <2>1, <1>2, <1>3
  <2>4. ASSUME Return(p), UNCHANGED typeLog
        PROVE  IInv'
    BY <2>1, <2>3, <2>4, <1>1, <1>3, ReturnStep DEF WrittenBack
  <2>5. ASSUME typeLog' = [g \in Granule |-> IF g \in gs THEN [idx |-> Raw, bits |-> <<"raw", t>>]
                                             ELSE typeLog[g]],
               Goto(p, "persist"), UNCHANGED <<live, dirty, written>>
        PROVE  IInv'
    <3>1. [idx |-> Raw, bits |-> <<"raw", t>>] \in LogSet
      BY <1>2 DEF LogSet
    <3>2. typeLog' \in [Granule -> LogSet]
      BY <3>1, <2>5, <1>3
    <3>3. QED
      BY <3>2, <2>1, <2>3, <2>5, <1>1, GotoStep
  <2>6. ASSUME typeLog' = [typeLog EXCEPT ![b * G].idx = spans[b].typIndex],
               Goto(p, "meta"), UNCHANGED <<live, dirty, written>>
        PROVE  IInv'
    <3>1. spans[b].typIndex \in {0} \cup Index
      BY <1>2, Consts DEF SpanSet, Index
    <3>2. typeLog[b * G] \in LogSet
      BY <1>2, <1>3
    <3>3. [typeLog[b * G] EXCEPT !.idx = spans[b].typIndex] \in LogSet
      BY <3>1, <3>2 DEF LogSet
    <3>4. typeLog' = [typeLog EXCEPT ![b * G] = [typeLog[b * G] EXCEPT !.idx = spans[b].typIndex]]
      BY <2>6, <1>2, <1>3
    <3>5. typeLog' \in [Granule -> LogSet]
      BY <3>3, <3>4, <1>2, <1>3
    <3>6. QED
      BY <3>5, <2>1, <2>3, <2>6, <1>1, GotoStep
  <2>7. QED
    BY <2>2, <2>4, <2>5, <2>6
<1>5. ASSUME LogMeta(p)
      PROVE  IInv'
  <2>1. /\ typeLog' = [typeLog EXCEPT ![b * G].bits = <<"opt", t>>] /\ Goto(p, "persist")
        /\ UNCHANGED <<spanLog, typeMap, dSpanLog, dTypeLog, dTypeMap, mode, cursor, spans, freePages,
                       zeroedBase, cache, freeing, heapBits, typAssigns, numAssigned, prof, live, dirty,
                       written, lost, crashes>>
    BY <1>5 DEF LogMeta, durable, recovery, heap, profile
  <2>2. typeLog[b * G] \in LogSet
    BY <1>2, <1>3
  <2>3. <<"opt", t>> \in {<<f, u>> : f \in {"raw", "opt"}, u \in Type}
    BY <1>2
  <2>4. [typeLog[b * G] EXCEPT !.bits = <<"opt", t>>] \in LogSet
    BY <2>2, <2>3 DEF LogSet
  <2>5. typeLog' = [typeLog EXCEPT ![b * G] = [typeLog[b * G] EXCEPT !.bits = <<"opt", t>>]]
    BY <2>1, <1>2, <1>3
  <2>6. typeLog' \in [Granule -> LogSet]
    BY <2>4, <2>5, <1>2, <1>3
  <2>7. QED
    BY <2>1, <2>6, <1>1, <1>3, GotoStep
<1>6. ASSUME PersistBits(p)
      PROVE  IInv'
  <2> DEFINE gs == IF spans[b].typIndex = 0 THEN SlotGranules(b, job[p].slot) ELSE {b * G}
  <2>1. /\ dTypeLog' = [g \in Granule |-> IF g \in gs THEN typeLog[g] ELSE dTypeLog[g]]
        /\ dSpanLog' = IF job[p].new THEN [dSpanLog EXCEPT ![b] = spanLog[b]] ELSE dSpanLog
        /\ Return(p)
        /\ UNCHANGED <<spanLog, typeLog, typeMap, dTypeMap, mode, cursor, spans, freePages,
                       zeroedBase, cache, freeing, heapBits, typAssigns, numAssigned, prof, lost, crashes>>
    BY <1>6 DEF PersistBits, persistent, recovery, heap, profile
  <2> HIDE DEF gs
  <2>2. dTypeLog' \in [Granule -> LogSet]
    BY <2>1, <1>3
  <2>3. WrittenBack
    BY <2>1, <1>2 DEF WrittenBack
  <2>4. QED
    BY <2>1, <2>2, <2>3, <1>1, <1>3, ReturnStep
<1>7. ASSUME FenceSpan(p)
      PROVE  IInv'
  <2>1. /\ dSpanLog' = [dSpanLog EXCEPT ![b] = spanLog[b]]
        /\ Return(p)
        /\ UNCHANGED <<spanLog, typeLog, typeMap, dTypeLog, dTypeMap, mode, cursor, spans, freePages,
                       zeroedBase, cache, freeing, heapBits, typAssigns, numAssigned, prof, lost, crashes>>
    BY <1>7 DEF FenceSpan, persistent, recovery, heap, profile
  <2>2. WrittenBack
    BY <2>1, <1>2 DEF WrittenBack
  <2>3. QED
    BY <2>1, <2>2, <1>1, <1>3, ReturnStep
<1>8. ASSUME ReturnNoScan(p)
      PROVE  IInv'
  <2>1. /\ Return(p)
        /\ UNCHANGED <<spanLog, typeLog, typeMap, dSpanLog, dTypeLog, dTypeMap, mode, cursor, spans, freePages,
                       zeroedBase, cache, freeing, heapBits, typAssigns, numAssigned, prof, lost, crashes>>
    BY <1>8 DEF ReturnNoScan, persistent, durable, recovery, heap, profile
  <2>2. QED
    BY <2>1, <1>1, <1>3, ReturnStep DEF WrittenBack
<1>9. QED
  BY <1>4, <1>5, <1>6, <1>7, <1>8

------------------------------------------------------------------------------
(* The garbage collector.                                                  *)

\* sweep frees slots of a span.
LEMMA SweepStep ==
  ASSUME IInv, NEW b \in Page, Sweep(b)
  PROVE  IInv'
<1>0. TypeOK /\ spans \in [Page -> SpanSet] /\ job \in [P -> JobSet]
  BY DEF IInv, SpanInv
<1>1. /\ mode = "run" /\ spans[b] # NoSpan
      /\ \A p \in P : job[p] # Idle => job[p].base # b
      /\ UNCHANGED <<spanLog, typeLog, typeMap, dSpanLog, dTypeLog, dTypeMap, mode, cursor, freePages,
                     zeroedBase, cache, freeing, job, heapBits, typAssigns, numAssigned, prof, live, dirty,
                     written, lost, crashes>>
  BY DEF Sweep, Sweepable, InUse, persistent, durable, recovery, profile
<1>2. spans' = [spans EXCEPT ![b].alloc = Marked(b), ![b].needzero = 1]
  BY DEF Sweep
<1>3. GoodSpan(spans[b], b) /\ spans[b] \in SpanSet /\ spans[b].alloc \subseteq Slots(spans[b])
  BY <1>1 DEF IInv, SpanInv, GoodSpan
<1> DEFINE A == Marked(b)
           r == [spanclass |-> spans[b].spanclass, npages |-> spans[b].npages, typIndex |-> spans[b].typIndex,
                 needzero |-> 1, alloc |-> A]
<1>4. A \subseteq spans[b].alloc
  BY DEF Marked
<1> HIDE DEF A
<1>5. spans' = [spans EXCEPT ![b] = r]
  <2>1. spans' = [spans EXCEPT ![b] = [spans[b] EXCEPT !.alloc = A, !.needzero = 1]]
    BY <1>0, <1>2 DEF A
  <2>2. [spans[b] EXCEPT !.alloc = A, !.needzero = 1] = r
    <3>1. PICK x1 \in 0..MaxSmallSpanclass, x2 \in 0..NPages, x3 \in 0..(MaxCacheTypes - 1), x4 \in Bit,
               x5 \in SUBSET (0..(NPages * G - 1)) :
            spans[b] = [spanclass |-> x1, npages |-> x2, typIndex |-> x3, needzero |-> x4, alloc |-> x5]
      BY <1>3 DEF SpanSet
    <3>2. r = [spanclass |-> x1, npages |-> x2, typIndex |-> x3, needzero |-> 1, alloc |-> A]
      BY <3>1
    <3>3. [spans[b] EXCEPT !.alloc = A] = [spanclass |-> x1, npages |-> x2, typIndex |-> x3, needzero |-> x4,
                                           alloc |-> A]
      BY <3>1
    <3> DEFINE v == [spans[b] EXCEPT !.alloc = A]
    <3>4. [spans[b] EXCEPT !.alloc = A, !.needzero = 1] = [v EXCEPT !.needzero = 1]
      OBVIOUS
    <3> HIDE DEF v, r
    <3>5. v = [spanclass |-> x1, npages |-> x2, typIndex |-> x3, needzero |-> x4, alloc |-> A]
      BY <3>3 DEF v
    <3>6. [v EXCEPT !.needzero = 1] = r
      BY <3>2, <3>5
    <3>7. QED
      BY <3>4, <3>6
  <2>3. QED
    BY <2>1, <2>2
<1>6. /\ r \in SpanSet /\ r.spanclass = spans[b].spanclass /\ r.npages = spans[b].npages
      /\ r.typIndex = spans[b].typIndex /\ r.needzero = 1 /\ r.alloc = A
  BY <1>3, <1>4 DEF SpanSet, Bit
<1> HIDE DEF r
<1>7. spans'[b] = r /\ (\A c \in Page : c # b => spans'[c] = spans[c]) /\ spans' \in [Page -> SpanSet]
  BY <1>0, <1>5, <1>6
<1>8. SameShape
  <2>1. \A c \in Page : spans[c] # NoSpan => spans[c].alloc \subseteq Slots(spans[c])
    BY DEF IInv, SpanInv, GoodSpan
  <2>2. QED
    BY <2>1, <1>1, <1>3, <1>4, <1>6, <1>7 DEF SameShape
<1>9. ApartInv' /\ RunInv' /\ ReconInv'
  <2>1. Logged /\ spanLog' \in [Page -> Nat]
    BY <1>0, <1>1 DEF Logged, TypeOK
  <2>2. QED
    BY <2>1, <1>1, <1>8, ReshapeStep
<1>10. SpanInv'
  <2>1. \A c \in Page : spans'[c] # NoSpan => GoodSpan(spans'[c], c)
    BY <1>8, ShapeFacts
  <2>2. QED
    BY <2>1, <1>0, <1>1, <1>7 DEF SpanInv
<1>11. JobInv'
  <2>1. ASSUME NEW p \in P, job[p] # Idle
        PROVE  /\ mode = "run" /\ job[p].base \in InUse' /\ job[p].slot \in spans'[job[p].base].alloc
    <3>1. mode = "run" /\ job[p].base \in InUse /\ job[p].slot \in spans[job[p].base].alloc
      BY <2>1 DEF IInv, JobInv
    <3>2. job[p].base \in Page /\ job[p].base # b
      BY <2>1, <3>1, <1>1 DEF InUse
    <3>3. QED
      BY <3>1, <3>2, <1>7 DEF InUse
  <2>2. QED
    BY <2>1, <1>1 DEF IInv, JobInv
<1>12. ZeroInv'
  <2>1. CASE crashes # 0
    BY <2>1, <1>1 DEF ZeroInv
  <2>2. CASE crashes = 0
    <3>1. \A c \in Page : spans'[c] # NoSpan => c + spans'[c].npages <= zeroedBase
      BY <2>2, <1>1, <1>6, <1>7 DEF IInv, ZeroInv
    <3>2. \A c \in Page : spans'[c] # NoSpan /\ spans'[c].needzero = 0 =>
            \A l \in Slots(spans'[c]) \ spans'[c].alloc : Cells(c, ElemSize(spans'[c]), l) \cap dirty = {}
      BY <2>2, <1>6, <1>7 DEF IInv, ZeroInv
    <3>3. \A q \in P : job[q] # Idle =>
            Cells(job[q].base, ElemSize(spans'[job[q].base]), job[q].slot) \cap dirty = {}
      <4>1. \A q \in P : job[q] # Idle => job[q].base \in Page
        BY JobFacts
      <4>2. QED
        BY <4>1, <2>2, <1>1, <1>7 DEF IInv, ZeroInv
    <3>4. dirty \subseteq 0..(zeroedBase * G - 1)
      BY <2>2 DEF IInv, ZeroInv
    <3>5. QED
      BY <3>1, <3>2, <3>3, <3>4, <1>1 DEF ZeroInv
  <2>3. QED
    BY <2>1, <2>2
<1>13. TypeOK'
  <2>1. \A c \in Page : spans'[c] \in SpanSet /\ spans'[c].alloc \subseteq Granule
    BY <1>7 DEF SpanSet, Granule
  <2>2. QED
    BY <2>1, <1>0, <1>1 DEF TypeOK
<1>14. QED
  BY <1>9, <1>10, <1>11, <1>12, <1>13 DEF IInv

\* sweep starts to free a span.
LEMMA SweepFreeStep ==
  ASSUME IInv, NEW b \in Page, SweepFree(b)
  PROVE  IInv'
<1>0. TypeOK /\ spans \in [Page -> SpanSet] /\ job \in [P -> JobSet] /\ spanLog \in [Page -> Nat]
  BY DEF IInv, SpanInv, TypeOK
<1>1. /\ mode = "run" /\ spans[b] # NoSpan /\ freeing = <<>>
      /\ \A p \in P : job[p] # Idle => job[p].base # b
      /\ UNCHANGED <<typeLog, typeMap, dSpanLog, dTypeLog, dTypeMap, mode, cursor, freePages,
                     zeroedBase, cache, job, heapBits, typAssigns, numAssigned, prof, live, dirty,
                     written, lost, crashes>>
  BY DEF SweepFree, Sweepable, InUse, durable, recovery, profile
<1>2. /\ spans' = [spans EXCEPT ![b] = NoSpan] /\ spanLog' = [spanLog EXCEPT ![b] = 0]
      /\ freeing' = <<b, spans[b].npages>>
  BY DEF SweepFree
<1>3. /\ Taken(b) = spans[b].npages /\ Taken(b) \in Nat /\ Taken(b) >= 1 /\ b + spans[b].npages <= NPages
      /\ b \in Nat
  BY <1>1, TakenFacts
<1>4. NoSpan \in SpanSet
  BY Consts DEF NoSpan, SpanSet, MaxSmallSpanclass, NumSizeClasses, Bit
<1>5. spans'[b] = NoSpan /\ (\A c \in Page : c # b => spans'[c] = spans[c]) /\ spans' \in [Page -> SpanSet]
  BY <1>0, <1>2, <1>4
<1>6. freeing' # <<>> /\ freeing'[1] = b /\ freeing'[2] = spans[b].npages
  BY <1>2
<1>7. \A c \in Page : Taken(c)' = Taken(c)
  <2>1. ASSUME NEW c \in Page
        PROVE  Taken(c)' = Taken(c)
    <3>1. CASE c = b
      <4>1. Taken(b)' = spans[b].npages
        BY <1>5, <1>6 DEF Taken
      <4>2. QED
        BY <4>1, <3>1, <1>3
    <3>2. CASE c # b
      BY <3>2, <1>1, <1>5, <1>6 DEF Taken
    <3>3. QED
      BY <3>1, <3>2
  <2>2. QED
    BY <2>1
<1>8. ApartInv'
  <2>1. \A c, d \in Page : c < d /\ Taken(c)' > 0 /\ Taken(d)' > 0 => c + Taken(c)' <= d
    BY <1>7 DEF IInv, ApartInv
  <2>2. \A c \in Page : Taken(c)' > 0 => PagesOf(c, Taken(c))' \cap freePages' = {}
    BY <1>1, <1>7 DEF IInv, ApartInv, PagesOf
  <2>3. mode' = "run" /\ spans'[freeing'[1]] = NoSpan /\ freeing'[1] + freeing'[2] <= NPages
    BY <1>1, <1>3, <1>5, <1>6
  <2>4. QED
    BY <2>1, <2>2, <2>3 DEF ApartInv
<1>9. spanLog' \in [Page -> Nat] /\ spanLog'[b] = 0 /\ \A c \in Page : c # b => spanLog'[c] = spanLog[c]
  BY <1>0, <1>2
<1>10. RunInv'
  <2>1. ASSUME NEW c \in Page
        PROVE  /\ spanLog'[c] # 0 => /\ Valid(spanLog'[c]) /\ c \in InUse'
                                     /\ CreateSpan(spanLog'[c]).npages = spans'[c].npages
               /\ dSpanLog'[c] # 0 => /\ Valid(dSpanLog'[c])
                                      /\ CreateSpan(dSpanLog'[c]).npages = Taken(c)'
    <3>1. dSpanLog'[c] # 0 => Valid(dSpanLog'[c]) /\ CreateSpan(dSpanLog'[c]).npages = Taken(c)'
      BY <1>1, <1>7 DEF IInv, RunInv
    <3>2. spanLog'[c] # 0 => c # b /\ spanLog'[c] = spanLog[c] /\ spans'[c] = spans[c]
      BY <1>5, <1>9
    <3>3. spanLog[c] # 0 => /\ Valid(spanLog[c]) /\ c \in InUse
                            /\ CreateSpan(spanLog[c]).npages = spans[c].npages
      BY <1>1 DEF IInv, RunInv
    <3>4. QED
      BY <3>1, <3>2, <3>3 DEF InUse
  <2>2. cursor' = 0
    BY <1>1 DEF IInv, RunInv
  <2>3. QED
    BY <2>1, <2>2 DEF RunInv
<1>11. ReconInv'
  BY <1>1 DEF ReconInv
<1>12. SpanInv'
  <2>1. \A c \in Page : spans'[c] # NoSpan => GoodSpan(spans'[c], c)
    BY <1>5 DEF IInv, SpanInv
  <2>2. QED
    BY <2>1, <1>0, <1>1, <1>5 DEF SpanInv
<1>13. JobInv'
  <2>1. ASSUME NEW p \in P, job[p] # Idle
        PROVE  mode = "run" /\ job[p].base \in InUse' /\ job[p].slot \in spans'[job[p].base].alloc
    <3>1. mode = "run" /\ job[p].base \in InUse /\ job[p].slot \in spans[job[p].base].alloc
      BY <2>1 DEF IInv, JobInv
    <3>2. job[p].base \in Page /\ job[p].base # b
      BY <2>1, <3>1, <1>1 DEF InUse
    <3>3. QED
      BY <3>1, <3>2, <1>5 DEF InUse
  <2>2. QED
    BY <2>1, <1>1 DEF IInv, JobInv
<1>14. ZeroInv'
  <2>1. CASE crashes # 0
    BY <2>1, <1>1 DEF ZeroInv
  <2>2. CASE crashes = 0
    <3>1. \A c \in Page : spans'[c] # NoSpan => c + spans'[c].npages <= zeroedBase
      BY <2>2, <1>5 DEF IInv, ZeroInv
    <3>2. \A c \in Page : spans'[c] # NoSpan /\ spans'[c].needzero = 0 =>
            \A l \in Slots(spans'[c]) \ spans'[c].alloc : Cells(c, ElemSize(spans'[c]), l) \cap dirty = {}
      BY <2>2, <1>5 DEF IInv, ZeroInv
    <3>3. \A q \in P : job[q] # Idle =>
            Cells(job[q].base, ElemSize(spans'[job[q].base]), job[q].slot) \cap dirty = {}
      <4>1. \A q \in P : job[q] # Idle => job[q].base \in Page
        BY JobFacts
      <4>2. QED
        BY <4>1, <2>2, <1>1, <1>5 DEF IInv, ZeroInv
    <3>4. dirty \subseteq 0..(zeroedBase * G - 1)
      BY <2>2 DEF IInv, ZeroInv
    <3>5. QED
      BY <3>1, <3>2, <3>3, <3>4, <1>1 DEF ZeroInv
  <2>3. QED
    BY <2>1, <2>2
<1>15. TypeOK'
  <2>1. \A c \in Page : spans'[c] \in SpanSet /\ spans'[c].alloc \subseteq Granule
    BY <1>5 DEF SpanSet, Granule
  <2>2. spans[b].npages \in 1..NPages
    BY <1>3, Consts
  <2>3. freeing' \in {<<>>} \cup {<<c, n>> : c \in Page, n \in 1..NPages}
    BY <2>2, <1>2
  <2>4. QED
    BY <2>1, <2>3, <1>0, <1>1, <1>9 DEF TypeOK
<1>16. QED
  BY <1>8, <1>10, <1>11, <1>12, <1>13, <1>14, <1>15 DEF IInv

\* The pages of the span are free.
LEMMA FreePersistStep ==
  ASSUME IInv, FreePersist
  PROVE  IInv'
<1>0. TypeOK /\ dSpanLog \in [Page -> Nat] /\ job \in [P -> JobSet]
  BY DEF IInv, SpanInv, TypeOK
<1>1. /\ freeing # <<>> /\ dSpanLog' = [dSpanLog EXCEPT ![freeing[1]] = spanLog[freeing[1]]]
      /\ freePages' = freePages \cup PagesOf(freeing[1], freeing[2]) /\ freeing' = <<>>
      /\ UNCHANGED <<spanLog, typeLog, typeMap, dTypeLog, dTypeMap, mode, cursor, spans,
                     zeroedBase, cache, job, heapBits, typAssigns, numAssigned, prof, live, dirty,
                     written, lost, crashes>>
  BY DEF FreePersist, persistent, recovery, profile
<1>2. PICK b \in Page, n \in 1..NPages : freeing = <<b, n>>
  <2>1. freeing \in {<<c, m>> : c \in Page, m \in 1..NPages}
    BY <1>0, <1>1 DEF TypeOK
  <2>2. QED
    BY <2>1
<1>20. /\ dSpanLog' = [dSpanLog EXCEPT ![b] = spanLog[b]] /\ freePages' = freePages \cup PagesOf(b, n)
       /\ freeing[1] = b /\ freeing[2] = n
  BY <1>1, <1>2
<1>3. mode = "run" /\ spans[b] = NoSpan /\ b + n <= NPages
  BY <1>1, <1>20 DEF IInv, ApartInv
<1>4. Taken(b) = n /\ n \in Nat /\ n >= 1 /\ b \in Nat
  <2>1. Taken(b) = n
    BY <1>1, <1>20, <1>3 DEF Taken
  <2>2. QED
    BY <2>1, Consts
<1>5. spanLog[b] = 0
  BY <1>2, <1>3 DEF IInv, RunInv, InUse
<1>6. Taken(b)' = 0 /\ \A c \in Page : c # b => Taken(c)' = Taken(c)
  BY <1>1, <1>20, <1>3 DEF Taken
<1>7. dSpanLog' \in [Page -> Nat] /\ dSpanLog'[b] = 0 /\ \A c \in Page : c # b => dSpanLog'[c] = dSpanLog[c]
  BY <1>0, <1>20, <1>5
<1>8. ApartInv'
  <2>1. \A c \in Page : Taken(c)' > 0 => c # b /\ Taken(c)' = Taken(c)
    BY <1>6
  <2>2. \A c, d \in Page : c < d /\ Taken(c)' > 0 /\ Taken(d)' > 0 => c + Taken(c)' <= d
    BY <2>1 DEF IInv, ApartInv
  <2>3. ASSUME NEW c \in Page, Taken(c)' > 0
        PROVE  PagesOf(c, Taken(c)) \cap freePages' = {}
    <3> DEFINE m == Taken(c)
    <3>1. c # b /\ m > 0 /\ m \in Nat /\ c \in Nat
      BY <2>1, <2>3, TakenFacts
    <3>2. PagesOf(c, m) \cap freePages = {}
      BY <3>1 DEF IInv, ApartInv
    <3>3. (c < b => c + m <= b) /\ (b < c => b + n <= c)
      BY <3>1, <1>2, <1>4 DEF IInv, ApartInv
    <3> HIDE DEF m
    <3>4. c..(c + m - 1) \cap b..(b + n - 1) = {}
      BY <3>1, <3>3, <1>4
    <3>5. PagesOf(c, m) \cap PagesOf(b, n) = {}
      BY <3>4 DEF PagesOf
    <3>6. QED
      BY <3>2, <3>5, <1>20 DEF m
  <2>4. \A c \in Page : Taken(c)' > 0 => PagesOf(c, Taken(c))' \cap freePages' = {}
    BY <2>1, <2>3 DEF PagesOf
  <2>5. QED
    BY <2>2, <2>4, <1>1 DEF ApartInv
<1>9. RunInv'
  <2>1. ASSUME NEW c \in Page
        PROVE  /\ spanLog'[c] # 0 => /\ Valid(spanLog'[c]) /\ c \in InUse'
                                     /\ CreateSpan(spanLog'[c]).npages = spans'[c].npages
               /\ dSpanLog'[c] # 0 => /\ Valid(dSpanLog'[c])
                                      /\ CreateSpan(dSpanLog'[c]).npages = Taken(c)'
    <3>1. spanLog[c] # 0 => /\ Valid(spanLog[c]) /\ c \in InUse
                            /\ CreateSpan(spanLog[c]).npages = spans[c].npages
      BY <1>3 DEF IInv, RunInv
    <3>2. dSpanLog'[c] # 0 => c # b /\ dSpanLog'[c] = dSpanLog[c] /\ Taken(c)' = Taken(c)
      BY <1>6, <1>7
    <3>3. dSpanLog[c] # 0 => Valid(dSpanLog[c]) /\ CreateSpan(dSpanLog[c]).npages = Taken(c)
      BY <1>3 DEF IInv, RunInv
    <3>4. InUse' = InUse
      BY <1>1 DEF InUse
    <3>5. QED
      BY <3>1, <3>2, <3>3, <3>4, <1>1
  <2>2. cursor' = 0
    BY <1>1, <1>3 DEF IInv, RunInv
  <2>3. QED
    BY <2>1, <2>2 DEF RunInv
<1>10. ReconInv'
  BY <1>1, <1>3 DEF ReconInv
<1>11. SpanInv' /\ JobInv'
  BY <1>0, <1>1, JobsKept
<1>12. ZeroInv'
  BY <1>1 DEF IInv, ZeroInv
<1>13. TypeOK'
  <2>1. PagesOf(b, n) \subseteq Page
    BY <1>3, <1>4, Consts DEF PagesOf, Page
  <2>2. freePages' \subseteq Page
    BY <2>1, <1>0, <1>20 DEF TypeOK
  <2>3. QED
    BY <2>2, <1>0, <1>1, <1>7 DEF TypeOK
<1>14. QED
  BY <1>8, <1>9, <1>10, <1>11, <1>12, <1>13 DEF IInv

------------------------------------------------------------------------------
(* Power failures, and the initialization that follows.                    *)

\* Outside of the run no processor allocates, no span is freed, and a power failure
\* has happened.
LEMMA RestartFacts ==
  ASSUME IInv, mode # "run"
  PROVE  /\ \A p \in P : job[p] = Idle
         /\ freeing = <<>> /\ crashes # 0 /\ cursor \in Nat /\ cursor <= NPages
         /\ \A b \in Page : Taken(b) > 0 => spans[b] # NoSpan /\ Taken(b) = spans[b].npages
         /\ \A b \in Page : spans[b] # NoSpan => /\ b < cursor /\ spanLog[b] # 0
                                                 /\ b + spans[b].npages <= cursor
<1>1. (\A p \in P : job[p] = Idle) /\ freeing = <<>> /\ crashes # 0
  BY DEF IInv, JobInv, ApartInv, ZeroInv
<1>2. cursor \in Nat /\ cursor <= NPages
  BY Consts DEF IInv, TypeOK
<1>3. \A b \in Page : Taken(b) > 0 => spans[b] # NoSpan /\ Taken(b) = spans[b].npages
  BY <1>1 DEF Taken
<1>4. \A b \in Page : spans[b] # NoSpan => b < cursor /\ spanLog[b] # 0 /\ b + spans[b].npages <= cursor
  BY DEF IInv, ReconInv
<1>5. QED
  BY <1>1, <1>2, <1>3, <1>4

\* Entries of the durable table can be read.
LEMMA DurableValid ==
  ASSUME IInv, NEW b \in Page, dSpanLog[b] # 0
  PROVE  Valid(dSpanLog[b])
BY DEF IInv, RunInv, ReconInv

\* A power failure.
LEMMA CrashStep ==
  ASSUME IInv, Crash
  PROVE  IInv'
<1>0. TypeOK
  BY DEF IInv
<1>1. /\ crashes < MaxCrashes /\ crashes' = crashes + 1
      /\ spanLog' = dSpanLog /\ typeLog' = dTypeLog /\ typeMap' = dTypeMap /\ dirty' = written
      /\ mode' = "types" /\ cursor' = 0 /\ spans' = [b \in Page |-> NoSpan] /\ freePages' = {}
      /\ zeroedBase' = 0 /\ cache' = [p \in P |-> {}] /\ job' = [p \in P |-> Idle] /\ freeing' = <<>>
      /\ heapBits' = [g \in Granule |-> None] /\ typAssigns' = [t \in Type |-> 0] /\ numAssigned' = 1
      /\ prof' = <<>> /\ lost' = lost \cup {n \in 2..numAssigned : dTypeMap[n] = None}
      /\ UNCHANGED <<dSpanLog, dTypeLog, dTypeMap, live, written>>
  BY DEF Crash, durable
<1>2. NoSpan \in SpanSet /\ NoSpan.alloc = {}
  BY Consts DEF NoSpan, SpanSet, MaxSmallSpanclass, NumSizeClasses, Bit
<1>3. \A b \in Page : spans'[b] = NoSpan /\ Taken(b)' = 0
  BY <1>1 DEF Taken
<1>4. SpanInv' /\ ApartInv' /\ JobInv' /\ RunInv'
  <2>1. SpanInv'
    BY <1>1, <1>2, <1>3 DEF SpanInv, JobSet
  <2>2. ApartInv'
    BY <1>1, <1>3 DEF ApartInv
  <2>3. JobInv'
    BY <1>1 DEF JobInv
  <2>4. RunInv'
    BY <1>1 DEF RunInv
  <2>5. QED
    BY <2>1, <2>2, <2>3, <2>4
<1>5. ReconInv'
  <2>1. \A b \in Page : dSpanLog[b] # 0 =>
          /\ Valid(dSpanLog[b])
          /\ b + CreateSpan(dSpanLog[b]).npages <= NPages
          /\ \A c \in (b + 1)..(b + CreateSpan(dSpanLog[b]).npages - 1) : dSpanLog[c] = 0
    BY DurableValid, InvNoOverlap DEF NoOverlap
  <2>2. \A b \in Page : ~(b < 0)
    BY Consts
  <2>3. QED
    BY <1>1, <1>3, <2>1, <2>2 DEF ReconInv
<1>6. crashes' \in 0..MaxCrashes /\ crashes' # 0
  BY <1>0, <1>1, Consts DEF TypeOK
<1>7. ZeroInv'
  BY <1>6 DEF ZeroInv
<1>8. TypeOK'
  <2>1. numAssigned' \in 1..(MaxCacheTypes - 1) /\ cursor' \in 0..NPages /\ zeroedBase' \in 0..NPages
    BY <1>1, Consts
  <2>2. \A q \in P : job'[q].pc \in {"idle", "bits", "meta", "persist", "fence", "return"}
    BY <1>1 DEF Idle
  <2>3. \A b \in Page : spans'[b].alloc \subseteq Granule /\ spans'[b] \in SpanSet
    BY <1>2, <1>3
  <2>4. cache' \in [P -> SUBSET Page] /\ heapBits' \in [Granule -> Type \cup {None, Garbage}]
        /\ typAssigns' \in [Type -> {0} \cup Index] /\ freePages' \subseteq Page
    BY <1>1
  <2>5. lost' \subseteq 2..(MaxCacheTypes - 1)
    <3>1. lost \subseteq 2..(MaxCacheTypes - 1) /\ numAssigned \in 1..(MaxCacheTypes - 1)
      BY <1>0 DEF TypeOK
    <3>2. 2..numAssigned \subseteq 2..(MaxCacheTypes - 1)
      BY <3>1, Consts
    <3>3. QED
      BY <3>1, <3>2, <1>1
  <2>6. QED
    BY <2>1, <2>2, <2>3, <2>4, <2>5, <1>0, <1>1, <1>6 DEF TypeOK
<1>9. QED
  BY <1>4, <1>5, <1>7, <1>8 DEF IInv

\* The types of the type map are read.
LEMMA RestoreStep ==
  ASSUME IInv, RestoreTypes
  PROVE  IInv'
<1>0. TypeOK
  BY DEF IInv
<1>1. /\ mode = "types" /\ mode' = "recon" /\ numAssigned' = 1 + Cardinality(Restored)
      /\ typAssigns' = [t \in Type |-> LET ns == {n \in Restored : typeMap[n] = t}
                                       IN  IF ns = {} THEN 0 ELSE Max(ns)]
      /\ UNCHANGED <<spanLog, typeLog, typeMap, dSpanLog, dTypeLog, dTypeMap, cursor, spans, freePages,
                     zeroedBase, cache, freeing, job, heapBits, prof, live, dirty, written, lost, crashes>>
  BY DEF RestoreTypes, persistent, durable, heap
<1>2. Restored \subseteq 2..(MaxCacheTypes - 1)
  BY DEF Restored
<1>3. numAssigned' \in 1..(MaxCacheTypes - 1)
  <2> DEFINE m == MaxCacheTypes - 1
             x == 2
  <2>1. x \in Int /\ m \in Int /\ m >= 1
    BY Consts
  <2>2. IsFiniteSet(x..m) /\ Cardinality(x..m) = IF x > m THEN 0 ELSE m - x + 1
    <3> HIDE DEF m, x
    <3>1. QED
      BY <2>1, FS_Interval
  <2>3. Restored \subseteq x..m
    BY <1>2
  <2>4. IsFiniteSet(Restored) /\ Cardinality(Restored) <= Cardinality(x..m)
    <3> HIDE DEF m, x
    <3>1. QED
      BY <2>2, <2>3, FS_Subset
  <2>5. Cardinality(Restored) \in Nat
    BY <2>4, FS_CardinalityType
  <2>6. QED
    BY <2>1, <2>2, <2>4, <2>5, <1>1
<1>4. typAssigns' \in [Type -> {0} \cup Index]
  <2>1. ASSUME NEW t \in Type
        PROVE  typAssigns'[t] \in {0} \cup Index
    <3> DEFINE ns == {n \in Restored : typeMap[n] = t}
    <3>1. typAssigns'[t] = IF ns = {} THEN 0 ELSE Max(ns)
      BY <1>1
    <3>2. ns \subseteq 2..(MaxCacheTypes - 1)
      BY <1>2
    <3>3. ns \in SUBSET (0..(MaxCacheTypes - 1)) /\ MaxCacheTypes - 1 \in Nat
      BY <3>2, Consts
    <3> HIDE DEF ns
    <3>4. ns # {} => Max(ns) \in ns
      BY <3>3, MaxOf
    <3>5. ASSUME ns # {}
          PROVE  typAssigns'[t] \in {0} \cup Index
      <4>1. typAssigns'[t] = Max(ns) /\ Max(ns) \in 2..(MaxCacheTypes - 1)
        BY <3>1, <3>2, <3>4, <3>5
      <4>2. 2..(MaxCacheTypes - 1) \subseteq Index
        BY Consts DEF Index
      <4>3. QED
        BY <4>1, <4>2
    <3>6. QED
      BY <3>1, <3>5
  <2>2. QED
    BY <2>1, <1>1
<1>5. TypeOK'
  <2>1. mode' \in {"types", "recon", "run", "panic"}
    BY <1>1
  <2>2. UNCHANGED <<spanLog, typeLog, typeMap, dSpanLog, dTypeLog, dTypeMap, cursor, spans, freePages,
                    zeroedBase, cache, freeing, job, heapBits, prof, live, dirty, written, lost, crashes>>
    BY <1>1
  <2>3. QED
    BY <2>1, <2>2, <1>0, <1>3, <1>4 DEF TypeOK
<1>6. /\ \A p \in P : job[p] = Idle
      /\ freeing = <<>> /\ crashes # 0
  BY <1>1, RestartFacts
<1>7. SpanInv' /\ JobInv' /\ ZeroInv' /\ RunInv'
  BY <1>1, <1>6 DEF IInv, SpanInv, JobInv, ZeroInv, RunInv
<1>8. ApartInv'
  <2>1. \A b \in Page : Taken(b)' = Taken(b)
    BY <1>1 DEF Taken
  <2>2. QED
    BY <2>1, <1>1, <1>6 DEF IInv, ApartInv
<1>9. ReconInv'
  BY <1>1 DEF IInv, ReconInv
<1>10. QED
  BY <1>5, <1>7, <1>8, <1>9 DEF IInv

\* A row of free pages is found.
LEMMA ReconFreeStep ==
  ASSUME IInv, ReconFree
  PROVE  IInv'
<1> DEFINE E == {NPages} \cup {j \in cursor..(NPages - 1) : spanLog[j] # 0}
           end == Min(E)
<1>0. TypeOK
  BY DEF IInv
<1>1. /\ mode = "recon" /\ cursor < NPages /\ freePages' = freePages \cup cursor..(end - 1) /\ cursor' = end
      /\ UNCHANGED <<spanLog, typeLog, typeMap, dSpanLog, dTypeLog, dTypeMap, mode, spans, zeroedBase, cache,
                     freeing, job, heapBits, typAssigns, numAssigned, prof, live, dirty, written, lost, crashes>>
  BY DEF ReconFree, persistent, durable, profile
<1>2. /\ \A p \in P : job[p] = Idle
      /\ freeing = <<>> /\ crashes # 0 /\ cursor \in Nat /\ cursor <= NPages
      /\ \A b \in Page : Taken(b) > 0 => spans[b] # NoSpan /\ Taken(b) = spans[b].npages
      /\ \A b \in Page : spans[b] # NoSpan => b < cursor /\ spanLog[b] # 0 /\ b + spans[b].npages <= cursor
  BY <1>1, RestartFacts
<1>3. E \in SUBSET Nat /\ E # {} /\ \A x \in E : cursor <= x /\ x <= NPages
  BY <1>2, Consts
<1>4. NPages \in E /\ \A j \in cursor..(NPages - 1) : spanLog[j] # 0 => j \in E
  OBVIOUS
<1> HIDE DEF E
<1>5. end \in E /\ \A x \in E : end <= x
  BY <1>3, MinOf
<1> HIDE DEF end
<1>6. end \in Nat /\ cursor <= end /\ end <= NPages
  BY <1>3, <1>5
<1>7. \A j \in Page : cursor <= j /\ j < end => spanLog[j] = 0
  <2>1. ASSUME NEW j \in Page, cursor <= j, j < end, spanLog[j] # 0
        PROVE  FALSE
    <3>1. j \in cursor..(NPages - 1)
      BY <2>1, <1>2, Consts DEF Page
    <3>2. j \in E
      BY <3>1, <2>1, <1>4
    <3>3. QED
      BY <3>2, <2>1, <1>5, <1>6, Consts
  <2>2. QED
    BY <2>1
<1>8. cursor..(end - 1) \subseteq Page
  BY <1>2, <1>6, Consts DEF Page
<1>9. TypeOK'
  <2>1. freePages' \subseteq Page /\ cursor' \in 0..NPages
    BY <1>0, <1>1, <1>6, <1>8, Consts DEF TypeOK
  <2>2. QED
    BY <2>1, <1>0, <1>1 DEF TypeOK
<1>10. SpanInv' /\ JobInv' /\ ZeroInv' /\ RunInv'
  BY <1>1, <1>2 DEF IInv, SpanInv, JobInv, ZeroInv, RunInv
<1>11. ApartInv'
  <2>1. \A b \in Page : Taken(b)' = Taken(b)
    BY <1>1 DEF Taken
  <2>2. ASSUME NEW b \in Page, Taken(b) > 0
        PROVE  PagesOf(b, Taken(b)) \cap freePages' = {}
    <3>1. b + Taken(b) <= cursor /\ b \in Nat /\ Taken(b) \in Nat
      BY <2>2, <1>2, TakenFacts
    <3>2. PagesOf(b, Taken(b)) \cap freePages = {}
      BY <2>2 DEF IInv, ApartInv
    <3> DEFINE m == Taken(b)
    <3> HIDE DEF m
    <3>3. b..(b + m - 1) \cap cursor..(end - 1) = {}
      BY <3>1, <1>2, <1>6 DEF m
    <3>4. QED
      BY <3>2, <3>3, <1>1 DEF PagesOf, m
  <2>3. \A b \in Page : Taken(b)' > 0 => PagesOf(b, Taken(b))' \cap freePages' = {}
    BY <2>1, <2>2 DEF PagesOf
  <2>4. \A b, c \in Page : b < c /\ Taken(b)' > 0 /\ Taken(c)' > 0 => b + Taken(b)' <= c
    BY <2>1 DEF IInv, ApartInv
  <2>5. QED
    BY <2>3, <2>4, <1>1, <1>2 DEF ApartInv
<1>12. ReconInv'
  <2>1. /\ spanLog = dSpanLog /\ prof = <<>> /\ cache = [p \in P |-> {}]
        /\ \A b \in Page : spanLog[b] # 0 =>
             /\ Valid(spanLog[b])
             /\ b + CreateSpan(spanLog[b]).npages <= NPages
             /\ \A c \in (b + 1)..(b + CreateSpan(spanLog[b]).npages - 1) : spanLog[c] = 0
        /\ freePages \subseteq 0..(cursor - 1)
    BY <1>1 DEF IInv, ReconInv
  <2>2. freePages' \subseteq 0..(cursor' - 1)
    BY <2>1, <1>1, <1>2, <1>6
  <2>3. ASSUME NEW b \in Page
        PROVE  IF b < cursor' /\ spanLog[b] # 0
               THEN spans[b] # NoSpan /\ spans[b].npages = CreateSpan(spanLog[b]).npages
                    /\ b + spans[b].npages <= cursor'
               ELSE spans[b] = NoSpan
    <3>1. IF b < cursor /\ spanLog[b] # 0
          THEN spans[b] # NoSpan /\ spans[b].npages = CreateSpan(spanLog[b]).npages
               /\ b + spans[b].npages <= cursor
          ELSE spans[b] = NoSpan
      BY <1>1 DEF IInv, ReconInv
    <3>2. b \in Nat /\ spans[b].npages \in Nat
      BY Consts, TakenFacts DEF SpanSet
    <3>3. b < cursor' /\ spanLog[b] # 0 <=> b < cursor /\ spanLog[b] # 0
      BY <3>2, <1>1, <1>2, <1>6, <1>7
    <3>4. QED
      BY <3>1, <3>2, <3>3, <1>1, <1>2, <1>6
  <2>4. QED
    BY <2>1, <2>2, <2>3, <1>1 DEF ReconInv
<1>13. QED
  BY <1>9, <1>10, <1>11, <1>12 DEF IInv

\* reconstruct is over.
LEMMA ReconEndStep ==
  ASSUME IInv, ReconEnd
  PROVE  IInv'
<1>0. TypeOK
  BY DEF IInv
<1>1. /\ mode = "recon" /\ cursor = NPages /\ mode' = "run" /\ cursor' = 0
      /\ UNCHANGED <<spanLog, typeLog, typeMap, dSpanLog, dTypeLog, dTypeMap, spans, freePages, zeroedBase,
                     cache, freeing, job, heapBits, typAssigns, numAssigned, prof, live, dirty, written, lost, crashes>>
  BY DEF ReconEnd, persistent, durable, heap, profile
<1>2. (\A p \in P : job[p] = Idle) /\ freeing = <<>> /\ crashes # 0
  BY <1>1, RestartFacts
<1>3. TypeOK'
  <2>1. cursor' \in 0..NPages
    BY <1>1, Consts
  <2>2. QED
    BY <2>1, <1>0, <1>1 DEF TypeOK
<1>4. SpanInv' /\ JobInv' /\ ZeroInv' /\ ReconInv'
  BY <1>1, <1>2 DEF IInv, SpanInv, JobInv, ZeroInv, ReconInv
<1>5. \A b \in Page : Taken(b)' = Taken(b)
  BY <1>1 DEF Taken
<1>6. ApartInv'
  BY <1>1, <1>2, <1>5 DEF IInv, ApartInv
<1>7. RunInv'
  <2>1. ASSUME NEW b \in Page, spanLog[b] # 0
        PROVE  /\ Valid(spanLog[b]) /\ spans[b] # NoSpan
               /\ CreateSpan(spanLog[b]).npages = spans[b].npages
    <3>1. b < cursor
      BY <1>1, Consts DEF Page
    <3>2. QED
      BY <3>1, <2>1, <1>1 DEF IInv, ReconInv
  <2>2. spanLog = dSpanLog
    BY <1>1 DEF IInv, ReconInv
  <2>3. \A b \in Page : spans[b] # NoSpan => Taken(b) = spans[b].npages
    BY DEF Taken
  <2>4. InUse' = {b \in Page : spans[b] # NoSpan}
    BY <1>1 DEF InUse
  <2>5. QED
    BY <2>1, <2>2, <2>3, <2>4, <1>1, <1>5 DEF RunInv
<1>8. QED
  BY <1>3, <1>4, <1>6, <1>7 DEF IInv

\* The type bits that are read back.
LEMMA BitsFacts ==
  ASSUME NEW log \in LogSet
  PROVE  /\ AsCopied(log) \in Type \cup {None, Garbage}
         /\ log.bits # <<>> => AsDescribed(log) \in Type \cup {None, Garbage}
<1>1. log.bits = <<>> \/ log.bits \in {<<f, t>> : f \in {"raw", "opt"}, t \in Type}
  BY DEF LogSet
<1>2. CASE log.bits = <<>>
  BY <1>2 DEF AsCopied
<1>3. CASE log.bits \in {<<f, t>> : f \in {"raw", "opt"}, t \in Type}
  <2>1. log.bits[2] \in Type
    BY <1>3
  <2>2. QED
    BY <2>1 DEF AsCopied, AsDescribed
<1>4. QED
  BY <1>1, <1>2, <1>3

\* createSpan makes a span that can be logged again, from an entry that can be read
\* and a type index that a span may have.
LEMMA Created ==
  ASSUME NEW v, Valid(v), NEW i \in 0..(MaxCacheTypes - 1), CreateSpan(v).opt # 1 => i = 0,
         NEW b \in Page, b + CreateSpan(v).npages <= NPages,
         NEW A \in SUBSET (0..(NPages * G - 1)),
         NEW r, r = [spanclass |-> CreateSpan(v).spanclass, npages |-> CreateSpan(v).npages, typIndex |-> i,
                     needzero |-> CreateSpan(v).needzero, alloc |-> A]
  PROVE  /\ r \in SpanSet /\ Desc(r) \in Span
         /\ r.npages = CreateSpan(v).npages /\ r.alloc = A /\ r.npages \in Nat /\ r.npages >= 1
<1> DEFINE s == CreateSpan(v)
           x == IF i # 0 THEN 1 ELSE 0
<1>1. s \in Span /\ s.npages \in Nat /\ s.npages >= 1
  BY SpanPages DEF Valid
<1> HIDE DEF s
<1>2. s.spanclass \in 0..MaxSmallSpanclass /\ s.needzero \in Bit
  BY <1>1 DEF Span, SmallSpan, LargeSpan, Bit, MaxSmallSpanclass, NumSizeClasses
<1>3. s.npages \in 0..NPages
  BY <1>1, Consts DEF s
<1>4. r = [spanclass |-> s.spanclass, npages |-> s.npages, typIndex |-> i, needzero |-> s.needzero, alloc |-> A]
  BY DEF s
<1>5. r \in SpanSet
  BY <1>2, <1>3, <1>4 DEF SpanSet
<1>6. Desc(r) = [spanclass |-> s.spanclass, npages |-> s.npages, opt |-> x, needzero |-> s.needzero]
  BY <1>4 DEF Desc
<1>7. x \in Bit /\ (s.opt # 1 => x = 0)
  BY DEF Bit, s
<1> HIDE DEF x
<1>8. CASE s \in SmallSpan
  <2>1. s.spanclass \in 2..MaxSmallSpanclass /\ s.npages = ClassToAllocNPages[Sizeclass(s.spanclass)]
    BY <1>8 DEF SmallSpan
  <2>2. Desc(r) \in SmallSpan
    BY <2>1, <1>1, <1>2, <1>6, <1>7 DEF SmallSpan
  <2>3. QED
    BY <2>2, <1>1, <1>4, <1>5 DEF Span, s
<1>9. CASE s \in LargeSpan
  <2>1. /\ s.spanclass \in Bit /\ s.opt = 0 /\ s.npages * PageSize > MaxSmallSize
        /\ (67 + s.npages - 4) * 8 + 7 < LogLimit
    BY <1>9 DEF LargeSpan
  <2>2. x = 0
    BY <2>1, <1>7
  <2>3. Desc(r) \in LargeSpan
    BY <2>1, <2>2, <1>1, <1>2, <1>6 DEF LargeSpan
  <2>4. QED
    BY <2>3, <1>1, <1>4, <1>5 DEF Span, s
<1>10. QED
  BY <1>1, <1>8, <1>9 DEF Span

\* A span is created from its entry.
LEMMA ReconSpanStep ==
  ASSUME IInv, ReconSpan
  PROVE  IInv'
<1> DEFINE s == CreateSpan(spanLog[cursor])
           log == typeLog[cursor * G]
           idx == IF s.opt = 1 THEN log.idx ELSE 0
           gs == IF IsScan(s.spanclass) THEN GranulesOf(cursor, s.npages) ELSE {}
           new == [spanclass |-> s.spanclass, npages |-> s.npages, typIndex |-> idx, needzero |-> s.needzero,
                   alloc |-> {}]
<1>0. TypeOK /\ spans \in [Page -> SpanSet] /\ job \in [P -> JobSet]
  BY DEF IInv, SpanInv
<1>1. /\ mode = "recon" /\ cursor < NPages /\ spanLog[cursor] # 0 /\ mode' \in Outcomes(log, idx)
      /\ IF mode' = "panic" THEN UNCHANGED <<spans, heapBits, cursor>>
         ELSE /\ spans' = [spans EXCEPT ![cursor] = [new EXCEPT !.alloc = Slots(new)]]
              /\ heapBits' = [g \in Granule |-> IF g \notin gs THEN heapBits[g]
                                                ELSE IF idx = 0 THEN AsCopied(typeLog[g]) ELSE AsDescribed(log)]
              /\ cursor' = cursor + s.npages
      /\ UNCHANGED <<spanLog, typeLog, typeMap, dSpanLog, dTypeLog, dTypeMap, freePages, zeroedBase, cache,
                     freeing, job, typAssigns, numAssigned, prof, live, dirty, written, lost, crashes>>
  BY DEF ReconSpan, persistent, durable, profile
<1>2. /\ \A p \in P : job[p] = Idle
      /\ freeing = <<>> /\ crashes # 0 /\ cursor \in Nat /\ cursor <= NPages
      /\ \A b \in Page : Taken(b) > 0 => spans[b] # NoSpan /\ Taken(b) = spans[b].npages
      /\ \A b \in Page : spans[b] # NoSpan => b < cursor /\ spanLog[b] # 0 /\ b + spans[b].npages <= cursor
  BY <1>1, RestartFacts
<1>3. mode' \in {"recon", "panic"} /\ (mode' = "recon" => idx # Raw /\ (idx # 0 => log.bits # <<>>))
  BY <1>1 DEF Outcomes
<1>4. /\ spanLog = dSpanLog /\ prof = <<>> /\ cache = [p \in P |-> {}]
      /\ \A b \in Page : spanLog[b] # 0 =>
           /\ Valid(spanLog[b])
           /\ b + CreateSpan(spanLog[b]).npages <= NPages
           /\ \A c \in (b + 1)..(b + CreateSpan(spanLog[b]).npages - 1) : spanLog[c] = 0
      /\ freePages \subseteq 0..(cursor - 1)
      /\ \A b \in Page :
           IF b < cursor /\ spanLog[b] # 0
           THEN spans[b] # NoSpan /\ spans[b].npages = CreateSpan(spanLog[b]).npages
                /\ b + spans[b].npages <= cursor
           ELSE spans[b] = NoSpan
  BY <1>1 DEF IInv, ReconInv
<1>5. ASSUME mode' = "panic"
      PROVE  IInv'
  <2>1. UNCHANGED <<spanLog, typeLog, typeMap, dSpanLog, dTypeLog, dTypeMap, cursor, spans, freePages,
                    zeroedBase, cache, freeing, job, heapBits, typAssigns, numAssigned, prof, live, dirty,
                    written, lost, crashes>>
    BY <1>1, <1>5
  <2>2. TypeOK'
    BY <2>1, <1>0, <1>5 DEF TypeOK
  <2>3. SpanInv' /\ JobInv' /\ ZeroInv' /\ RunInv'
    BY <2>1, <1>2, <1>5 DEF IInv, SpanInv, JobInv, ZeroInv, RunInv
  <2>4. \A b \in Page : Taken(b)' = Taken(b)
    BY <2>1 DEF Taken
  <2>5. ApartInv'
    BY <2>1, <2>4, <1>2 DEF IInv, ApartInv
  <2>6. ReconInv'
    BY <2>1, <1>4, <1>5 DEF ReconInv
  <2>7. QED
    BY <2>2, <2>3, <2>5, <2>6 DEF IInv
<1>6. ASSUME mode' = "recon"
      PROVE  IInv'
  <2>0. PICK c \in Page : c = cursor
    BY <1>1, <1>2, Consts DEF Page
  <2> DEFINE n == s.npages
             new2 == [new EXCEPT !.alloc = Slots(new)]
  <2>1. /\ Valid(spanLog[c]) /\ c + n <= NPages /\ c \in Nat
        /\ \A d \in (c + 1)..(c + n - 1) : spanLog[d] = 0
    BY <2>0, <1>1, <1>2, <1>4
  <2>2. log \in LogSet
    BY <2>0, <1>0, FirstGranule DEF TypeOK
  <2>3. idx \in 0..(MaxCacheTypes - 1) /\ (s.opt # 1 => idx = 0)
    <3>1. log.idx \in {0, Raw} \cup Index
      BY <2>2 DEF LogSet
    <3>2. idx \in {0} \cup Index
      BY <3>1, <1>3, <1>6
    <3>3. {0} \cup Index \subseteq 0..(MaxCacheTypes - 1)
      BY Consts DEF Index
    <3>4. QED
      BY <3>2, <3>3
  <2>4. new \in SpanSet /\ Desc(new) \in Span /\ new.npages = n /\ n \in Nat /\ n >= 1
    <3> HIDE DEF idx
    <3>1. {} \in SUBSET (0..(NPages * G - 1))
      OBVIOUS
    <3> DEFINE A == {}
    <3>2. A \in SUBSET (0..(NPages * G - 1)) /\ new = [spanclass |-> s.spanclass, npages |-> s.npages,
            typIndex |-> idx, needzero |-> s.needzero, alloc |-> A]
      OBVIOUS
    <3> HIDE DEF A, new
    <3>3. QED
      BY <2>0, <2>1, <2>3, <3>2, Created
  <2>5. Slots(new) \in SUBSET (0..(NPages * G - 1))
    <3> HIDE DEF new
    <3>1. \A k \in Slots(new) : k \in Nat /\ k < new.npages * G
      BY <2>4, SpanFacts
    <3>2. new.npages <= NPages /\ new.npages \in Nat
      BY <2>1, <2>4, Consts
    <3>3. new.npages * G <= NPages * G /\ new.npages * G \in Nat
      BY <3>2, Consts, Multiples
    <3> DEFINE x == new.npages * G
               m == NPages * G
    <3>4. x <= m /\ x \in Nat /\ m \in Nat /\ \A k \in Slots(new) : k \in Nat /\ k < x
      BY <3>1, <3>3, Consts
    <3> HIDE DEF x, m
    <3>5. \A k \in Slots(new) : k \in 0..(m - 1)
      BY <3>4
    <3>6. QED
      BY <3>5 DEF m
  <2>6. new2 = [spanclass |-> s.spanclass, npages |-> s.npages, typIndex |-> idx, needzero |-> s.needzero,
                alloc |-> Slots(new)]
    OBVIOUS
  <2>7. ElemSize(new2) = ElemSize(new) /\ Slots(new2) = Slots(new)
    <3>1. new2.spanclass = new.spanclass /\ new2.npages = new.npages
      BY <2>6
    <3> HIDE DEF new2, new
    <3>2. ElemSize(new2) = ElemSize(new)
      BY <3>1 DEF ElemSize
    <3>3. QED
      BY <3>1, <3>2 DEF Slots
  <2>8. /\ new2 \in SpanSet /\ Desc(new2) \in Span /\ new2.npages = n /\ new2.alloc = Slots(new)
    <3> DEFINE A == Slots(new)
    <3> HIDE DEF new, new2, idx, A
    <3>1. A \in SUBSET (0..(NPages * G - 1)) /\ new2 = [spanclass |-> s.spanclass, npages |-> s.npages,
            typIndex |-> idx, needzero |-> s.needzero, alloc |-> A]
      BY <2>5, <2>6 DEF A
    <3>2. QED
      BY <2>0, <2>1, <2>3, <3>1, Created DEF A
  <2>9. spans' = [spans EXCEPT ![c] = new2] /\ cursor' = c + n
    BY <2>0, <1>1, <1>6
  <2> HIDE DEF new2
  <2>10. GoodSpan(new2, c) /\ new2 # NoSpan
    <3>1. GoodSpan(new2, c)
      BY <2>1, <2>7, <2>8 DEF GoodSpan
    <3>2. new2 # NoSpan
      BY <2>4, <2>8 DEF NoSpan
    <3>3. QED
      BY <3>1, <3>2
  <2>11. spans'[c] = new2 /\ (\A d \in Page : d # c => spans'[d] = spans[d]) /\ spans' \in [Page -> SpanSet]
    BY <2>8, <2>9, <1>0
  <2>12. SpanInv'
    <3>1. \A d \in Page : spans'[d] # NoSpan => GoodSpan(spans'[d], d)
      BY <2>10, <2>11 DEF IInv, SpanInv
    <3>2. QED
      BY <3>1, <2>11, <1>0, <1>1 DEF SpanInv
  <2>13. JobInv' /\ ZeroInv' /\ RunInv'
    BY <1>1, <1>2, <1>6 DEF JobInv, ZeroInv, RunInv
  <2>14. Taken(c)' = n /\ \A d \in Page : d # c => Taken(d)' = Taken(d)
    BY <2>8, <2>10, <2>11, <1>1 DEF Taken
  <2>15. ApartInv'
    <3>1. ASSUME NEW d \in Page, NEW e \in Page, d < e, Taken(d)' > 0, Taken(e)' > 0
          PROVE  d + Taken(d)' <= e
      <4>1. CASE d = c
        <5>1. e # c /\ Taken(e) > 0 /\ e \in Nat
          BY <4>1, <3>1, <2>1, <2>14, Consts
        <5>2. e < c
          BY <5>1, <1>2, <2>0
        <5>3. QED
          BY <5>1, <5>2, <4>1, <3>1, <2>1
      <4>2. CASE e = c
        <5>1. d # c /\ Taken(d) > 0 /\ d \in Nat /\ Taken(d)' = Taken(d)
          BY <4>2, <3>1, <2>1, <2>14, Consts
        <5>2. d + Taken(d) <= c
          BY <5>1, <1>2, <2>0
        <5>3. QED
          BY <5>1, <5>2, <4>2
      <4>3. CASE d # c /\ e # c
        BY <4>3, <3>1, <2>14 DEF IInv, ApartInv
      <4>4. QED
        BY <4>1, <4>2, <4>3
    <3>2. ASSUME NEW d \in Page, Taken(d)' > 0
          PROVE  PagesOf(d, Taken(d)') \cap freePages' = {}
      <4>1. CASE d = c
        <5>1. freePages \subseteq 0..(c - 1)
          BY <1>4, <2>0
        <5> HIDE DEF n
        <5>2. c..(c + n - 1) \cap freePages = {}
          BY <5>1, <2>1, <2>4
        <5>3. QED
          BY <5>2, <4>1, <2>14, <1>1 DEF PagesOf
      <4>2. CASE d # c
        BY <4>2, <3>2, <2>14, <1>1 DEF IInv, ApartInv
      <4>3. QED
        BY <4>1, <4>2
    <3>3. \A d \in Page : Taken(d)' > 0 => PagesOf(d, Taken(d))' \cap freePages' = {}
      BY <3>2 DEF PagesOf
    <3>4. QED
      BY <3>1, <3>3, <1>1, <1>2 DEF ApartInv
  <2>16. ReconInv'
    <3>1. ASSUME NEW d \in Page
          PROVE  IF d < cursor' /\ spanLog[d] # 0
                 THEN spans'[d] # NoSpan /\ spans'[d].npages = CreateSpan(spanLog[d]).npages
                      /\ d + spans'[d].npages <= cursor'
                 ELSE spans'[d] = NoSpan
      <4>1. CASE d = c
        <5>1. c < cursor' /\ spanLog[c] # 0 /\ CreateSpan(spanLog[c]).npages = n
          BY <2>0, <2>1, <2>4, <2>9, <1>1
        <5> HIDE DEF n
        <5>2. spans'[c] # NoSpan /\ spans'[c].npages = n /\ c + n <= cursor'
          BY <2>1, <2>4, <2>8, <2>9, <2>10, <2>11
        <5>3. QED
          BY <4>1, <5>1, <5>2
      <4>2. CASE d # c
        <5>1. IF d < c /\ spanLog[d] # 0
              THEN spans[d] # NoSpan /\ spans[d].npages = CreateSpan(spanLog[d]).npages
                   /\ d + spans[d].npages <= c
              ELSE spans[d] = NoSpan
          BY <1>4, <2>0
        <5>2. d \in Nat /\ spans[d].npages \in Nat /\ spans'[d] = spans[d]
          BY <4>2, <2>11, <1>0, Consts DEF SpanSet
        <5> HIDE DEF n
        <5>3. d < cursor' /\ spanLog[d] # 0 => d < c
          <6>1. ASSUME d < cursor', ~(d < c)
                PROVE  spanLog[d] = 0
            <7>1. d \in (c + 1)..(c + n - 1)
              BY <6>1, <5>2, <4>2, <2>1, <2>4, <2>9
            <7>2. QED
              BY <7>1, <2>1
          <6>2. QED
            BY <6>1
        <5>4. d < c => d < cursor'
          BY <5>2, <2>1, <2>4, <2>9
        <5>5. d < cursor' /\ spanLog[d] # 0 <=> d < c /\ spanLog[d] # 0
          BY <5>3, <5>4
        <5>6. d + spans[d].npages <= c => d + spans[d].npages <= cursor'
          BY <5>2, <2>1, <2>4, <2>9
        <5>7. QED
          BY <5>1, <5>2, <5>5, <5>6
      <4>3. QED
        BY <4>1, <4>2
    <3>2. freePages \subseteq 0..(cursor' - 1)
      <4>1. freePages \subseteq 0..(c - 1)
        BY <1>4, <2>0
      <4> HIDE DEF n
      <4>2. 0..(c - 1) \subseteq 0..(cursor' - 1)
        BY <2>1, <2>4, <2>9
      <4>3. QED
        BY <4>1, <4>2
    <3>3. mode' # "types" /\ UNCHANGED <<spanLog, dSpanLog, prof, cache, freePages>>
      BY <1>1, <1>6
    <3>4. QED
      BY <3>1, <3>2, <3>3, <1>4 DEF ReconInv
  <2>17. TypeOK'
    <3>1. \A d \in Page : spans'[d] \in SpanSet /\ spans'[d].alloc \subseteq Granule
      BY <2>11 DEF SpanSet, Granule
    <3>2. cursor' \in 0..NPages
      BY <2>1, <2>4, <2>9, Consts
    <3>3. heapBits' \in [Granule -> Type \cup {None, Garbage}]
      <4>1. heapBits' = [g \in Granule |-> IF g \notin gs THEN heapBits[g]
                                           ELSE IF idx = 0 THEN AsCopied(typeLog[g]) ELSE AsDescribed(log)]
        BY <1>1, <1>6
      <4>2. \A g \in Granule : AsCopied(typeLog[g]) \in Type \cup {None, Garbage}
        BY <1>0, BitsFacts DEF TypeOK
      <4>3. idx # 0 => AsDescribed(log) \in Type \cup {None, Garbage}
        BY <2>2, <1>3, <1>6, BitsFacts
      <4>4. heapBits \in [Granule -> Type \cup {None, Garbage}]
        BY <1>0 DEF TypeOK
      <4> HIDE DEF gs, idx, log
      <4>5. QED
        BY <4>1, <4>2, <4>3, <4>4
    <3>4. UNCHANGED <<spanLog, typeLog, typeMap, dSpanLog, dTypeLog, dTypeMap, freePages, zeroedBase, cache,
                      freeing, job, typAssigns, numAssigned, prof, live, dirty, written, lost, crashes>>
      BY <1>1
    <3>5. QED
      BY <3>1, <3>2, <3>3, <3>4, <1>0, <1>6 DEF TypeOK
  <2>18. QED
    BY <2>12, <2>13, <2>15, <2>16, <2>17 DEF IInv
<1>7. QED
  BY <1>3, <1>5, <1>6

------------------------------------------------------------------------------
(* The theorems.                                                           *)

\* The invariant holds in a new arena.
LEMMA InitInv ==
  ASSUME Init
  PROVE  IInv
<1>1. NoSpan \in SpanSet /\ NoSpan.alloc = {}
  BY Consts DEF NoSpan, SpanSet, MaxSmallSpanclass, NumSizeClasses, Bit
<1>2. NoLog \in LogSet
  BY DEF NoLog, LogSet
<1>3. \A b \in Page : spans[b] = NoSpan /\ Taken(b) = 0 /\ spanLog[b] = 0 /\ dSpanLog[b] = 0
  BY DEF Init, Taken
<1>4. TypeOK
  <2>1. spanLog \in [Page -> Nat] /\ dSpanLog \in [Page -> Nat]
    BY DEF Init
  <2>2. typeLog \in [Granule -> LogSet] /\ dTypeLog \in [Granule -> LogSet]
    BY <1>2 DEF Init
  <2>3. numAssigned \in 1..(MaxCacheTypes - 1) /\ cursor \in 0..NPages /\ zeroedBase \in 0..NPages
        /\ crashes \in 0..MaxCrashes
    BY Consts DEF Init
  <2>4. \A q \in P : job[q].pc \in {"idle", "bits", "meta", "persist", "fence", "return"}
    BY DEF Init, Idle
  <2>5. \A b \in Page : spans[b].alloc \subseteq Granule /\ spans[b] \in SpanSet
    BY <1>1, <1>3
  <2>6. /\ typeMap \in [2..(MaxCacheTypes - 1) -> Type \cup {None}]
        /\ dTypeMap \in [2..(MaxCacheTypes - 1) -> Type \cup {None}]
        /\ cache \in [P -> SUBSET Page] /\ heapBits \in [Granule -> Type \cup {None, Garbage}]
        /\ typAssigns \in [Type -> {0} \cup Index]
    BY DEF Init
  <2>7. /\ mode \in {"types", "recon", "run", "panic"} /\ freePages \subseteq Page
        /\ freeing = <<>> /\ prof = <<>> /\ live = {} /\ dirty = {} /\ written = {} /\ lost = {}
    BY DEF Init
  <2>8. QED
    BY <2>1, <2>2, <2>3, <2>4, <2>5, <2>6, <2>7 DEF TypeOK
<1>5. SpanInv
  BY <1>1, <1>3 DEF Init, SpanInv, JobSet
<1>6. ApartInv
  BY <1>3 DEF Init, ApartInv
<1>7. JobInv
  BY DEF Init, JobInv
<1>8. RunInv /\ ReconInv
  BY <1>3 DEF Init, RunInv, ReconInv
<1>9. ZeroInv
  BY <1>3 DEF Init, ZeroInv
<1>10. QED
  BY <1>4, <1>5, <1>6, <1>7, <1>8, <1>9 DEF IInv

\* Every step keeps the invariant.
LEMMA NextInv ==
  ASSUME IInv, [Next]_vars
  PROVE  IInv'
<1>1. ASSUME NEW p \in P, Malloc(p)
      PROVE  IInv'
  BY <1>1, AllocSteps, JobSteps DEF Malloc
<1>2. CASE Collect
  BY <1>2, OtherSteps, SweepStep, SweepFreeStep, FreePersistStep DEF Collect
<1>3. CASE Profile
  BY <1>3, OtherSteps DEF Profile
<1>4. CASE Evict
  BY <1>4, OtherSteps DEF Evict
<1>5. CASE Crash
  BY <1>5, CrashStep
<1>6. CASE Recover
  BY <1>6, RestoreStep, ReconFreeStep, ReconSpanStep, ReconEndStep DEF Recover
<1>7. CASE UNCHANGED vars
  BY <1>7, OtherSteps
<1>8. QED
  BY <1>1, <1>2, <1>3, <1>4, <1>5, <1>6, <1>7 DEF Next

\* The invariant holds in every reachable state, whatever mallocgc, the sweeper, the
\* profiler, early write-backs and power failures do.
THEOREM SpanTableInvariant == Spec => []IInv
<1>1. Init => IInv
  BY InitInv
<1>2. IInv /\ [Next]_vars => IInv'
  BY NextInv
<1>3. QED
  BY <1>1, <1>2, PTL DEF Spec

\* Every table, span and job stays in its range, also the spans that createSpan makes
\* of logged entries; i of reconstruct ends at the last page of the arena.
THEOREM TypeCorrect == Spec => []TypeOK
<1>1. IInv => TypeOK
  BY DEF IInv
<1>2. QED
  BY <1>1, SpanTableInvariant, PTL

\* The span table that a power failure leaves always describes disjoint spans inside the
\* arena, although logSpanAlloc and logSpanFree write single entries and the cache may
\* write back any of them at any time.
THEOREM NoOverlapAlways == Spec => []NoOverlap
<1>1. IInv => NoOverlap
  BY InvNoOverlap
<1>2. QED
  BY <1>1, SpanTableInvariant, PTL

\* Until the first restart, needzero and zeroedBase between them remember every use of
\* memory: what mallocgc is about to return is all zeros.
THEOREM ZeroBeforeRestartAlways == Spec => []ZeroBeforeRestart
<1>1. IInv => ZeroBeforeRestart
  BY SlotIs DEF IInv, ZeroInv, ZeroBeforeRestart, ZeroValue
<1>2. QED
  BY <1>1, SpanTableInvariant, PTL

------------------------------------------------------------------------------
(* Reachable objects survive.                                              *)

\* The type of an index: by the durable type map until the types are restored, by typAssigns
\* from then on.
Owns(t, i) == IF i = 1 THEN t \in Slice
              ELSE t \notin Slice /\ IF mode = "types" THEN dTypeMap[i] = t ELSE typAssigns[t] = i

\* The types that spans with a type index may hold, as pairs: any, once the index was lost.
Own == {x \in (Type \ NoScan) \X Index : x[2] \in lost \/ Owns(x[1], x[2])}

RawLog(t)    == [idx |-> Raw, bits |-> <<"raw", t>>]
OptLog(i, t) == [idx |-> i, bits |-> <<"opt", t>>]

\* The log of a span with type index i describes type t, or some type if i is one of ns.
Described(log, i, t, ns) == \E u \in Type : log = OptLog(i, u) /\ (i \in ns \/ u = t)

\* An entry of the table that describes span s.
Entry(v, s) == /\ v # 0 /\ CreateSpan(v).spanclass = s.spanclass
               /\ CreateSpan(v).opt = 1 <=> s.typIndex # 0

\* The logs l and d of the type of span s, one durable, describe a type that the span may hold.
TypeLogged(s, l, d, own, ns) ==
  s.typIndex # 0 => \E t \in Type : /\ <<t, s.typIndex>> \in own /\ SpanClassOf(t) = s.spanclass
                                    /\ Described(l, s.typIndex, t, ns) /\ Described(d, s.typIndex, t, ns)

\* What is logged of the span at b is durable: its entry and its type, if it has one.
Ready(b) == /\ Entry(spanLog[b], spans[b]) /\ Entry(dSpanLog[b], spans[b])
            /\ TypeLogged(spans[b], typeLog[b * G], dTypeLog[b * G], Own, lost)

\* Object o is slot k, of e granules, of the span with type index i that entry v describes.
EntryOk(v, o, b, k, e, i) == /\ v # 0 /\ CreateSpan(v).spanclass = SpanClassOf(o.typ)
                             /\ CreateSpan(v).opt = 1 <=> i # 0
                             /\ e = ElemSize(CreateSpan(v)) /\ k \in Slots(CreateSpan(v))
                             /\ o.at = b * G + k * e

\* The log tl holds the type of the object.
BitsOk(tl, o, b, k, e, i, ns) == o.typ \notin NoScan =>
                                   IF i # 0 THEN Described(tl[b * G], i, o.typ, ns)
                                   ELSE \A g \in Cells(b, e, k) : tl[g] = RawLog(o.typ)

\* The slot is in use, and has the type bits of the object.
MemOk(o, b, k, e, i) == /\ spans[b] # NoSpan /\ k \in spans[b].alloc /\ spans[b].typIndex = i
                        /\ spans[b].spanclass = SpanClassOf(o.typ)
                        /\ o.typ \notin NoScan /\ i \notin lost => \A g \in Cells(b, e, k) : heapBits[g] = o.typ

Kept(o, b, k, e, i) == /\ EntryOk(spanLog[b], o, b, k, e, i) /\ EntryOk(dSpanLog[b], o, b, k, e, i)
                       /\ BitsOk(typeLog, o, b, k, e, i, lost) /\ BitsOk(dTypeLog, o, b, k, e, i, lost)
                       /\ i = 0 \/ <<o.typ, i>> \in Own
                       /\ mode = "run" \/ b < cursor => MemOk(o, b, k, e, i)

\* Every reachable object is kept in a slot of its own.
LiveInv == /\ \A o \in live : \E b \in Page : \E k, e \in Nat : \E i \in 0..(MaxCacheTypes - 1) : Kept(o, b, k, e, i)
           /\ \A o1, o2 \in live : o1.at = o2.at => o1 = o2
           /\ \A p \in P, o \in live : job[p] # Idle => o.at # SlotBase(job[p].base, job[p].slot)

\* The spans that mallocgc takes slots of without logging them again are ready.
CacheInv == \A p \in P : \A b \in cache[p] : /\ spans[b] # NoSpan
                                             /\ job[p] = Idle \/ job[p].base # b => Ready(b)

\* The granules of the object that p allocates.
JobCells(p) == Cells(job[p].base, ElemSize(spans[job[p].base]), job[p].slot)

\* What is written of an object before it is returned.
LogOk(p) == LET b == job[p].base
                t == job[p].typ
                s == spans[b]
            IN  /\ s.spanclass = SpanClassOf(t)
                /\ s.typIndex # 0 => <<t, s.typIndex>> \in Own
                /\ IF job[p].new THEN Entry(spanLog[b], s) ELSE Ready(b)
                /\ job[p].pc \in {"fence", "return"} <=> t \in NoScan
                /\ job[p].pc = "return" => ~job[p].new
                /\ job[p].pc \in {"meta", "persist"} => \A g \in JobCells(p) : heapBits[g] = t
                /\ job[p].pc = "meta" => s.typIndex # 0 /\ typeLog[b * G].idx = s.typIndex
                /\ job[p].pc = "persist" => IF s.typIndex # 0 THEN Described(typeLog[b * G], s.typIndex, t, lost)
                                            ELSE \A g \in JobCells(p) : typeLog[g] = RawLog(t)

LogInv == \A p \in P : job[p] # Idle => LogOk(p)

\* Every promoted type has an index of its own among those given out, and the type map and what
\* is durable of it agree with typAssigns.
Assigned == /\ \A t \in Type : typAssigns[t] # 0 => typAssigns[t] \in 2..numAssigned
            /\ \A t, u \in Type : typAssigns[t] = typAssigns[u] /\ typAssigns[t] # 0 => t = u
            /\ \A n \in 2..(MaxCacheTypes - 1) : typeMap[n] # None => typAssigns[typeMap[n]] = n
            /\ \A n \in 2..(MaxCacheTypes - 1) : dTypeMap[n] # None => typeMap[n] # None /\ typAssigns[dTypeMap[n]] = n

\* Only the index that typeProfileThread is giving out has no durable entry.
Persisted == \A n \in 2..numAssigned : dTypeMap[n] # None \/ (prof # <<>> /\ n = numAssigned)

\* What a restart finds in the type map is a row of different types.
Row == /\ \A n \in 2..(MaxCacheTypes - 1) : dTypeMap[n] # None => \A m \in 2..n : dTypeMap[m] # None
       /\ \A n, m \in 2..(MaxCacheTypes - 1) : dTypeMap[n] # None /\ dTypeMap[n] = dTypeMap[m] => n = m

\* The indices and the type map; outside of the run nothing is written.
MapInv == /\ prof # <<>> => typAssigns[prof[2]] = numAssigned
          /\ prof # <<>> /\ prof[1] = "persist" => typeMap[numAssigned] # None
          /\ mode # "run" => typeLog = dTypeLog /\ typeMap = dTypeMap /\ prof = <<>>
          /\ mode # "types" => Assigned /\ Persisted
          /\ mode = "types" => Row /\ numAssigned = 1

LInv == LiveInv /\ CacheInv /\ LogInv /\ MapInv

\* The types of the indices change only with these variables, after the types are restored
\* only with typAssigns.
LEMMA OwnSame ==
  ASSUME UNCHANGED <<typAssigns, lost>>,
         UNCHANGED <<mode, dTypeMap>> \/ (mode # "types" /\ mode' # "types")
  PROVE  Own' = Own
<1>1. \A t, i : Owns(t, i)' <=> Owns(t, i)
  BY DEF Owns
<1>2. QED
  BY <1>1 DEF Own

\* An index that was not lost has one type in every class.
LEMMA OwnOne ==
  ASSUME MapInv, NEW i, NEW t, NEW u, <<t, i>> \in Own, <<u, i>> \in Own, i \notin lost,
         SpanClassOf(t) = SpanClassOf(u)
  PROVE  t = u
<1>1. /\ t \in Type /\ u \in Type /\ t \notin NoScan /\ u \notin NoScan /\ i \in Index
      /\ Owns(t, i) /\ Owns(u, i)
  BY DEF Own
<1>2. CASE i = 1
  <2>1. t \in Slice /\ u \in Slice
    BY <1>1, <1>2 DEF Owns
  <2>2. SizeClassOf[t] \in 0..66 /\ SizeClassOf[u] \in 0..66 /\ NoScanBit(t) = 0 /\ NoScanBit(u) = 0
    BY <1>1, TypeAssumption DEF NumSizeClasses, NoScanBit
  <2>3. SpanClassOf(t) = SizeClassOf[t] * 2 /\ SpanClassOf(u) = SizeClassOf[u] * 2
    BY <2>2 DEF SpanClassOf, MakeSpanClass
  <2>4. SizeClassOf[t] = SizeClassOf[u]
    <3>1. PICK x \in 0..66 : x = SizeClassOf[t]
      BY <2>2
    <3>2. PICK y \in 0..66 : y = SizeClassOf[u]
      BY <2>2
    <3>3. x * 2 = y * 2
      BY <2>3, <3>1, <3>2
    <3>4. x = y
      BY <3>3
    <3>5. QED
      BY <3>1, <3>2, <3>4
  <2>5. QED
    BY <1>1, <2>1, <2>4, TypeAssumption
<1>3. CASE i # 1 /\ mode = "types"
  BY <1>1, <1>3 DEF Owns
<1>4. CASE i # 1 /\ mode # "types"
  <2>1. typAssigns[t] = i /\ typAssigns[u] = i
    BY <1>1, <1>4 DEF Owns
  <2>2. i # 0
    BY <1>1 DEF Index
  <2>3. QED
    BY <1>1, <1>4, <2>1, <2>2 DEF MapInv, Assigned
<1>5. QED
  BY <1>2, <1>3, <1>4

\* Entries for the same class and number of pages have the same slots.
LEMMA SameSlots ==
  ASSUME NEW r, NEW s, r.spanclass = s.spanclass, r.npages = s.npages
  PROVE  ElemSize(r) = ElemSize(s) /\ Slots(r) = Slots(s)
<1>1. ElemSize(r) = ElemSize(s)
  BY DEF ElemSize
<1>2. QED
  BY <1>1 DEF Slots

\* Where a span has been made, the entries of the table have its pages.
LEMMA EntryPages ==
  ASSUME IInv, NEW b \in Page, spans[b] # NoSpan, mode = "run" \/ b < cursor
  PROVE  /\ spanLog[b] # 0 => CreateSpan(spanLog[b]).npages = spans[b].npages
         /\ dSpanLog[b] # 0 => CreateSpan(dSpanLog[b]).npages = spans[b].npages
<1>1. CASE mode = "run"
  <2>1. Taken(b) = spans[b].npages
    BY DEF Taken
  <2>2. QED
    BY <1>1, <2>1 DEF IInv, RunInv
<1>2. CASE mode # "run" /\ b < cursor
  BY <1>2 DEF IInv, ReconInv
<1>3. QED
  BY <1>1, <1>2

\* Where an object is kept.
LEMMA KeptFacts ==
  ASSUME IInv, NEW o, NEW b \in Page, NEW k, NEW e, NEW i, Kept(o, b, k, e, i), mode = "run" \/ b < cursor
  PROVE  /\ MemOk(o, b, k, e, i)
         /\ spans[b] # NoSpan /\ k \in spans[b].alloc /\ k \in Slots(spans[b]) /\ e = ElemSize(spans[b])
         /\ o.at = b * G + k * ElemSize(spans[b]) /\ o.at = SlotBase(b, k)
         /\ GoodSpan(spans[b], b) /\ spans[b] \in SpanSet
         /\ Entry(spanLog[b], spans[b]) /\ Entry(dSpanLog[b], spans[b])
<1>1. /\ spans[b] # NoSpan /\ k \in spans[b].alloc /\ spans[b].typIndex = i
      /\ spans[b].spanclass = SpanClassOf(o.typ) /\ MemOk(o, b, k, e, i)
  BY DEF Kept, MemOk
<1>2. EntryOk(spanLog[b], o, b, k, e, i) /\ EntryOk(dSpanLog[b], o, b, k, e, i)
  BY DEF Kept
<1>3. CreateSpan(spanLog[b]).npages = spans[b].npages /\ CreateSpan(spanLog[b]).spanclass = spans[b].spanclass
  BY <1>1, <1>2, EntryPages DEF EntryOk
<1>4. ElemSize(CreateSpan(spanLog[b])) = ElemSize(spans[b]) /\ Slots(CreateSpan(spanLog[b])) = Slots(spans[b])
  BY <1>3, SameSlots
<1>5. e = ElemSize(spans[b]) /\ k \in Slots(spans[b]) /\ o.at = b * G + k * e
  BY <1>2, <1>4 DEF EntryOk
<1>6. GoodSpan(spans[b], b) /\ spans[b] \in SpanSet
  BY <1>1 DEF IInv, SpanInv
<1>7. Entry(spanLog[b], spans[b]) /\ Entry(dSpanLog[b], spans[b])
  BY <1>1, <1>2 DEF Entry, EntryOk
<1>8. QED
  BY <1>1, <1>5, <1>6, <1>7, SlotIs

\* An object that is kept shares no granule with a slot that is being allocated.
LEMMA KeptApart ==
  ASSUME IInv, LInv, NEW o \in live, NEW b \in Page, NEW k, NEW e, NEW i, Kept(o, b, k, e, i), mode = "run",
         NEW p \in P, job[p] # Idle
  PROVE  /\ b # job[p].base \/ k # job[p].slot
         /\ Cells(b, e, k) \cap Cells(job[p].base, ElemSize(spans[job[p].base]), job[p].slot) = {}
<1>1. /\ spans[b] # NoSpan /\ k \in Slots(spans[b]) /\ e = ElemSize(spans[b]) /\ o.at = SlotBase(b, k)
  BY KeptFacts
<1>2. o.at # SlotBase(job[p].base, job[p].slot)
  BY DEF LInv, LiveInv
<1>3. b # job[p].base \/ k # job[p].slot
  BY <1>1, <1>2
<1>4. job[p].base \in Page /\ spans[job[p].base] # NoSpan /\ job[p].slot \in Slots(spans[job[p].base])
  BY JobFacts
<1>5. QED
  BY <1>1, <1>3, <1>4, CellsApart

\* The cells of a slot of a span lie in the arena.
LEMMA CellsInside ==
  ASSUME NEW b \in Page, NEW s, GoodSpan(s, b), NEW k \in Slots(s)
  PROVE  Cells(b, ElemSize(s), k) \subseteq Granule
BY SlotInside

\* The cells of a kept object lie in the arena, in every mode.
LEMMA KeptInside ==
  ASSUME IInv, NEW o, NEW b \in Page, NEW k \in Nat, NEW e \in Nat, NEW i, Kept(o, b, k, e, i)
  PROVE  Cells(b, e, k) \subseteq Granule
<1> DEFINE v == spanLog[b]
           s == CreateSpan(v)
           r == [spanclass |-> s.spanclass, npages |-> s.npages, typIndex |-> 0, needzero |-> s.needzero,
                 alloc |-> {}]
<1>1. v # 0 /\ e = ElemSize(s) /\ k \in Slots(s)
  BY DEF Kept, EntryOk
<1>2. Valid(v) /\ b + s.npages <= NPages
  <2>1. CASE mode = "run"
    <3>1. Valid(v) /\ b \in InUse /\ s.npages = spans[b].npages
      BY <1>1, <2>1 DEF IInv, RunInv
    <3>2. b + spans[b].npages <= NPages
      BY <3>1, TakenFacts DEF InUse
    <3>3. QED
      BY <3>1, <3>2
  <2>2. CASE mode # "run"
    BY <1>1, <2>2 DEF IInv, ReconInv
  <2>3. QED
    BY <2>1, <2>2
<1>3. r \in SpanSet /\ Desc(r) \in Span /\ r.npages = s.npages /\ r.alloc = {} /\ r.spanclass = s.spanclass
  <2> DEFINE j == 0
             A == {}
  <2>1. j \in 0..(MaxCacheTypes - 1) /\ A \in SUBSET (0..(NPages * G - 1))
    BY Consts
  <2>2. r = [spanclass |-> CreateSpan(v).spanclass, npages |-> CreateSpan(v).npages, typIndex |-> j,
             needzero |-> CreateSpan(v).needzero, alloc |-> A] /\ j = 0
    OBVIOUS
  <2>3. r.spanclass = s.spanclass
    OBVIOUS
  <2> HIDE DEF r, j, A, v
  <2>4. r \in SpanSet /\ Desc(r) \in Span /\ r.npages = CreateSpan(v).npages /\ r.alloc = A
    BY <2>1, <2>2, <1>2, Created
  <2>5. QED
    BY <2>3, <2>4 DEF A
<1> HIDE DEF r, v
<1>4. GoodSpan(r, b)
  BY <1>2, <1>3 DEF GoodSpan
<1>5. ElemSize(r) = ElemSize(s) /\ Slots(r) = Slots(s)
  BY <1>3, SameSlots
<1>6. QED
  BY <1>1, <1>4, <1>5, CellsInside

\* Steps that write back words and leave the rest of a run alone, or go through the pages
\* of the arena that have no entry.
LEMMA KeepStep ==
  ASSUME IInv, LInv, MapInv',
         UNCHANGED <<spanLog, typeLog, spans, job, heapBits, lost>>, Own \subseteq Own',
         dSpanLog' \in [Page -> Nat], dTypeLog' \in [Granule -> LogSet],
         \A c \in Page : dSpanLog'[c] = dSpanLog[c] \/ dSpanLog'[c] = spanLog[c],
         \A g \in Granule : dTypeLog'[g] = dTypeLog[g] \/ dTypeLog'[g] = typeLog[g],
         live' \subseteq live, \A p \in P : cache'[p] \subseteq cache[p],
         \A c \in Page : spanLog[c] # 0 /\ (mode' = "run" \/ c < cursor') => mode = "run" \/ c < cursor
  PROVE  LInv'
<1>1. ASSUME NEW o, NEW b \in Page, NEW k \in Nat, NEW e \in Nat, NEW i, Kept(o, b, k, e, i)
      PROVE  Kept(o, b, k, e, i)'
  <2>1. EntryOk(spanLog[b], o, b, k, e, i) /\ EntryOk(dSpanLog[b], o, b, k, e, i)
    BY <1>1 DEF Kept
  <2>2. EntryOk(dSpanLog'[b], o, b, k, e, i)
    BY <2>1
  <2>3. BitsOk(typeLog, o, b, k, e, i, lost) /\ BitsOk(dTypeLog, o, b, k, e, i, lost)
    BY <1>1 DEF Kept
  <2>4. BitsOk(dTypeLog', o, b, k, e, i, lost)
    <3>1. Cells(b, e, k) \subseteq Granule /\ b * G \in Granule
      BY <1>1, KeptInside, FirstGranule
    <3>2. QED
      BY <2>3, <3>1 DEF BitsOk
  <2>5. mode' = "run" \/ b < cursor' => MemOk(o, b, k, e, i)
    BY <1>1, <2>1 DEF Kept, EntryOk
  <2>6. MemOk(o, b, k, e, i)' <=> MemOk(o, b, k, e, i)
    BY DEF MemOk
  <2>7. i = 0 \/ <<o.typ, i>> \in Own'
    BY <1>1 DEF Kept
  <2>8. QED
    BY <2>1, <2>2, <2>3, <2>4, <2>5, <2>6, <2>7 DEF Kept
<1>2. LiveInv'
  <2>1. \A o \in live' : \E b \in Page : \E k, e \in Nat : \E i \in 0..(MaxCacheTypes - 1) : Kept(o, b, k, e, i)'
    <3>1. ASSUME NEW o \in live'
          PROVE  \E b \in Page : \E k, e \in Nat : \E i \in 0..(MaxCacheTypes - 1) : Kept(o, b, k, e, i)'
      <4>1. PICK b \in Page : \E k, e \in Nat : \E i \in 0..(MaxCacheTypes - 1) : Kept(o, b, k, e, i)
        BY <3>1 DEF LInv, LiveInv
      <4>2. PICK k \in Nat, e \in Nat : \E i \in 0..(MaxCacheTypes - 1) : Kept(o, b, k, e, i)
        BY <4>1
      <4>3. PICK i \in 0..(MaxCacheTypes - 1) : Kept(o, b, k, e, i)
        BY <4>2
      <4>4. Kept(o, b, k, e, i)'
        BY <4>3, <1>1
      <4>5. QED
        BY <4>4
    <3>2. QED
      BY <3>1
  <2>2. \A p \in P, o \in live' : job'[p] # Idle => o.at # SlotBase(job[p].base, job[p].slot)'
    BY DEF LInv, LiveInv, SlotBase
  <2>3. \A o1, o2 \in live' : o1.at = o2.at => o1 = o2
    BY DEF LInv, LiveInv
  <2>4. QED
    BY <2>1, <2>2, <2>3 DEF LiveInv
<1>3. ASSUME NEW b \in Page, Ready(b)
      PROVE  Ready(b)'
  <2>1. Entry(spanLog[b], spans[b]) /\ Entry(dSpanLog'[b], spans[b])
    BY <1>3 DEF Ready
  <2>2. TypeLogged(spans[b], typeLog[b * G], dTypeLog'[b * G], Own', lost)
    <3>1. TypeLogged(spans[b], typeLog[b * G], dTypeLog[b * G], Own, lost)
      BY <1>3 DEF Ready
    <3>2. dTypeLog'[b * G] = dTypeLog[b * G] \/ dTypeLog'[b * G] = typeLog[b * G]
      BY FirstGranule
    <3>3. QED
      BY <3>1, <3>2 DEF TypeLogged
  <2>3. QED
    BY <2>1, <2>2 DEF Ready
<1>4. CacheInv'
  <2>1. cache \in [P -> SUBSET Page]
    BY DEF IInv, TypeOK
  <2>2. ASSUME NEW p \in P, NEW b \in cache'[p]
        PROVE  spans'[b] # NoSpan /\ (job'[p] = Idle \/ job'[p].base # b => Ready(b)')
    <3>1. b \in cache[p] /\ b \in Page
      BY <2>1, <2>2
    <3>2. spans[b] # NoSpan /\ (job[p] = Idle \/ job[p].base # b => Ready(b))
      BY <3>1 DEF LInv, CacheInv
    <3>3. QED
      BY <3>1, <3>2, <1>3
  <2>3. QED
    BY <2>2 DEF CacheInv
<1>5. LogInv'
  <2>1. ASSUME NEW p \in P, job[p] # Idle, ~job[p].new
        PROVE  Ready(job[p].base)'
    <3>1. Ready(job[p].base)
      BY <2>1 DEF LInv, LogInv, LogOk, JobCells
    <3>2. PICK b \in Page : b = job[p].base
      BY <2>1, JobFacts
    <3>3. Ready(b)'
      BY <3>1, <3>2, <1>3
    <3>4. Ready(job[p].base)' <=> Ready(b)'
      BY <3>2 DEF Ready
    <3>5. QED
      BY <3>3, <3>4
  <2>2. QED
    BY <2>1 DEF LInv, LogInv, LogOk, JobCells
<1>6. QED
  BY <1>2, <1>4, <1>5 DEF LInv

\* What the steps need of the types.
LEMMA TypesOf ==
  ASSUME IInv, IInv'
  PROVE  /\ TypeOK /\ dSpanLog' \in [Page -> Nat] /\ dTypeLog' \in [Granule -> LogSet]
         /\ cache \in [P -> SUBSET Page]
         /\ dSpanLog \in [Page -> Nat] /\ dTypeLog \in [Granule -> LogSet]
<1>1. TypeOK /\ TypeOK'
  BY DEF IInv
<1>2. dSpanLog \in [Page -> Nat] /\ dTypeLog \in [Granule -> LogSet] /\ cache \in [P -> SUBSET Page]
  BY <1>1 DEF TypeOK
<1>3. dSpanLog' \in [Page -> Nat] /\ dTypeLog' \in [Granule -> LogSet]
  BY <1>1 DEF TypeOK
<1>4. QED
  BY <1>1, <1>2, <1>3

\* The steps that leave the indices and the type map alone.
LEMMA MapSame ==
  ASSUME MapInv, UNCHANGED <<typeMap, dTypeMap, typAssigns, numAssigned, prof, lost, mode>>,
         mode # "run" => UNCHANGED <<typeLog, dTypeLog>>
  PROVE  MapInv' /\ Own' = Own
<1>1. Own' = Own
  BY OwnSame
<1>2. (Assigned' <=> Assigned) /\ (Persisted' <=> Persisted) /\ (Row' <=> Row)
  BY DEF Assigned, Persisted, Row
<1>3. MapInv'
  BY <1>2 DEF MapInv
<1>4. QED
  BY <1>1, <1>3

\* typeProfileThread gives out an index, stores it in the type map and makes it durable.
LEMMA ProfileMap ==
  ASSUME TypeOK, TypeOK', MapInv, (\E t \in Type : PromoteAssign(t)) \/ PromoteStore \/ PromotePersist,
         mode = "run"
  PROVE  MapInv' /\ Own \subseteq Own'
<1>1. /\ Assigned /\ Persisted /\ typAssigns \in [Type -> {0} \cup Index]
      /\ numAssigned \in 1..(MaxCacheTypes - 1) /\ numAssigned' \in 1..(MaxCacheTypes - 1)
      /\ typeMap \in [2..(MaxCacheTypes - 1) -> Type \cup {None}]
      /\ dTypeMap \in [2..(MaxCacheTypes - 1) -> Type \cup {None}]
      /\ prof \in {<<>>} \cup ({"store", "persist"} \X Type)
      /\ MaxCacheTypes \in Nat /\ None \notin Type
  BY Consts, TypeAssumption DEF MapInv, TypeOK
<1>2. /\ \A u \in Type : typAssigns[u] # 0 => typAssigns[u] \in 2..numAssigned
      /\ \A u, v \in Type : typAssigns[u] = typAssigns[v] /\ typAssigns[u] # 0 => u = v
      /\ \A n \in 2..(MaxCacheTypes - 1) : typeMap[n] # None => typAssigns[typeMap[n]] = n
      /\ \A n \in 2..(MaxCacheTypes - 1) : dTypeMap[n] # None => typeMap[n] # None /\ typAssigns[dTypeMap[n]] = n
      /\ \A n \in 2..numAssigned : dTypeMap[n] # None \/ (prof # <<>> /\ n = numAssigned)
  BY <1>1 DEF Assigned, Persisted
<1>3. ASSUME NEW t \in Type, PromoteAssign(t)
      PROVE  MapInv' /\ Own \subseteq Own'
  <2> DEFINE m == numAssigned + 1
  <2>1. /\ prof = <<>> /\ typAssigns[t] = 0 /\ numAssigned' = m /\ prof' = <<"store", t>>
        /\ typAssigns' = [typAssigns EXCEPT ![t] = m]
        /\ UNCHANGED <<typeMap, dTypeMap, lost, mode, typeLog, dTypeLog>>
    BY <1>3 DEF PromoteAssign, persistent, durable, recovery
  <2>2. m \in 2..(MaxCacheTypes - 1)
    BY <1>1, <2>1
  <2> HIDE DEF m
  <2>3. typAssigns'[t] = m /\ \A u \in Type : u # t => typAssigns'[u] = typAssigns[u]
    BY <2>1, <1>1
  <2>4. \A u \in Type : typAssigns'[u] # 0 => typAssigns'[u] \in 2..m
    <3>1. ASSUME NEW u \in Type, typAssigns'[u] # 0
          PROVE  typAssigns'[u] \in 2..m
      <4>1. CASE u = t
        BY <4>1, <2>2, <2>3
      <4>2. CASE u # t
        <5>1. typAssigns[u] \in 2..numAssigned
          BY <4>2, <3>1, <2>3, <1>2
        <5>2. QED
          BY <5>1, <4>2, <2>3, <1>1 DEF m
      <4>3. QED
        BY <4>1, <4>2
    <3>2. QED
      BY <3>1
  <2>5. \A u \in Type : typAssigns[u] # m
    BY <1>1, <1>2, <2>2 DEF m
  <2>6. \A u, v \in Type : typAssigns'[u] = typAssigns'[v] /\ typAssigns'[u] # 0 => u = v
    BY <1>2, <2>3, <2>5
  <2>7. \A u \in Type : typAssigns[u] # 0 => typAssigns'[u] = typAssigns[u]
    BY <2>1, <2>3
  <2>8. \A n \in 2..(MaxCacheTypes - 1) : typeMap[n] # None => typAssigns'[typeMap[n]] = n
    <3>1. ASSUME NEW n \in 2..(MaxCacheTypes - 1), typeMap[n] # None
          PROVE  typAssigns'[typeMap[n]] = n
      <4>1. PICK u \in Type : u = typeMap[n]
        BY <3>1, <1>1
      <4>2. typAssigns[u] = n /\ n # 0
        BY <3>1, <4>1, <1>2
      <4>3. QED
        BY <4>1, <4>2, <2>7
    <3>2. QED
      BY <3>1
  <2>9. \A n \in 2..(MaxCacheTypes - 1) : dTypeMap[n] # None => typeMap[n] # None /\ typAssigns'[dTypeMap[n]] = n
    <3>1. ASSUME NEW n \in 2..(MaxCacheTypes - 1), dTypeMap[n] # None
          PROVE  typeMap[n] # None /\ typAssigns'[dTypeMap[n]] = n
      <4>1. PICK u \in Type : u = dTypeMap[n]
        BY <3>1, <1>1
      <4>2. typAssigns[u] = n /\ n # 0 /\ typeMap[n] # None
        BY <3>1, <4>1, <1>2
      <4>3. QED
        BY <4>1, <4>2, <2>7
    <3>2. QED
      BY <3>1
  <2>10. Assigned'
    BY <2>1, <2>4, <2>6, <2>8, <2>9 DEF Assigned
  <2>11. Persisted'
    <3>1. ASSUME NEW n \in 2..m
          PROVE  dTypeMap[n] # None \/ n = m
      <4>1. n \in 2..numAssigned \/ n = m
        BY <1>1 DEF m
      <4>2. QED
        BY <4>1, <2>1, <1>2
    <3>2. QED
      BY <3>1, <2>1 DEF Persisted
  <2>12. MapInv'
    <3>1. prof'[2] = t /\ prof'[1] = "store" /\ mode' = "run"
      BY <2>1
    <3>2. QED
      BY <2>1, <2>3, <2>10, <2>11, <3>1 DEF MapInv
  <2>13. Own \subseteq Own'
    <3>1. ASSUME NEW u \in Type, NEW i \in Index, Owns(u, i)
          PROVE  Owns(u, i)'
      <4>1. i # 0
        BY DEF Index
      <4>2. QED
        BY <3>1, <4>1, <2>1, <2>7 DEF Owns
    <3>2. QED
      BY <3>1, <2>1 DEF Own
  <2>14. QED
    BY <2>12, <2>13
<1>4. ASSUME PromoteStore
      PROVE  MapInv' /\ Own \subseteq Own'
  <2>1. PICK u : u = prof[2]
    OBVIOUS
  <2>2. /\ prof # <<>> /\ prof[1] = "store" /\ prof' = <<"persist", u>>
        /\ typeMap' = [typeMap EXCEPT ![numAssigned] = u]
        /\ UNCHANGED <<dTypeMap, typAssigns, numAssigned, lost, mode, typeLog, dTypeLog>>
    BY <1>4, <2>1 DEF PromoteStore, durable, recovery
  <2>3. u \in Type /\ typAssigns[u] = numAssigned
    BY <2>1, <2>2, <1>1 DEF MapInv
  <2>4. numAssigned \in 2..(MaxCacheTypes - 1)
    BY <2>3, <1>1, <1>2
  <2>5. typeMap'[numAssigned] = u /\ \A n \in 2..(MaxCacheTypes - 1) : n # numAssigned => typeMap'[n] = typeMap[n]
    BY <2>2, <2>4, <1>1
  <2>6. u # None
    BY <2>3, <1>1
  <2>7. \A n \in 2..(MaxCacheTypes - 1) : typeMap'[n] # None => typAssigns[typeMap'[n]] = n
    BY <2>3, <2>5, <1>2
  <2>8. \A n \in 2..(MaxCacheTypes - 1) : dTypeMap[n] # None => typeMap'[n] # None /\ typAssigns[dTypeMap[n]] = n
    BY <2>5, <2>6, <1>2
  <2>9. Assigned'
    BY <2>2, <2>7, <2>8, <1>2 DEF Assigned
  <2>10. Persisted'
    BY <2>2, <1>2 DEF Persisted
  <2>11. MapInv'
    <3>1. prof'[2] = u /\ mode' = "run"
      BY <2>2
    <3>2. QED
      BY <2>2, <2>3, <2>5, <2>6, <2>9, <2>10, <3>1 DEF MapInv
  <2>12. QED
    BY <2>2, <2>11, OwnSame
<1>5. ASSUME PromotePersist
      PROVE  MapInv' /\ Own \subseteq Own'
  <2>1. /\ prof # <<>> /\ prof[1] = "persist" /\ prof' = <<>>
        /\ dTypeMap' = [dTypeMap EXCEPT ![numAssigned] = typeMap[numAssigned]]
        /\ UNCHANGED <<typeMap, typAssigns, numAssigned, lost, mode, typeLog, dTypeLog>>
    BY <1>5 DEF PromotePersist, persistent, recovery
  <2>2. prof[2] \in Type /\ typAssigns[prof[2]] = numAssigned /\ typeMap[numAssigned] # None
    BY <2>1, <1>1 DEF MapInv
  <2>3. numAssigned \in 2..(MaxCacheTypes - 1)
    BY <2>2, <1>1, <1>2
  <2>4. /\ dTypeMap'[numAssigned] = typeMap[numAssigned]
        /\ \A n \in 2..(MaxCacheTypes - 1) : n # numAssigned => dTypeMap'[n] = dTypeMap[n]
    BY <2>1, <2>3, <1>1
  <2>5. \A n \in 2..(MaxCacheTypes - 1) : dTypeMap'[n] # None => typeMap[n] # None /\ typAssigns[dTypeMap'[n]] = n
    BY <2>4, <1>2
  <2>6. Assigned'
    BY <2>1, <2>5, <1>2 DEF Assigned
  <2>7. Persisted'
    <3>1. \A n \in 2..numAssigned : n \in 2..(MaxCacheTypes - 1)
      BY <1>1
    <3>2. \A n \in 2..numAssigned : dTypeMap'[n] # None
      BY <3>1, <2>2, <2>4, <1>2
    <3>3. QED
      BY <2>1, <3>2 DEF Persisted
  <2>8. MapInv'
    <3>1. mode' = "run"
      BY <2>1
    <3>2. QED
      BY <2>1, <2>6, <2>7, <3>1 DEF MapInv
  <2>9. mode # "types" /\ mode' # "types"
    BY <2>1
  <2>10. QED
    BY <2>1, <2>8, <2>9, OwnSame
<1>6. QED
  BY <1>3, <1>4, <1>5

\* An entry of the type map is written back early.
LEMMA EvictMapMap ==
  ASSUME TypeOK, MapInv, NEW n \in 2..(MaxCacheTypes - 1), EvictMap(n)
  PROVE  MapInv' /\ Own' = Own
<1>1. /\ dTypeMap' = [dTypeMap EXCEPT ![n] = typeMap[n]] /\ typeMap[n] # dTypeMap[n]
      /\ UNCHANGED <<typeMap, typAssigns, numAssigned, prof, lost, mode, typeLog, dTypeLog>>
  BY DEF EvictMap, persistent, volatile, recovery, profile
<1>2. mode = "run" /\ mode' = "run"
  BY <1>1 DEF MapInv
<1>3. Assigned /\ Persisted /\ dTypeMap \in [2..(MaxCacheTypes - 1) -> Type \cup {None}]
  BY <1>2 DEF MapInv, TypeOK
<1>4. dTypeMap'[n] = typeMap[n] /\ \A m \in 2..(MaxCacheTypes - 1) : m # n => dTypeMap'[m] = dTypeMap[m]
  BY <1>1, <1>3
<1>5. Assigned'
  <2>1. \A m \in 2..(MaxCacheTypes - 1) : dTypeMap'[m] # None => typeMap[m] # None /\ typAssigns[dTypeMap'[m]] = m
    BY <1>3, <1>4 DEF Assigned
  <2>2. QED
    BY <2>1, <1>1, <1>3 DEF Assigned
<1>6. Persisted'
  <2>1. \A m \in 2..numAssigned : m \in 2..(MaxCacheTypes - 1)
    BY Consts DEF TypeOK
  <2>2. \A m \in 2..numAssigned : dTypeMap[m] # None => dTypeMap'[m] # None
    BY <2>1, <1>3, <1>4 DEF Assigned
  <2>3. QED
    BY <2>2, <1>1, <1>3 DEF Persisted
<1>7. MapInv'
  BY <1>1, <1>2, <1>5, <1>6 DEF MapInv
<1>8. QED
  BY <1>1, <1>2, <1>7, OwnSame

\* The types are restored: each gets the index that the type map has for it.
LEMMA RestoreMap ==
  ASSUME TypeOK, MapInv, RestoreTypes
  PROVE  MapInv' /\ Own \subseteq Own'
<1>1. /\ mode = "types" /\ mode' = "recon" /\ numAssigned' = 1 + Cardinality(Restored)
      /\ typAssigns' = [t \in Type |-> LET ns == {n \in Restored : typeMap[n] = t}
                                       IN  IF ns = {} THEN 0 ELSE Max(ns)]
      /\ UNCHANGED <<typeLog, typeMap, dTypeLog, dTypeMap, prof, lost>>
  BY DEF RestoreTypes, persistent, durable
<1>2. /\ Row /\ typeLog = dTypeLog /\ typeMap = dTypeMap /\ prof = <<>>
      /\ typeMap \in [2..(MaxCacheTypes - 1) -> Type \cup {None}] /\ MaxCacheTypes \in Nat /\ MaxCacheTypes >= 2
  BY <1>1, Consts DEF MapInv, TypeOK
<1> DEFINE N == 2..(MaxCacheTypes - 1)
           R == {n \in N : typeMap[n] # None}
<1>3. Restored = R
  <2>1. \A n \in N : n \in 2..n
    OBVIOUS
  <2>2. \A n \in N : typeMap[n] # None => \A m \in 2..n : typeMap[m] # None
    BY <1>2 DEF Row
  <2>3. \A n \in N : n \in Restored <=> n \in R
    BY <2>1, <2>2 DEF Restored
  <2>4. Restored \subseteq N
    BY DEF Restored
  <2>5. QED
    BY <2>3, <2>4
<1>4. R = 2..numAssigned' /\ numAssigned' \in Nat
  <2>1. CASE R = {}
    <3>1. numAssigned' = 1
      BY <2>1, <1>1, <1>3, FS_EmptySet
    <3>2. QED
      BY <2>1, <3>1
  <2>2. CASE R # {}
    <3>1. R \in SUBSET (0..(MaxCacheTypes - 1)) /\ MaxCacheTypes - 1 \in Nat
      BY <1>2
    <3>2. PICK m : m = Max(R)
      OBVIOUS
    <3> HIDE DEF R
    <3>3. m \in R /\ \A x \in R : m >= x
      BY <2>2, <3>1, <3>2, MaxOf
    <3>4. m \in N /\ typeMap[m] # None /\ m \in Int
      BY <3>3, <1>2 DEF R
    <3>5. \A x \in 2..m : x \in N /\ typeMap[x] # None
      BY <3>4, <1>2 DEF Row
    <3>6. R = 2..m
      <4>1. \A x \in R : x \in N /\ m >= x
        BY <3>3 DEF R
      <4>2. R \subseteq 2..m
        BY <4>1, <3>4
      <4>3. 2..m \subseteq R
        BY <3>5 DEF R
      <4>4. QED
        BY <4>2, <4>3
    <3>7. PICK x \in Int : x = 2
      OBVIOUS
    <3>8. Cardinality(x..m) = IF x > m THEN 0 ELSE m - x + 1
      BY <3>4, FS_Interval
    <3>9. Cardinality(R) = m - 1
      BY <3>4, <3>6, <3>7, <3>8
    <3>10. numAssigned' = m
      BY <3>4, <3>9, <1>1, <1>3
    <3>11. QED
      BY <3>4, <3>6, <3>10
  <2>3. QED
    BY <2>1, <2>2
<1> HIDE DEF R
<1>5. \A n \in R : n \in N /\ typeMap[n] # None /\ typeMap[n] \in Type
  BY <1>2 DEF R
<1>6. \A n, m \in R : typeMap[n] = typeMap[m] => n = m
  BY <1>2, <1>5 DEF Row
<1>7. \A n \in R : n \in 0..(MaxCacheTypes - 1) /\ n # 0
  BY <1>2, <1>5
<1>8. ASSUME NEW t \in Type, NEW ns, ns = {n \in R : typeMap[n] = t}
      PROVE  /\ ns = {} => typAssigns'[t] = 0
             /\ ns # {} => typAssigns'[t] \in R /\ typeMap[typAssigns'[t]] = t
  <2>1. typAssigns'[t] = IF ns = {} THEN 0 ELSE Max(ns)
    BY <1>1, <1>3, <1>8
  <2>2. ns \in SUBSET (0..(MaxCacheTypes - 1)) /\ MaxCacheTypes - 1 \in Nat
    BY <1>2, <1>7, <1>8
  <2>3. ns # {} => Max(ns) \in ns
    BY <2>2, MaxOf
  <2>4. QED
    BY <2>1, <2>3, <1>8
<1>9. \A t \in Type : typAssigns'[t] # 0 => typAssigns'[t] \in R /\ typeMap[typAssigns'[t]] = t
  BY <1>8
<1>10. \A n \in R : typAssigns'[typeMap[n]] = n
  <2>1. ASSUME NEW n \in R
        PROVE  typAssigns'[typeMap[n]] = n
    <3>1. PICK t \in Type : t = typeMap[n]
      BY <1>5
    <3>2. PICK ns : ns = {m \in R : typeMap[m] = t}
      OBVIOUS
    <3>3. n \in ns
      BY <3>1, <3>2
    <3>4. typAssigns'[t] \in R /\ typeMap[typAssigns'[t]] = t
      BY <3>2, <3>3, <1>8
    <3>5. QED
      BY <3>1, <3>4, <1>6
  <2>2. QED
    BY <2>1
<1>11. Assigned'
  <2>1. \A t \in Type : typAssigns'[t] # 0 => typAssigns'[t] \in 2..numAssigned'
    BY <1>4, <1>9
  <2>2. \A t, u \in Type : typAssigns'[t] = typAssigns'[u] /\ typAssigns'[t] # 0 => t = u
    BY <1>9
  <2>3. \A n \in N : typeMap[n] # None => typAssigns'[typeMap[n]] = n
    BY <1>10 DEF R
  <2>4. QED
    BY <2>1, <2>2, <2>3, <1>1, <1>2 DEF Assigned
<1>12. Persisted'
  BY <1>1, <1>2, <1>4, <1>5 DEF Persisted
<1>13. MapInv'
  BY <1>1, <1>2, <1>11, <1>12 DEF MapInv
<1>14. Own \subseteq Own'
  <2>1. ASSUME NEW t \in Type, NEW i \in Index, Owns(t, i)
        PROVE  Owns(t, i)'
    <3>1. CASE i = 1
      BY <2>1, <3>1 DEF Owns
    <3>2. CASE i # 1
      <4>1. i \in N
        BY <3>2, <1>2 DEF Index
      <4>2. t \notin Slice /\ typeMap[i] = t /\ t # None
        BY <2>1, <3>2, <1>1, <1>2, TypeAssumption DEF Owns
      <4>3. typAssigns'[t] = i
        BY <4>1, <4>2, <1>10 DEF R
      <4>4. QED
        BY <3>2, <4>2, <4>3, <1>1 DEF Owns
    <3>3. QED
      BY <3>1, <3>2
  <2>2. QED
    BY <2>1, <1>1 DEF Own
<1>15. QED
  BY <1>13, <1>14

\* All steps of this kind.
LEMMA KeepSteps ==
  ASSUME IInv, IInv', LInv,
         \/ \E o \in live : Drop(o)
         \/ \E p \in P : Flush(p)
         \/ FreePersist
         \/ \E t \in Type : PromoteAssign(t)
         \/ PromoteStore \/ PromotePersist
         \/ \E b \in Page : EvictSpan(b)
         \/ \E g \in Granule : EvictType(g)
         \/ \E n \in 2..(MaxCacheTypes - 1) : EvictMap(n)
         \/ RestoreTypes \/ ReconFree \/ ReconEnd
         \/ UNCHANGED vars
  PROVE  LInv'
<1>0. TypeOK /\ dSpanLog' \in [Page -> Nat] /\ dTypeLog' \in [Granule -> LogSet] /\ cache \in [P -> SUBSET Page]
      /\ dSpanLog \in [Page -> Nat] /\ dTypeLog \in [Granule -> LogSet]
  BY TypesOf
<1>20. MapInv /\ TypeOK'
  BY DEF LInv, IInv
<1>1. CASE UNCHANGED vars
  <2>1. UNCHANGED <<spanLog, typeLog, typeMap, dSpanLog, dTypeLog, dTypeMap, mode, cursor, spans, freePages,
                    zeroedBase, cache, freeing, job, heapBits, typAssigns, numAssigned, prof, live, dirty,
                    written, lost, crashes>>
    BY <1>1 DEF vars, persistent, durable, recovery, heap, profile
  <2>2. MapInv' /\ Own' = Own
    BY <2>1, <1>20, MapSame
  <2>3. QED
    BY <2>1, <2>2, <1>0, KeepStep
<1>2. ASSUME NEW o \in live, Drop(o)
      PROVE  LInv'
  <2>1. /\ live' = live \ {o}
        /\ UNCHANGED <<spanLog, typeLog, typeMap, dSpanLog, dTypeLog, dTypeMap, mode, cursor, spans, cache,
                       job, heapBits, typAssigns, numAssigned, prof, lost>>
    BY <1>2 DEF Drop, persistent, durable, recovery, heap, profile
  <2>2. MapInv' /\ Own' = Own
    BY <2>1, <1>20, MapSame
  <2>3. QED
    BY <2>1, <2>2, <1>0, KeepStep
<1>3. ASSUME NEW p \in P, Flush(p)
      PROVE  LInv'
  <2>1. /\ cache' = [cache EXCEPT ![p] = {}]
        /\ UNCHANGED <<spanLog, typeLog, typeMap, dSpanLog, dTypeLog, dTypeMap, mode, cursor, spans,
                       job, heapBits, typAssigns, numAssigned, prof, lost, live>>
    BY <1>3 DEF Flush, persistent, durable, recovery, profile
  <2>2. MapInv' /\ Own' = Own
    BY <2>1, <1>20, MapSame
  <2>3. \A q \in P : cache'[q] \subseteq cache[q]
    BY <2>1, <1>0
  <2>4. QED
    BY <2>1, <2>2, <2>3, <1>0, KeepStep
<1>4. ASSUME FreePersist
      PROVE  LInv'
  <2>1. /\ dSpanLog' = [dSpanLog EXCEPT ![freeing[1]] = spanLog[freeing[1]]]
        /\ UNCHANGED <<spanLog, typeLog, typeMap, dTypeLog, dTypeMap, mode, cursor, spans, cache,
                       job, heapBits, typAssigns, numAssigned, prof, lost, live>>
    BY <1>4 DEF FreePersist, persistent, recovery, profile
  <2>2. \A c \in Page : dSpanLog'[c] = dSpanLog[c] \/ dSpanLog'[c] = spanLog[c]
    BY <2>1, <1>0
  <2>3. MapInv' /\ Own' = Own
    BY <2>1, <1>20, MapSame
  <2>4. QED
    BY <2>1, <2>2, <2>3, <1>0, KeepStep
<1>5. ASSUME (\E t \in Type : PromoteAssign(t)) \/ PromoteStore \/ PromotePersist
      PROVE  LInv'
  <2>1. UNCHANGED <<spanLog, typeLog, dSpanLog, dTypeLog, mode, cursor, spans, cache, job, heapBits, live, lost>>
    BY <1>5 DEF PromoteAssign, PromoteStore, PromotePersist, persistent, durable, recovery, heap
  <2>2. mode = "run"
    BY <1>5, <1>20 DEF PromoteAssign, PromoteStore, PromotePersist, MapInv
  <2>3. MapInv' /\ Own \subseteq Own'
    BY <1>0, <1>5, <1>20, <2>2, ProfileMap
  <2>4. QED
    BY <2>1, <2>3, <1>0, KeepStep
<1>8. ASSUME NEW b \in Page, EvictSpan(b)
      PROVE  LInv'
  <2>1. /\ dSpanLog' = [dSpanLog EXCEPT ![b] = spanLog[b]]
        /\ UNCHANGED <<spanLog, typeLog, typeMap, dTypeLog, dTypeMap, mode, cursor, spans, cache,
                       job, heapBits, typAssigns, numAssigned, prof, lost, live>>
    BY <1>8 DEF EvictSpan, persistent, volatile, recovery, heap, profile
  <2>2. \A c \in Page : dSpanLog'[c] = dSpanLog[c] \/ dSpanLog'[c] = spanLog[c]
    BY <2>1, <1>0
  <2>3. MapInv' /\ Own' = Own
    BY <2>1, <1>20, MapSame
  <2>4. QED
    BY <2>1, <2>2, <2>3, <1>0, KeepStep
<1>9. ASSUME NEW g \in Granule, EvictType(g)
      PROVE  LInv'
  <2>1. /\ dTypeLog' = [dTypeLog EXCEPT ![g] = typeLog[g]]
        /\ typeLog[g] # dTypeLog[g]
        /\ UNCHANGED <<spanLog, typeLog, typeMap, dSpanLog, dTypeMap, mode, cursor, spans, cache,
                       job, heapBits, typAssigns, numAssigned, prof, lost, live>>
    BY <1>9 DEF EvictType, persistent, volatile, recovery, heap, profile
  <2>2. \A c \in Granule : dTypeLog'[c] = dTypeLog[c] \/ dTypeLog'[c] = typeLog[c]
    BY <2>1, <1>0
  <2>3. mode = "run"
    BY <2>1, <1>20 DEF MapInv
  <2>4. MapInv' /\ Own' = Own
    BY <2>1, <2>3, <1>20, MapSame
  <2>5. QED
    BY <2>1, <2>2, <2>4, <1>0, KeepStep
<1>10. ASSUME NEW n \in 2..(MaxCacheTypes - 1), EvictMap(n)
       PROVE  LInv'
  <2>1. UNCHANGED <<spanLog, typeLog, dSpanLog, dTypeLog, mode, cursor, spans, cache, job, heapBits, live, lost>>
    BY <1>10 DEF EvictMap, persistent, volatile, recovery, heap, profile
  <2>2. MapInv' /\ Own' = Own
    BY <1>0, <1>10, <1>20, EvictMapMap
  <2>3. QED
    BY <2>1, <2>2, <1>0, KeepStep
<1>11. ASSUME RestoreTypes
       PROVE  LInv'
  <2>1. /\ mode = "types" /\ mode' = "recon"
        /\ UNCHANGED <<spanLog, typeLog, dSpanLog, dTypeLog, cursor, spans, cache, job, heapBits, live, lost>>
    BY <1>11 DEF RestoreTypes, persistent, durable, heap
  <2>2. MapInv' /\ Own \subseteq Own'
    BY <1>0, <1>11, <1>20, RestoreMap
  <2>3. QED
    BY <2>1, <2>2, <1>0, KeepStep
<1>12. ASSUME ReconFree
       PROVE  LInv'
  <2>1. /\ mode = "recon"
        /\ UNCHANGED <<spanLog, typeLog, typeMap, dSpanLog, dTypeLog, dTypeMap, mode, spans, cache,
                       job, heapBits, typAssigns, numAssigned, prof, lost, live>>
    BY <1>12 DEF ReconFree, persistent, durable, profile
  <2>2. MapInv' /\ Own' = Own
    BY <2>1, <1>20, MapSame
  <2>3. \A c \in Page : spanLog[c] # 0 /\ c < cursor' => spans[c] # NoSpan
    BY <2>1 DEF IInv, ReconInv
  <2>4. \A c \in Page : spans[c] # NoSpan => c < cursor
    BY <2>1, RestartFacts
  <2>5. QED
    BY <2>1, <2>2, <2>3, <2>4, <1>0, KeepStep
<1>13. ASSUME ReconEnd
       PROVE  LInv'
  <2>1. /\ mode = "recon" /\ cursor = NPages /\ mode' = "run"
        /\ UNCHANGED <<spanLog, typeLog, typeMap, dSpanLog, dTypeLog, dTypeMap, spans, cache,
                       job, heapBits, typAssigns, numAssigned, prof, lost, live>>
    BY <1>13 DEF ReconEnd, persistent, durable, heap, profile
  <2>2. MapInv' /\ Own' = Own
    <3>1. mode # "types" /\ mode' # "types"
      BY <2>1
    <3>2. Own' = Own
      BY <2>1, <3>1, OwnSame
    <3>3. (Assigned' <=> Assigned) /\ (Persisted' <=> Persisted)
      BY <2>1 DEF Assigned, Persisted
    <3>4. MapInv'
      BY <2>1, <3>1, <3>3, <1>20 DEF MapInv
    <3>5. QED
      BY <3>2, <3>4
  <2>3. \A c \in Page : c < cursor
    BY <2>1, Consts DEF Page
  <2>4. QED
    BY <2>1, <2>2, <2>3, <1>0, KeepStep
<1>14. QED
  BY <1>1, <1>2, <1>3, <1>4, <1>5, <1>8, <1>9, <1>10, <1>11, <1>12, <1>13

\* The first granule of a slot.
First(b, e, k) == b * G + k * e

\* Slot k of span r at page b and slot l of span s at page c are different slots of a span,
\* or the spans have no page in common.
ApartIn(r, b, k, s, c, l) == \/ b = c /\ k # l /\ ElemSize(r) = ElemSize(s)
                             \/ b # c /\ (b + r.npages <= c \/ c + s.npages <= b)

\* Slots of spans that have no page in common, or different slots of a span, do not meet.
LEMMA GoodApart ==
  ASSUME NEW b \in Page, NEW c \in Page, NEW r, NEW s, GoodSpan(r, b), GoodSpan(s, c),
         NEW k, NEW l, k \in Slots(r), l \in Slots(s), ApartIn(r, b, k, s, c, l)
  PROVE  /\ Cells(b, ElemSize(r), k) \cap Cells(c, ElemSize(s), l) = {}
         /\ First(b, ElemSize(r), k) # First(c, ElemSize(s), l)
<1>1. /\ ElemSize(r) \in Nat /\ ElemSize(r) > 0 /\ k \in Nat /\ k * ElemSize(r) \in Nat
      /\ ElemSize(s) \in Nat /\ ElemSize(s) > 0 /\ l \in Nat /\ l * ElemSize(s) \in Nat
      /\ r.npages \in Nat /\ s.npages \in Nat /\ b \in Nat /\ c \in Nat
  BY SpanFacts, Consts DEF GoodSpan
<1>2. Cells(b, ElemSize(r), k) \cap Cells(c, ElemSize(s), l) = {}
  <2>1. CASE b = c /\ k # l /\ ElemSize(r) = ElemSize(s)
    BY <2>1, <1>1, SlotsApart
  <2>2. CASE b # c /\ (b + r.npages <= c \/ c + s.npages <= b)
    <3>1. /\ Cells(b, ElemSize(r), k) \subseteq GranulesOf(b, r.npages)
          /\ Cells(c, ElemSize(s), l) \subseteq GranulesOf(c, s.npages)
      BY SlotInside
    <3>2. GranulesOf(b, r.npages) \cap GranulesOf(c, s.npages) = {}
      BY <2>2, <1>1, SpansApart
    <3>3. QED
      BY <3>1, <3>2
  <2>3. QED
    BY <2>1, <2>2 DEF ApartIn
<1> DEFINE x == b * G + k * ElemSize(r)
           y == c * G + l * ElemSize(s)
<1>3. x \in Nat /\ y \in Nat
  <2>1. b * G \in Nat /\ c * G \in Nat
    BY <1>1, Consts
  <2>2. QED
    BY <2>1, <1>1
<1>4. /\ Cells(b, ElemSize(r), k) = x..(x + ElemSize(r) - 1)
      /\ Cells(c, ElemSize(s), l) = y..(y + ElemSize(s) - 1)
  BY DEF Cells
<1> HIDE DEF x, y
<1>5. x \in x..(x + ElemSize(r) - 1) /\ y \in y..(y + ElemSize(s) - 1)
  BY <1>1, <1>3
<1>6. x # y
  BY <1>2, <1>4, <1>5
<1>7. QED
  BY <1>2, <1>6 DEF x, y, First

\* The entry that logSpanAlloc writes.
LEMMA EntryOfLog ==
  ASSUME NEW s, Desc(s) \in Span
  PROVE  /\ Entry(LogValue(s), s) /\ CreateSpan(LogValue(s)).npages = s.npages
         /\ CreateSpan(LogValue(s)).spanclass = s.spanclass
<1>1. LogValue(s) # 0 /\ CreateSpan(LogValue(s)) = Desc(s)
  BY LogFacts
<1>2. Desc(s).spanclass = s.spanclass /\ Desc(s).npages = s.npages /\ (Desc(s).opt = 1 <=> s.typIndex # 0)
  BY DEF Desc
<1>3. QED
  BY <1>1, <1>2 DEF Entry

\* A slot that was free is not that of a reachable object.
LEMMA AllocApart ==
  ASSUME IInv, IInv', LInv, mode = "run", NEW b \in Page, NEW k, spans'[b] # NoSpan, k \in Slots(spans'[b]),
         spans[b] # NoSpan => k \notin spans[b].alloc,
         \A c \in Page : spans[c] # NoSpan =>
            spans'[c] # NoSpan /\ ElemSize(spans'[c]) = ElemSize(spans[c]) /\ Slots(spans'[c]) = Slots(spans[c])
  PROVE  \A o \in live : o.at # b * G + k * ElemSize(spans'[b])
<1>0. GoodSpan(spans'[b], b) /\ Desc(spans'[b]) \in Span
  BY DEF IInv, SpanInv, GoodSpan
<1>1. ASSUME NEW o \in live
      PROVE  o.at # b * G + k * ElemSize(spans'[b])
  <2>1. PICK c \in Page : \E l, e \in Nat : \E i \in 0..(MaxCacheTypes - 1) : Kept(o, c, l, e, i)
    BY DEF LInv, LiveInv
  <2>2. PICK l \in Nat, e \in Nat : \E i \in 0..(MaxCacheTypes - 1) : Kept(o, c, l, e, i)
    BY <2>1
  <2>3. PICK i \in 0..(MaxCacheTypes - 1) : Kept(o, c, l, e, i)
    BY <2>2
  <2>4. /\ spans[c] # NoSpan /\ l \in spans[c].alloc /\ l \in Slots(spans[c])
        /\ o.at = c * G + l * ElemSize(spans[c])
    BY <2>3, KeptFacts
  <2>5. GoodSpan(spans'[c], c) /\ l \in Slots(spans'[c]) /\ ElemSize(spans'[c]) = ElemSize(spans[c])
    BY <2>4 DEF IInv, SpanInv
  <2>6. \/ b = c /\ k # l /\ ElemSize(spans'[b]) = ElemSize(spans'[c])
        \/ b # c /\ (b + spans'[b].npages <= c \/ c + spans'[c].npages <= b)
    <3>1. CASE b = c
      BY <3>1, <2>4
    <3>2. CASE b # c
      <4>1. Taken(b)' = spans'[b].npages /\ Taken(c)' = spans'[c].npages
        BY <2>4 DEF Taken
      <4>2. spans'[b].npages >= 1 /\ spans'[c].npages >= 1 /\ spans'[b].npages \in Nat /\ spans'[c].npages \in Nat
        BY <1>0, <2>5, SpanFacts DEF GoodSpan
      <4>3. Taken(b)' > 0 /\ Taken(c)' > 0 /\ b \in Nat /\ c \in Nat
        BY <4>1, <4>2, Consts
      <4>4. (b < c => b + Taken(b)' <= c) /\ (c < b => c + Taken(c)' <= b)
        BY <4>3 DEF IInv, ApartInv
      <4>5. QED
        BY <4>1, <4>3, <4>4, <3>2
    <3>3. QED
      BY <3>1, <3>2
  <2>7. b * G + k * ElemSize(spans'[b]) # c * G + l * ElemSize(spans'[c])
    <3> DEFINE r == spans'[b]
               s == spans'[c]
    <3>1. GoodSpan(r, b) /\ GoodSpan(s, c) /\ k \in Slots(r) /\ l \in Slots(s)
      BY <1>0, <2>5
    <3>2. ApartIn(r, b, k, s, c, l)
      BY <2>6 DEF ApartIn
    <3> HIDE DEF r, s
    <3>3. First(b, ElemSize(r), k) # First(c, ElemSize(s), l)
      BY <3>1, <3>2, GoodApart
    <3>4. QED
      BY <3>3 DEF r, s, First
  <2>8. QED
    BY <2>4, <2>5, <2>7
<1>2. QED
  BY <1>1

\* mallocgc gets slot k of the span at b.
Allocates(p, t, b, k, new) ==
  /\ job' = [job EXCEPT ![p] = [pc |-> IF t \notin NoScan THEN "bits" ELSE IF new THEN "fence" ELSE "return",
                                typ |-> t, base |-> b, slot |-> k, new |-> new]]
  /\ UNCHANGED <<typeLog, dTypeLog, heapBits, live, dSpanLog, mode, cursor, typeMap, dTypeMap, typAssigns,
                 numAssigned, prof, lost>>
  /\ \A c \in Page : c # b => spans'[c] = spans[c] /\ spanLog'[c] = spanLog[c]
  /\ spans'[b] # NoSpan /\ spans'[b].spanclass = SpanClassOf(t)
  /\ spans'[b].typIndex # 0 => <<t, spans'[b].typIndex>> \in Own
  /\ spans[b] = NoSpan => new
  /\ spans[b] # NoSpan => /\ spans'[b].spanclass = spans[b].spanclass /\ spans'[b].npages = spans[b].npages
                          /\ spans'[b].typIndex = spans[b].typIndex /\ spans[b].alloc \subseteq spans'[b].alloc
                          /\ k \notin spans[b].alloc
  /\ k \in Slots(spans'[b])
  /\ spanLog'[b] = IF new THEN LogValue(spans'[b]) ELSE spanLog[b]
  /\ ~new => Ready(b)
  /\ \A q \in P : \A c \in cache'[q] : c \in cache[q] \/ (q = p /\ c = b)

\* What is known of the reachable objects stays true.
LEMMA AllocLive ==
  ASSUME IInv, IInv', LInv, NEW p \in P, NEW t \in Type, NEW b \in Page, NEW k, NEW new \in BOOLEAN,
         mode = "run", job[p] = Idle, Allocates(p, t, b, k, new)
  PROVE  LInv'
<1> USE DEF Allocates
<1> DEFINE j == [pc |-> IF t \notin NoScan THEN "bits" ELSE IF new THEN "fence" ELSE "return",
                 typ |-> t, base |-> b, slot |-> k, new |-> new]
<1>0. TypeOK /\ job \in [P -> JobSet] /\ cache \in [P -> SUBSET Page] /\ cache' \in [P -> SUBSET Page]
  BY DEF IInv, SpanInv, TypeOK
<1>1. job'[p] = j /\ \A q \in P : q # p => job'[q] = job[q]
  BY <1>0
<1>16. MapInv' /\ Own' = Own /\ lost' = lost
  BY MapSame DEF LInv
<1>2. /\ j.pc \notin {"meta", "persist", "idle"} /\ j.typ = t /\ j.base = b /\ j.slot = k /\ j.new = new
      /\ j.pc \in {"fence", "return"} <=> t \in NoScan
      /\ j.pc = "return" => ~new
  OBVIOUS
<1> HIDE DEF j
<1>3. GoodSpan(spans'[b], b) /\ Desc(spans'[b]) \in Span
  BY DEF IInv, SpanInv, GoodSpan
<1>4. new => Entry(spanLog'[b], spans'[b]) /\ CreateSpan(spanLog'[b]).npages = spans'[b].npages
  BY <1>3, EntryOfLog
<1>5. \A c \in Page : spans[c] # NoSpan =>
         /\ spans'[c] # NoSpan /\ spans'[c].spanclass = spans[c].spanclass /\ spans'[c].npages = spans[c].npages
         /\ spans'[c].typIndex = spans[c].typIndex /\ spans[c].alloc \subseteq spans'[c].alloc
  OBVIOUS
<1>6. \A c \in Page : spans[c] # NoSpan =>
         ElemSize(spans'[c]) = ElemSize(spans[c]) /\ Slots(spans'[c]) = Slots(spans[c])
  BY <1>5, SameSlots
<1>7. \A c \in Page : spans[c] # NoSpan /\ Entry(spanLog[c], spans[c]) =>
         Entry(spanLog'[c], spans'[c]) /\ (c = b => CreateSpan(spanLog'[c]).npages = spans[c].npages)
  <2>1. ASSUME NEW c \in Page, spans[c] # NoSpan, Entry(spanLog[c], spans[c])
        PROVE  Entry(spanLog'[c], spans'[c]) /\ (c = b => CreateSpan(spanLog'[c]).npages = spans[c].npages)
    <3>1. CASE c # b
      BY <3>1, <2>1
    <3>2. CASE c = b /\ new
      BY <3>2, <2>1, <1>4, <1>5
    <3>3. CASE c = b /\ ~new
      <4>1. spanLog'[c] = spanLog[c]
        BY <3>3
      <4>2. CreateSpan(spanLog[c]).npages = spans[c].npages
        BY <2>1, EntryPages DEF Entry
      <4>3. QED
        BY <2>1, <4>1, <4>2, <1>5 DEF Entry
    <3>4. QED
      BY <3>1, <3>2, <3>3
  <2>2. QED
    BY <2>1
<1>8. \A c \in Page : spans[c] # NoSpan /\ Ready(c) => Ready(c)'
  <2>1. ASSUME NEW c \in Page, spans[c] # NoSpan, Ready(c)
        PROVE  Ready(c)'
    <3>1. Entry(spanLog'[c], spans'[c])
      BY <2>1, <1>7 DEF Ready
    <3>2. Entry(dSpanLog'[c], spans'[c])
      BY <2>1, <1>5 DEF Ready, Entry
    <3>3. TypeLogged(spans'[c], typeLog'[c * G], dTypeLog'[c * G], Own', lost')
      <4>1. TypeLogged(spans[c], typeLog[c * G], dTypeLog[c * G], Own, lost)
        BY <2>1 DEF Ready
      <4>2. QED
        BY <2>1, <4>1, <1>5, <1>16 DEF TypeLogged
    <3>4. QED
      BY <3>1, <3>2, <3>3 DEF Ready
  <2>2. QED
    BY <2>1
<1>9. ASSUME NEW o \in live, NEW c \in Page, NEW l, NEW e, NEW i,
             Kept(o, c, l, e, i)
      PROVE  Kept(o, c, l, e, i)'
  <2>1. /\ spans[c] # NoSpan /\ l \in spans[c].alloc /\ l \in Slots(spans[c]) /\ e = ElemSize(spans[c])
        /\ MemOk(o, c, l, e, i) /\ Entry(spanLog[c], spans[c])
    <3>1. MemOk(o, c, l, e, i)
      BY <1>9 DEF Kept
    <3>2. spans[c] # NoSpan /\ l \in spans[c].alloc
      BY <3>1 DEF MemOk
    <3> HIDE DEF Allocates
    <3>3. l \in Slots(spans[c])
      BY <1>9, KeptFacts
    <3>6. e = ElemSize(spans[c])
      BY <1>9, KeptFacts
    <3>4. Entry(spanLog[c], spans[c])
      BY <1>9, KeptFacts
    <3>5. QED
      BY <3>1, <3>2, <3>3, <3>4, <3>6
  <2>2. MemOk(o, c, l, e, i)'
    BY <2>1, <1>5, <1>16 DEF MemOk
  <2>3. EntryOk(spanLog[c], o, c, l, e, i)
    BY <1>9 DEF Kept
  <2>4. EntryOk(spanLog'[c], o, c, l, e, i)
    <3>1. CASE c # b
      BY <3>1, <2>3
    <3>2. CASE c = b
      <4>1. Entry(spanLog'[c], spans'[c]) /\ CreateSpan(spanLog'[c]).npages = spans[c].npages
        BY <3>2, <2>1, <1>7
      <4>2. /\ CreateSpan(spanLog'[c]).spanclass = spans[c].spanclass
            /\ CreateSpan(spanLog'[c]).opt = 1 <=> spans[c].typIndex # 0
            /\ spanLog'[c] # 0
        BY <4>1, <2>1, <1>5 DEF Entry
      <4>3. /\ ElemSize(CreateSpan(spanLog'[c])) = ElemSize(spans[c])
            /\ Slots(CreateSpan(spanLog'[c])) = Slots(spans[c])
        BY <4>1, <4>2, SameSlots
      <4>4. spans[c].typIndex = i /\ spans[c].spanclass = SpanClassOf(o.typ)
        BY <2>1 DEF MemOk
      <4>5. QED
        BY <4>2, <4>3, <4>4, <2>1, <2>3 DEF EntryOk
    <3>3. QED
      BY <3>1, <3>2
  <2>5. /\ EntryOk(dSpanLog[c], o, c, l, e, i) /\ BitsOk(typeLog, o, c, l, e, i, lost)
        /\ BitsOk(dTypeLog, o, c, l, e, i, lost) /\ (i = 0 \/ <<o.typ, i>> \in Own)
    BY <1>9 DEF Kept
  <2>6. QED
    BY <2>2, <2>4, <2>5, <1>16 DEF Kept
<1>10. \A o \in live : o.at # b * G + k * ElemSize(spans'[b])
  BY <1>5, <1>6, AllocApart
<1>11. LiveInv'
  <2>1. \A o \in live' : \E c \in Page : \E l, e \in Nat : \E i \in 0..(MaxCacheTypes - 1) : Kept(o, c, l, e, i)'
    BY <1>9 DEF LInv, LiveInv
  <2>2. ASSUME NEW q \in P, NEW o \in live', job'[q] # Idle
        PROVE  o.at # job'[q].base * G + job'[q].slot * ElemSize(spans'[job'[q].base])
    <3>1. CASE q = p
      BY <3>1, <1>1, <1>2, <1>10
    <3>2. CASE q # p
      <4>1. job'[q] = job[q] /\ job[q] # Idle
        BY <3>2, <2>2, <1>1
      <4>2. o.at # job[q].base * G + job[q].slot * ElemSize(spans[job[q].base])
        BY <4>1, SlotIs DEF LInv, LiveInv
      <4>3. job[q].base \in Page /\ spans[job[q].base] # NoSpan
        BY <4>1, JobFacts
      <4>4. QED
        BY <4>1, <4>2, <4>3, <1>6
    <3>3. QED
      BY <3>1, <3>2
  <2>3. \A q \in P, o \in live' : job'[q] # Idle => o.at # SlotBase(job[q].base, job[q].slot)'
    BY <2>2 DEF SlotBase
  <2>4. \A o1, o2 \in live' : o1.at = o2.at => o1 = o2
    BY DEF LInv, LiveInv
  <2>5. QED
    BY <2>1, <2>3, <2>4 DEF LiveInv
<1>12. CacheInv'
  <2>1. ASSUME NEW q \in P, NEW c \in cache'[q]
        PROVE  spans'[c] # NoSpan /\ (job'[q] = Idle \/ job'[q].base # c => Ready(c)')
    <3>1. CASE q = p /\ c = b
      <4>1. job'[p] # Idle
        BY <1>1, <1>2 DEF Idle
      <4>2. QED
        BY <3>1, <4>1, <1>1, <1>2
    <3>2. CASE c \in cache[q] /\ q = p
      <4>1. c \in Page /\ spans[c] # NoSpan /\ Ready(c)
        BY <3>2, <1>0 DEF LInv, CacheInv
      <4>2. QED
        BY <4>1, <1>5, <1>8
    <3>3. CASE c \in cache[q] /\ q # p
      <4>1. c \in Page /\ spans[c] # NoSpan /\ (job[q] = Idle \/ job[q].base # c => Ready(c))
        BY <3>3, <1>0 DEF LInv, CacheInv
      <4>2. job'[q] = job[q]
        BY <3>3, <1>1
      <4>3. QED
        BY <4>1, <4>2, <1>5, <1>8
    <3>4. QED
      BY <3>1, <3>2, <3>3
  <2>2. QED
    BY <2>1 DEF CacheInv
<1>13. LogInv'
  <2>1. ASSUME NEW q \in P, job'[q] # Idle,
               NEW c, NEW u, NEW s, NEW C, c = job'[q].base, u = job'[q].typ, s = spans'[c],
               C = Cells(c, ElemSize(s), job'[q].slot)
        PROVE  /\ s.spanclass = SpanClassOf(u)
               /\ s.typIndex # 0 => <<u, s.typIndex>> \in Own'
               /\ IF job'[q].new THEN Entry(spanLog'[c], s) ELSE Ready(c)'
               /\ job'[q].pc \in {"fence", "return"} <=> u \in NoScan
               /\ job'[q].pc = "return" => ~job'[q].new
               /\ job'[q].pc \in {"meta", "persist"} => \A g \in C : heapBits'[g] = u
               /\ job'[q].pc = "meta" => s.typIndex # 0 /\ typeLog'[c * G].idx = s.typIndex
               /\ job'[q].pc = "persist" => IF s.typIndex # 0 THEN Described(typeLog'[c * G], s.typIndex, u, lost')
                                            ELSE \A g \in C : typeLog'[g] = RawLog(u)
    <3>1. CASE q = p
      <4>1. job'[q] = j /\ c = b /\ u = t
        BY <3>1, <2>1, <1>1, <1>2
      <4>2. ~new => Ready(b)'
        <5>1. ASSUME ~new
              PROVE  Ready(b)'
          BY <5>1, <1>8
        <5>2. QED
          BY <5>1
      <4>3. ~new => Ready(c)'
        BY <4>1, <4>2
      <4>4. QED
        BY <4>1, <4>3, <2>1, <1>2, <1>4, <1>16
    <3>2. CASE q # p
      <4>1. job'[q] = job[q] /\ job[q] # Idle
        BY <3>2, <2>1, <1>1
      <4>2. c \in Page /\ spans[c] # NoSpan
        BY <4>1, <2>1, JobFacts
      <4> DEFINE D == Cells(c, ElemSize(spans[c]), job[q].slot)
      <4>3. /\ spans[c].spanclass = SpanClassOf(u)
            /\ spans[c].typIndex # 0 => <<u, spans[c].typIndex>> \in Own
            /\ IF job[q].new THEN Entry(spanLog[c], spans[c]) ELSE Ready(c)
            /\ job[q].pc \in {"fence", "return"} <=> u \in NoScan
            /\ job[q].pc = "return" => ~job[q].new
            /\ job[q].pc \in {"meta", "persist"} => \A g \in D : heapBits[g] = u
            /\ job[q].pc = "meta" => spans[c].typIndex # 0 /\ typeLog[c * G].idx = spans[c].typIndex
            /\ job[q].pc = "persist" => IF spans[c].typIndex # 0 THEN Described(typeLog[c * G], spans[c].typIndex, u, lost)
                                        ELSE \A g \in D : typeLog[g] = RawLog(u)
        <5>1. LogOk(q)
          BY <4>1 DEF LInv, LogInv
        <5>2. job[q].base = c /\ job[q].typ = u
          BY <4>1, <2>1
        <5> HIDE DEF Allocates
        <5>3. QED
          BY <5>1, <5>2 DEF LogOk, JobCells
      <4>4. C = D
        BY <4>1, <4>2, <2>1, <1>6
      <4> HIDE DEF D
      <4>5. s.spanclass = spans[c].spanclass /\ s.typIndex = spans[c].typIndex
        BY <4>2, <2>1, <1>5
      <4>6. IF job'[q].new THEN Entry(spanLog'[c], s) ELSE Ready(c)'
        BY <4>1, <4>2, <4>3, <2>1, <1>7, <1>8
      <4>7. QED
        BY <4>1, <4>3, <4>4, <4>5, <4>6, <1>16
    <3>3. QED
      BY <3>1, <3>2
  <2>3. QED
    BY <2>1 DEF LogInv, LogOk, JobCells
<1>14. QED
  BY <1>11, <1>12, <1>13, <1>16 DEF LInv

\* mallocgc looks for a span of the type's own only for a type that has one.
LEMMA IndexOwn ==
  ASSUME TypeOK, MapInv, mode = "run", NEW t \in Type, TypeIndex(t) # 0
  PROVE  <<t, TypeIndex(t)>> \in Own
<1>1. /\ \A u \in Type : typAssigns[u] # 0 => typAssigns[u] \in 2..numAssigned
      /\ typAssigns[t] \in {0} \cup Index /\ 1 \in Index
  BY Consts DEF MapInv, Assigned, TypeOK, Index
<1>2. t \notin NoScan /\ (t \in Slice => TypeIndex(t) = 1) /\ (t \notin Slice => TypeIndex(t) = typAssigns[t])
  BY DEF TypeIndex
<1>3. TypeIndex(t) \in Index
  BY <1>1, <1>2
<1>4. Owns(t, TypeIndex(t))
  <2>1. CASE t \in Slice
    BY <1>2, <2>1 DEF Owns
  <2>2. CASE t \notin Slice
    <3>1. TypeIndex(t) # 1
      BY <1>1, <1>2, <2>2
    <3>2. QED
      BY <1>2, <2>2, <3>1 DEF Owns
  <2>3. QED
    BY <2>1, <2>2
<1>5. QED
  BY <1>2, <1>3, <1>4 DEF Own

\* A free slot of a span that there is.
LEMMA TakeLive ==
  ASSUME IInv, IInv', LInv, NEW p \in P, NEW t \in Type, NEW b \in InUse, NEW new \in BOOLEAN,
         mode = "run", job[p] = Idle, FreeSlots(b) # {}, TakeSlot(b),
         StartJob(p, t, b, Min(FreeSlots(b)), new),
         spans[b].spanclass = SpanClassOf(t), spans[b].typIndex = TypeIndex(t),
         ~new => Ready(b),
         \A q \in P : \A c \in cache'[q] : c \in cache[q] \/ (q = p /\ c = b)
  PROVE  LInv'
<1> DEFINE k == Min(FreeSlots(b))
<1>1. b \in Page /\ spans[b] # NoSpan /\ GoodSpan(spans[b], b) /\ spans[b] \in SpanSet /\ Desc(spans[b]) \in Span
  BY DEF InUse, IInv, SpanInv, GoodSpan
<1>2. k \in Slots(spans[b]) /\ k \notin spans[b].alloc
  <2>1. FreeSlots(b) \subseteq Nat
    BY <1>1, SpanFacts DEF FreeSlots
  <2>2. k \in FreeSlots(b)
    BY <2>1, MinOf
  <2>3. QED
    BY <2>2 DEF FreeSlots
<1>3. spans' = [spans EXCEPT ![b].alloc = @ \cup {k}]
  BY DEF TakeSlot
<1>4. /\ job' = [job EXCEPT ![p] = [pc |-> IF t \notin NoScan THEN "bits" ELSE IF new THEN "fence" ELSE "return",
                                    typ |-> t, base |-> b, slot |-> k, new |-> new]]
      /\ spanLog' = IF new THEN [spanLog EXCEPT ![b] = LogValue(spans'[b])] ELSE spanLog
      /\ UNCHANGED <<typeLog, dTypeLog, heapBits, live, dSpanLog, mode, cursor, typeMap, dTypeMap, typAssigns,
                     numAssigned, prof, lost>>
  BY DEF StartJob, durable, recovery, profile
<1> HIDE DEF k
<1>5. spans \in [Page -> SpanSet] /\ spanLog \in [Page -> Nat]
  BY DEF IInv, SpanInv, TypeOK
<1>6. /\ spans'[b].spanclass = spans[b].spanclass /\ spans'[b].npages = spans[b].npages
      /\ spans'[b].typIndex = spans[b].typIndex /\ spans[b].alloc \subseteq spans'[b].alloc
      /\ \A c \in Page : c # b => spans'[c] = spans[c]
  BY <1>1, <1>3, <1>5 DEF SpanSet
<1>7. spanLog'[b] = IF new THEN LogValue(spans'[b]) ELSE spanLog[b]
  BY <1>1, <1>4, <1>5
<1>8. \A c \in Page : c # b => spanLog'[c] = spanLog[c]
  BY <1>4, <1>5
<1>9. spans'[b].typIndex # 0 => <<t, spans'[b].typIndex>> \in Own
  BY <1>6, IndexOwn DEF LInv, IInv
<1>10. k \in Slots(spans'[b])
  BY <1>2, <1>6, SameSlots
<1>11. spans'[b] # NoSpan
  <2>1. spans[b].npages >= 1 /\ NoSpan.npages = 0
    BY <1>1, SpanFacts DEF NoSpan
  <2>2. QED
    BY <2>1, <1>6
<1>12. Allocates(p, t, b, k, new)
  BY <1>1, <1>2, <1>4, <1>6, <1>7, <1>8, <1>9, <1>10, <1>11 DEF Allocates
<1>13. QED
  BY <1>1, <1>12, AllocLive

\* The first slot of a new span.
LEMMA FreshLive ==
  ASSUME IInv, IInv', LInv, NEW p \in P, NEW t \in Type, NEW b \in Page, NEW n \in Nat, n >= 1, NEW ti,
         mode = "run", job[p] = Idle, AllocPages(b, n, SpanClassOf(t), ti), StartJob(p, t, b, 0, TRUE),
         ti # 0 => <<t, ti>> \in Own,
         \A q \in P : \A c \in cache'[q] : c \in cache[q] \/ (q = p /\ c = b)
  PROVE  LInv'
<1> DEFINE spc == SpanClassOf(t)
           s == [spanclass |-> spc, npages |-> n, typIndex |-> ti, needzero |-> 0, alloc |-> {0}]
           new == TRUE
           k == 0
<1>1. PagesOf(b, n) \subseteq freePages /\ spans' = [spans EXCEPT ![b] = s]
  BY DEF AllocPages
<1>2. /\ job' = [job EXCEPT ![p] = [pc |-> IF t \notin NoScan THEN "bits" ELSE IF new THEN "fence" ELSE "return",
                                    typ |-> t, base |-> b, slot |-> k, new |-> new]]
      /\ spanLog' = [spanLog EXCEPT ![b] = LogValue(spans'[b])]
      /\ UNCHANGED <<typeLog, dTypeLog, heapBits, live, dSpanLog, mode, cursor, typeMap, dTypeMap, typAssigns,
                     numAssigned, prof, lost>>
  BY DEF StartJob, durable, recovery, profile
<1>3. spans \in [Page -> SpanSet] /\ freePages \subseteq Page /\ spanLog \in [Page -> Nat]
  BY SMTT(30) DEF IInv, SpanInv, TypeOK
<1>4. b \in freePages
  <2>1. PagesOf(b, n) \subseteq Page
    BY <1>1, <1>3
  <2>2. b \in PagesOf(b, n)
    BY <2>1, PagesFit
  <2>3. QED
    BY <2>2, <1>1
<1>5. spans[b] = NoSpan
  BY <1>4, FreeFacts
<1>6. s.npages = n /\ s.typIndex = ti /\ s.spanclass = spc /\ s # NoSpan
  BY DEF NoSpan
<1> HIDE DEF s, spc
<1>7. spans'[b] = s /\ (\A c \in Page : c # b => spans'[c] = spans[c])
  BY <1>1, <1>3
<1>8. spanLog'[b] = LogValue(spans'[b]) /\ (\A c \in Page : c # b => spanLog'[c] = spanLog[c])
  BY <1>2, <1>3
<1>9. k \in Slots(spans'[b])
  <2>1. GoodSpan(spans'[b], b)
    BY <1>6, <1>7 DEF IInv, SpanInv
  <2>2. QED
    BY <2>1, SpanFacts DEF GoodSpan
<1>10. spans'[b] # NoSpan /\ spans'[b].spanclass = SpanClassOf(t) /\ spans'[b].typIndex = ti
  BY <1>6, <1>7 DEF spc
<1>11. new \in BOOLEAN /\ new
  OBVIOUS
<1> HIDE DEF k, new
<1>12. spanLog'[b] = IF new THEN LogValue(spans'[b]) ELSE spanLog[b]
  BY <1>8, <1>11
<1>13. Allocates(p, t, b, k, new)
  BY <1>2, <1>5, <1>7, <1>8, <1>9, <1>10, <1>11, <1>12 DEF Allocates
<1>14. QED
  BY <1>11, <1>13, AllocLive

\* All ways to get a slot.
LEMMA AllocLiveSteps ==
  ASSUME IInv, IInv', LInv, NEW p \in P, NEW t \in Type,
         AllocCached(p, t) \/ AllocCentral(p, t) \/ AllocFresh(p, t) \/ AllocLarge(p, t)
  PROVE  LInv'
<1>10. TypeOK
  BY DEF IInv
<1>1. TypeOK /\ cache \in [P -> SUBSET Page]
  BY <1>10, SMTT(30) DEF TypeOK
<1>2. \A b : cache' = Refilled(p, t, b) => \A q \in P : \A c \in cache'[q] : c \in cache[q] \/ (q = p /\ c = b)
  BY <1>1 DEF Refilled
<1>9. mode = "run"
  BY DEF AllocCached, AllocCentral, AllocFresh, AllocLarge
<1>3. TypeIndex(t) # 0 => <<t, TypeIndex(t)>> \in Own
  BY <1>1, <1>9, IndexOwn DEF LInv
<1>4. ASSUME AllocCached(p, t)
      PROVE  LInv'
  <2>1. mode = "run" /\ job[p] = Idle /\ SizeClassOf[t] # 0 /\ UNCHANGED <<freePages, zeroedBase, cache>>
    BY <1>4 DEF AllocCached
  <2>2. PICK b \in Cached(p, SpanClassOf(t), TypeIndex(t)) :
          /\ FreeSlots(b) # {}
          /\ TakeSlot(b)
          /\ \E new \in BOOLEAN : StartJob(p, t, b, Min(FreeSlots(b)), new)
    BY <1>4 DEF AllocCached
  <2>3. PICK new \in BOOLEAN : StartJob(p, t, b, Min(FreeSlots(b)), new)
    BY <2>2
  <2>4. b \in cache[p] /\ b \in Page /\ spans[b].spanclass = SpanClassOf(t) /\ spans[b].typIndex = TypeIndex(t)
    BY <1>1 DEF Cached
  <2>5. spans[b] # NoSpan /\ Ready(b)
    BY <2>1, <2>4 DEF LInv, CacheInv
  <2>6. b \in InUse
    BY <2>4, <2>5 DEF InUse
  <2>7. \A q \in P : \A c \in cache'[q] : c \in cache[q] \/ (q = p /\ c = b)
    BY <2>1
  <2>8. QED
    BY <2>1, <2>2, <2>3, <2>4, <2>5, <2>6, <2>7, TakeLive
<1>5. ASSUME AllocCentral(p, t)
      PROVE  LInv'
  <2>1. mode = "run" /\ job[p] = Idle
    BY <1>5 DEF AllocCentral
  <2>2. PICK b \in Partial(SpanClassOf(t), TypeIndex(t)) :
          /\ TakeSlot(b)
          /\ cache' = Refilled(p, t, b)
          /\ StartJob(p, t, b, Min(FreeSlots(b)), TRUE)
    BY <1>5 DEF AllocCentral
  <2>3. /\ b \in InUse /\ FreeSlots(b) # {}
        /\ spans[b].spanclass = SpanClassOf(t) /\ spans[b].typIndex = TypeIndex(t)
    BY DEF Partial
  <2>4. \A q \in P : \A c \in cache'[q] : c \in cache[q] \/ (q = p /\ c = b)
    BY <2>2, <1>2
  <2> DEFINE new == TRUE
  <2>5. new \in BOOLEAN /\ new /\ StartJob(p, t, b, Min(FreeSlots(b)), new)
    BY <2>2
  <2> HIDE DEF new
  <2>6. QED
    BY <2>1, <2>2, <2>3, <2>4, <2>5, TakeLive
<1>6. ASSUME AllocFresh(p, t)
      PROVE  LInv'
  <2> DEFINE n == ClassToAllocNPages[SizeClassOf[t]]
  <2>1. mode = "run" /\ job[p] = Idle /\ SizeClassOf[t] # 0
    BY <1>6 DEF AllocFresh
  <2>2. PICK b \in Page : /\ AllocPages(b, n, SpanClassOf(t), TypeIndex(t))
                          /\ cache' = Refilled(p, t, b)
                          /\ StartJob(p, t, b, 0, TRUE)
    BY <1>6 DEF AllocFresh
  <2>3. SizeClassOf[t] \in 1..66
    BY <2>1, TypeAssumption DEF NumSizeClasses
  <2>4. n \in Nat /\ n >= 1
    BY <2>3, ClassAssumption DEF NumSizeClasses
  <2>5. \A q \in P : \A c \in cache'[q] : c \in cache[q] \/ (q = p /\ c = b)
    BY <2>2, <1>2
  <2> HIDE DEF n
  <2>6. QED
    BY <2>1, <2>2, <2>4, <2>5, <1>3, FreshLive
<1>7. ASSUME AllocLarge(p, t)
      PROVE  LInv'
  <2> DEFINE n == LargePages[t]
             ti == 0
  <2>1. mode = "run" /\ job[p] = Idle /\ SizeClassOf[t] = 0 /\ cache' = cache
    BY <1>7 DEF AllocLarge
  <2>2. PICK b \in Page : /\ AllocPages(b, n, SpanClassOf(t), ti)
                          /\ StartJob(p, t, b, 0, TRUE)
    BY <1>7 DEF AllocLarge
  <2>3. n \in Nat /\ n * PageSize > MaxSmallSize
    BY <2>1, TypeAssumption
  <2>4. n >= 1
    BY <2>3 DEF PageSize, MaxSmallSize
  <2>5. ti # 0 => <<t, ti>> \in Own
    OBVIOUS
  <2>6. \A q \in P : \A c \in cache'[q] : c \in cache[q] \/ (q = p /\ c = b)
    BY <2>1
  <2> HIDE DEF n, ti
  <2>7. QED
    BY <2>1, <2>2, <2>3, <2>4, <2>5, <2>6, FreshLive
<1>8. QED
  BY <1>4, <1>5, <1>6, <1>7

\* A step of mallocgc after it has got its slot: it writes nothing but the type bits of the
\* slot, or the type of the span, and some words may become durable.
JobWrites(p) ==
  LET b == job[p].base
      t == job[p].typ
      i == spans[b].typIndex
  IN  /\ UNCHANGED <<spanLog, spans, cache, mode, cursor, typeMap, dTypeMap, typAssigns, numAssigned, prof, lost>>
      /\ \A c \in Page : dSpanLog'[c] = dSpanLog[c] \/ dSpanLog'[c] = spanLog[c]
      /\ \A g \in Granule : dTypeLog'[g] = dTypeLog[g] \/ dTypeLog'[g] = typeLog'[g]
      /\ \A g \in Granule : heapBits'[g] = heapBits[g] \/ g \in JobCells(p)
      /\ i = 0 => \A g \in Granule : typeLog'[g] = typeLog[g] \/ g \in JobCells(p)
      /\ i # 0 => /\ \A g \in Granule : typeLog'[g] = typeLog[g] \/ g = b * G
                  /\ typeLog[b * G].idx = i => typeLog'[b * G].idx = i
                  /\ Described(typeLog[b * G], i, t, lost) => Described(typeLog'[b * G], i, t, lost)

\* If the index was lost, then the log need not describe the type of the object.
LEMMA AnyDescribed ==
  ASSUME NEW l, NEW i, NEW t, NEW u, NEW ns, i \in ns
  PROVE  Described(l, i, t, ns) <=> Described(l, i, u, ns)
BY DEF Described

\* Nor are the types of the indices touched.
LEMMA JobMap ==
  ASSUME IInv, LInv, NEW p \in P, job[p] # Idle, JobWrites(p)
  PROVE  MapInv' /\ Own' = Own /\ lost' = lost
<1>1. mode = "run" /\ UNCHANGED <<mode, typeMap, dTypeMap, typAssigns, numAssigned, prof, lost>>
  BY JobFacts DEF JobWrites
<1>2. QED
  BY <1>1, MapSame DEF LInv

\* Spans in use have no granule in common.
LEMMA UsedApart ==
  ASSUME IInv, NEW b \in Page, NEW c \in Page, spans[b] # NoSpan, spans[c] # NoSpan, b # c
  PROVE  GranulesOf(b, spans[b].npages) \cap GranulesOf(c, spans[c].npages) = {}
<1>1. /\ Taken(b) = spans[b].npages /\ Taken(b) >= 1 /\ Taken(b) \in Nat /\ b \in Nat
      /\ Taken(c) = spans[c].npages /\ Taken(c) >= 1 /\ Taken(c) \in Nat /\ c \in Nat
  BY TakenFacts
<1>2. (b < c => b + Taken(b) <= c) /\ (c < b => c + Taken(c) <= b)
  BY <1>1 DEF IInv, ApartInv
<1>3. b + spans[b].npages <= c \/ c + spans[c].npages <= b
  BY <1>1, <1>2
<1>4. CASE b + spans[b].npages <= c
  BY <1>1, <1>4, SpansApart
<1>5. CASE c + spans[c].npages <= b
  <2>1. GranulesOf(c, spans[c].npages) \cap GranulesOf(b, spans[b].npages) = {}
    BY <1>1, <1>5, SpansApart
  <2>2. QED
    BY <2>1
<1>6. QED
  BY <1>3, <1>4, <1>5

\* The first granule of a span is one of its granules.
LEMMA FirstInside ==
  ASSUME NEW b \in Page, NEW s, GoodSpan(s, b)
  PROVE  b * G \in GranulesOf(b, s.npages)
<1> DEFINE k == 0
<1>1. k \in Slots(s) /\ ElemSize(s) \in Nat
  BY SpanFacts DEF GoodSpan
<1>2. b * G \in Nat
  <2>1. b \in Nat /\ G \in Nat
    BY Consts
  <2>2. QED
    BY <2>1
<1>3. b * G + k * ElemSize(s) = b * G
  BY <1>1, <1>2
<1> HIDE DEF k
<1>4. b * G + k * ElemSize(s) \in GranulesOf(b, s.npages)
  BY <1>1, SlotInside
<1>5. QED
  BY <1>3, <1>4

\* What such a step leaves alone.
LEMMA WriteFrame ==
  ASSUME IInv, LInv, NEW p \in P, job[p] # Idle, JobWrites(p), NEW c \in Page, spans[c] # NoSpan
  PROVE  /\ \A l \in Slots(spans[c]) : c # job[p].base \/ l # job[p].slot =>
              /\ \A g \in Cells(c, ElemSize(spans[c]), l) : heapBits'[g] = heapBits[g]
              /\ spans[c].typIndex = 0 => \A g \in Cells(c, ElemSize(spans[c]), l) : typeLog'[g] = typeLog[g]
         /\ spans[c].typIndex # 0 =>
              /\ typeLog[c * G].idx = spans[c].typIndex => typeLog'[c * G].idx = spans[c].typIndex
              /\ \A u : /\ <<u, spans[c].typIndex>> \in Own /\ SpanClassOf(u) = spans[c].spanclass
                       /\ Described(typeLog[c * G], spans[c].typIndex, u, lost)
                       => Described(typeLog'[c * G], spans[c].typIndex, u, lost)
<1> DEFINE b == job[p].base
           t == job[p].typ
           k == job[p].slot
           C == JobCells(p)
<1>1. /\ b \in Page /\ spans[b] # NoSpan /\ k \in Slots(spans[b]) /\ GoodSpan(spans[b], b)
      /\ C = Cells(b, ElemSize(spans[b]), k)
  BY JobFacts DEF JobCells
<1>2. GoodSpan(spans[c], c)
  BY DEF IInv, SpanInv
<1>3. C \subseteq GranulesOf(b, spans[b].npages)
  BY <1>1, SlotInside
<1>4. /\ \A g \in Granule : heapBits'[g] = heapBits[g] \/ g \in C
      /\ spans[b].typIndex = 0 => \A g \in Granule : typeLog'[g] = typeLog[g] \/ g \in C
      /\ spans[b].typIndex # 0 =>
           /\ \A g \in Granule : typeLog'[g] = typeLog[g] \/ g = b * G
           /\ typeLog[b * G].idx = spans[b].typIndex => typeLog'[b * G].idx = spans[b].typIndex
           /\ Described(typeLog[b * G], spans[b].typIndex, t, lost)
                => Described(typeLog'[b * G], spans[b].typIndex, t, lost)
  BY DEF JobWrites
<1>5. /\ spans[b].typIndex # 0 => <<t, spans[b].typIndex>> \in Own
      /\ SpanClassOf(t) = spans[b].spanclass
  BY DEF LInv, LogInv, LogOk
<1>6. c * G \in Granule /\ c * G \in GranulesOf(c, spans[c].npages) /\ b * G \in GranulesOf(b, spans[b].npages)
  BY <1>1, <1>2, FirstGranule, FirstInside
<1>7. c # b => GranulesOf(b, spans[b].npages) \cap GranulesOf(c, spans[c].npages) = {}
  BY <1>1, UsedApart
<1> HIDE DEF C
<1>8. ASSUME NEW l \in Slots(spans[c]), c # b \/ l # k
      PROVE  /\ \A g \in Cells(c, ElemSize(spans[c]), l) : heapBits'[g] = heapBits[g]
             /\ spans[c].typIndex = 0 => \A g \in Cells(c, ElemSize(spans[c]), l) : typeLog'[g] = typeLog[g]
  <2> DEFINE D == Cells(c, ElemSize(spans[c]), l)
  <2>1. D \cap C = {}
    BY <1>1, <1>8, CellsApart
  <2>2. D \subseteq Granule /\ D \subseteq GranulesOf(c, spans[c].npages)
    BY <1>2, SlotInside
  <2> HIDE DEF D
  <2>3. \A g \in D : heapBits'[g] = heapBits[g]
    BY <2>1, <2>2, <1>4
  <2>4. ASSUME spans[c].typIndex = 0
        PROVE  \A g \in D : typeLog'[g] = typeLog[g]
    <3>1. CASE spans[b].typIndex = 0
      BY <3>1, <2>1, <2>2, <1>4
    <3>2. CASE spans[b].typIndex # 0
      <4>1. b * G \notin D
        BY <3>2, <2>2, <2>4, <1>6, <1>7
      <4>2. QED
        BY <3>2, <4>1, <2>2, <1>4
    <3>3. QED
      BY <3>1, <3>2
  <2>5. QED
    BY <2>3, <2>4 DEF D
<1>9. ASSUME spans[c].typIndex # 0
      PROVE  /\ typeLog[c * G].idx = spans[c].typIndex => typeLog'[c * G].idx = spans[c].typIndex
             /\ \A u : /\ <<u, spans[c].typIndex>> \in Own /\ SpanClassOf(u) = spans[c].spanclass
                      /\ Described(typeLog[c * G], spans[c].typIndex, u, lost)
                      => Described(typeLog'[c * G], spans[c].typIndex, u, lost)
  <2>1. CASE c = b
    <3>1. ASSUME NEW u, <<u, spans[b].typIndex>> \in Own, SpanClassOf(u) = spans[b].spanclass,
                 Described(typeLog[b * G], spans[b].typIndex, u, lost)
          PROVE  Described(typeLog'[b * G], spans[b].typIndex, u, lost)
      <4>1. CASE spans[b].typIndex \in lost
        BY <4>1, <3>1, <2>1, <1>4, <1>9, AnyDescribed
      <4>2. CASE spans[b].typIndex \notin lost
        <5>1. u = t
          BY <4>2, <3>1, <2>1, <1>5, <1>9, OwnOne DEF LInv
        <5>2. QED
          BY <5>1, <3>1, <2>1, <1>4, <1>9
      <4>3. QED
        BY <4>1, <4>2
    <3>2. QED
      BY <2>1, <3>1, <1>4, <1>9
  <2>2. CASE c # b
    <3>1. c * G \notin C /\ c * G # b * G
      BY <2>2, <1>3, <1>6, <1>7
    <3>2. typeLog'[c * G] = typeLog[c * G]
      BY <3>1, <1>4, <1>6
    <3>3. QED
      BY <3>2
  <2>3. QED
    BY <2>1, <2>2
<1>10. QED
  BY <1>8, <1>9

\* So a span that was ready is ready,
LEMMA WriteReady ==
  ASSUME IInv, LInv, NEW p \in P, job[p] # Idle, JobWrites(p), NEW c \in Page, spans[c] # NoSpan, Ready(c)
  PROVE  Ready(c)'
<1>1. /\ Entry(spanLog[c], spans[c]) /\ Entry(dSpanLog[c], spans[c])
      /\ spanLog' = spanLog /\ spans' = spans /\ (dSpanLog'[c] = dSpanLog[c] \/ dSpanLog'[c] = spanLog[c])
  BY DEF Ready, JobWrites
<1>2. TypeLogged(spans[c], typeLog'[c * G], dTypeLog'[c * G], Own, lost)
  <2> SUFFICES ASSUME spans[c].typIndex # 0
               PROVE  \E t \in Type : /\ <<t, spans[c].typIndex>> \in Own /\ SpanClassOf(t) = spans[c].spanclass
                                      /\ Described(typeLog'[c * G], spans[c].typIndex, t, lost)
                                      /\ Described(dTypeLog'[c * G], spans[c].typIndex, t, lost)
    BY DEF TypeLogged
  <2>1. PICK t \in Type : /\ <<t, spans[c].typIndex>> \in Own /\ SpanClassOf(t) = spans[c].spanclass
                          /\ Described(typeLog[c * G], spans[c].typIndex, t, lost)
                          /\ Described(dTypeLog[c * G], spans[c].typIndex, t, lost)
    BY DEF Ready, TypeLogged
  <2>2. Described(typeLog'[c * G], spans[c].typIndex, t, lost)
    BY <2>1, WriteFrame
  <2>3. dTypeLog'[c * G] = dTypeLog[c * G] \/ dTypeLog'[c * G] = typeLog'[c * G]
    BY FirstGranule DEF JobWrites
  <2>4. QED
    BY <2>1, <2>2, <2>3
<1>3. QED
  BY <1>1, <1>2, JobMap DEF Ready

\* a reachable object is kept,
LEMMA WriteKept ==
  ASSUME IInv, LInv, NEW p \in P, job[p] # Idle, JobWrites(p),
         NEW o \in live, NEW c \in Page, NEW l, NEW e, NEW i, Kept(o, c, l, e, i)
  PROVE  Kept(o, c, l, e, i)'
<1>1. /\ spanLog' = spanLog /\ spans' = spans /\ mode' = mode /\ mode = "run"
      /\ dSpanLog'[c] = dSpanLog[c] \/ dSpanLog'[c] = spanLog[c]
      /\ \A g \in Granule : dTypeLog'[g] = dTypeLog[g] \/ dTypeLog'[g] = typeLog'[g]
  BY JobFacts DEF JobWrites
<1>2. /\ spans[c] # NoSpan /\ l \in Slots(spans[c]) /\ e = ElemSize(spans[c]) /\ GoodSpan(spans[c], c)
      /\ c # job[p].base \/ l # job[p].slot
  <2>1. spans[c] # NoSpan /\ l \in Slots(spans[c]) /\ e = ElemSize(spans[c]) /\ GoodSpan(spans[c], c)
    BY <1>1, KeptFacts
  <2>2. c # job[p].base \/ l # job[p].slot
    BY <1>1, KeptApart
  <2>3. QED
    BY <2>1, <2>2
<1> DEFINE D == Cells(c, e, l)
<1>3. D \subseteq Granule /\ c * G \in Granule
  BY <1>2, CellsInside, FirstGranule
<1>4. /\ \A g \in D : heapBits'[g] = heapBits[g]
      /\ spans[c].typIndex = 0 => \A g \in D : typeLog'[g] = typeLog[g]
  BY <1>2, WriteFrame
<1>5. spans[c].typIndex # 0 =>
        \A u : /\ <<u, spans[c].typIndex>> \in Own /\ SpanClassOf(u) = spans[c].spanclass
              /\ Described(typeLog[c * G], spans[c].typIndex, u, lost)
              => Described(typeLog'[c * G], spans[c].typIndex, u, lost)
  BY <1>2, WriteFrame
<1>13. Own' = Own /\ lost' = lost
  BY JobMap
<1>6. /\ EntryOk(spanLog[c], o, c, l, e, i) /\ EntryOk(dSpanLog[c], o, c, l, e, i)
      /\ BitsOk(typeLog, o, c, l, e, i, lost) /\ BitsOk(dTypeLog, o, c, l, e, i, lost)
      /\ i = 0 \/ <<o.typ, i>> \in Own
      /\ MemOk(o, c, l, e, i)
  BY <1>1 DEF Kept
<1>7. spans[c].typIndex = i /\ spans[c].spanclass = SpanClassOf(o.typ)
  BY <1>6 DEF MemOk
<1>8. EntryOk(spanLog'[c], o, c, l, e, i) /\ EntryOk(dSpanLog'[c], o, c, l, e, i)
  BY <1>1, <1>6
<1>9. BitsOk(typeLog', o, c, l, e, i, lost)
  BY <1>4, <1>5, <1>6, <1>7 DEF BitsOk
<1>10. BitsOk(dTypeLog', o, c, l, e, i, lost)
  <2>1. CASE o.typ \in NoScan
    BY <2>1 DEF BitsOk
  <2>2. CASE o.typ \notin NoScan /\ i # 0
    BY <2>2, <1>1, <1>3, <1>6, <1>9 DEF BitsOk
  <2>3. CASE o.typ \notin NoScan /\ i = 0
    BY <2>3, <1>1, <1>3, <1>6, <1>9 DEF BitsOk
  <2>4. QED
    BY <2>1, <2>2, <2>3
<1>11. MemOk(o, c, l, e, i)'
  BY <1>1, <1>4, <1>6, <1>13 DEF MemOk
<1>12. QED
  BY <1>6, <1>8, <1>9, <1>10, <1>11, <1>13 DEF Kept

\* and what other processors have logged stays logged.
LEMMA WriteLog ==
  ASSUME IInv, LInv, NEW p \in P, job[p] # Idle, JobWrites(p),
         NEW q \in P, q # p, job[q] # Idle, job'[q] = job[q]
  PROVE  LogOk(q)'
<1> DEFINE c == job[q].base
           u == job[q].typ
           l == job[q].slot
<1>1. spanLog' = spanLog /\ spans' = spans
  BY DEF JobWrites
<1>2. /\ c \in Page /\ spans[c] # NoSpan /\ l \in Slots(spans[c]) /\ GoodSpan(spans[c], c)
      /\ JobCells(q) = Cells(c, ElemSize(spans[c]), l)
  BY JobFacts DEF JobCells
<1>3. c # job[p].base \/ l # job[p].slot
  BY DEF IInv, JobInv
<1>4. JobCells(q)' = JobCells(q)
  BY <1>1 DEF JobCells
<1>5. /\ spans[c].spanclass = SpanClassOf(u)
      /\ spans[c].typIndex # 0 => <<u, spans[c].typIndex>> \in Own
      /\ IF job[q].new THEN Entry(spanLog[c], spans[c]) ELSE Ready(c)
      /\ job[q].pc \in {"fence", "return"} <=> u \in NoScan
      /\ job[q].pc = "return" => ~job[q].new
      /\ job[q].pc \in {"meta", "persist"} => \A g \in JobCells(q) : heapBits[g] = u
      /\ job[q].pc = "meta" => spans[c].typIndex # 0 /\ typeLog[c * G].idx = spans[c].typIndex
      /\ job[q].pc = "persist" => IF spans[c].typIndex # 0 THEN Described(typeLog[c * G], spans[c].typIndex, u, lost)
                                  ELSE \A g \in JobCells(q) : typeLog[g] = RawLog(u)
  BY DEF LInv, LogInv, LogOk
<1> DEFINE D == JobCells(q)
<1>6. /\ \A g \in D : heapBits'[g] = heapBits[g]
      /\ spans[c].typIndex = 0 => \A g \in D : typeLog'[g] = typeLog[g]
  <2> DEFINE E == Cells(c, ElemSize(spans[c]), l)
  <2>1. /\ \A g \in E : heapBits'[g] = heapBits[g]
        /\ spans[c].typIndex = 0 => \A g \in E : typeLog'[g] = typeLog[g]
    BY <1>2, <1>3, WriteFrame, Zenon
  <2>2. D = E
    BY <1>2
  <2> HIDE DEF D, E
  <2> QED BY <2>1, <2>2
<1>7. spans[c].typIndex # 0 =>
         /\ typeLog[c * G].idx = spans[c].typIndex => typeLog'[c * G].idx = spans[c].typIndex
         /\ \A w : /\ <<w, spans[c].typIndex>> \in Own /\ SpanClassOf(w) = spans[c].spanclass
                  /\ Described(typeLog[c * G], spans[c].typIndex, w, lost)
                  => Described(typeLog'[c * G], spans[c].typIndex, w, lost)
  BY <1>2, WriteFrame
<1>15. Own' = Own /\ lost' = lost
  BY JobMap
<1>8. ~job[q].new => Ready(job[q].base)'
  <2>1. ASSUME ~job[q].new
        PROVE  Ready(job[q].base)'
    <3>1. PICK d \in Page : d = c
      BY <1>2
    <3>2. Ready(d) /\ spans[d] # NoSpan
      BY <2>1, <3>1, <1>2, <1>5
    <3>3. Ready(d)'
      BY <3>2, WriteReady
    <3>4. Ready(job[q].base)' <=> Ready(d)'
      BY <3>1 DEF Ready
    <3>5. QED
      BY <3>3, <3>4
  <2>2. QED
    BY <2>1
<1> DEFINE w == job'[q].base
<1>9. w = c /\ job'[q].typ = u /\ spans'[w] = spans[c]
  BY <1>1
<1>10. IF job'[q].new THEN Entry(spanLog'[w], spans'[w]) ELSE Ready(job[q].base)'
  BY <1>1, <1>5, <1>8, <1>9
<1>11. job'[q].pc \in {"meta", "persist"} => \A g \in JobCells(q)' : heapBits'[g] = job'[q].typ
  BY <1>4, <1>5, <1>6
<1>12. job'[q].pc = "meta" => spans'[w].typIndex # 0 /\ typeLog'[w * G].idx = spans'[w].typIndex
  BY <1>5, <1>7, <1>9
<1>13. job'[q].pc = "persist" => IF spans'[w].typIndex # 0 THEN Described(typeLog'[w * G], spans'[w].typIndex, job'[q].typ, lost')
                                 ELSE \A g \in JobCells(q)' : typeLog'[g] = RawLog(job'[q].typ)
  BY <1>4, <1>5, <1>6, <1>7, <1>9, <1>15
<1>16. spans'[w].typIndex # 0 => <<job'[q].typ, spans'[w].typIndex>> \in Own'
  BY <1>5, <1>9, <1>15
<1>14. QED
  BY <1>1, <1>5, <1>9, <1>10, <1>11, <1>12, <1>13, <1>16 DEF LogOk

\* mallocgc goes on.
LEMMA GotoLive ==
  ASSUME IInv, LInv, NEW p \in P, job[p] # Idle, JobWrites(p), live' = live,
         job'[p] # Idle, job'[p].base = job[p].base, job'[p].slot = job[p].slot,
         \A q \in P : q # p => job'[q] = job[q], LogOk(p)'
  PROVE  LInv'
<1>1. UNCHANGED <<spans, cache, mode>> /\ mode = "run"
  BY JobFacts DEF JobWrites
<1>2. LiveInv'
  <2>1. \A o \in live : \E c \in Page : \E l, e \in Nat : \E i \in 0..(MaxCacheTypes - 1) : Kept(o, c, l, e, i)'
    BY WriteKept DEF LInv, LiveInv
  <2>2. \A q \in P : job'[q] # Idle => job[q] # Idle /\ job'[q].base = job[q].base /\ job'[q].slot = job[q].slot
    OBVIOUS
  <2>3. \A q \in P, o \in live : job'[q] # Idle => o.at # SlotBase(job[q].base, job[q].slot)'
    BY <2>2, <1>1 DEF LInv, LiveInv, SlotBase
  <2>4. \A o1, o2 \in live : o1.at = o2.at => o1 = o2
    BY DEF LInv, LiveInv
  <2>5. QED
    BY <2>1, <2>3, <2>4 DEF LiveInv
<1>3. CacheInv'
  <2>1. cache \in [P -> SUBSET Page]
    BY DEF IInv, TypeOK
  <2>2. ASSUME NEW q \in P, NEW c \in cache[q]
        PROVE  spans'[c] # NoSpan /\ (job'[q] = Idle \/ job'[q].base # c => Ready(c)')
    <3>1. c \in Page /\ spans[c] # NoSpan /\ (job[q] = Idle \/ job[q].base # c => Ready(c))
      BY <2>1 DEF LInv, CacheInv
    <3>2. job'[q] = Idle \/ job'[q].base # c => job[q] = Idle \/ job[q].base # c
      OBVIOUS
    <3>3. Ready(c) => Ready(c)'
      BY <3>1, WriteReady
    <3>4. QED
      BY <3>1, <3>2, <3>3, <1>1
  <2>3. QED
    BY <2>2, <1>1 DEF CacheInv
<1>4. LogInv'
  BY WriteLog DEF LogInv
<1>5. QED
  BY <1>2, <1>3, <1>4, JobMap DEF LInv

\* mallocgc returns the object, and all that the next run needs of it is durable.
LEMMA ReturnLive ==
  ASSUME IInv, LInv, NEW p \in P, job[p] # Idle, JobWrites(p), Return(p),
         NEW b, NEW k, NEW t, NEW s, b = job[p].base, k = job[p].slot, t = job[p].typ, s = spans[b],
         Entry(spanLog[b], s), Entry(dSpanLog'[b], s),
         s.typIndex # 0 => /\ Described(typeLog'[b * G], s.typIndex, t, lost)
                           /\ Described(dTypeLog'[b * G], s.typIndex, t, lost),
         s.typIndex = 0 /\ t \notin NoScan =>
           \A g \in JobCells(p) : typeLog'[g] = RawLog(t) /\ dTypeLog'[g] = RawLog(t),
         t \notin NoScan => \A g \in JobCells(p) : heapBits'[g] = t
  PROVE  LInv'
<1>1. UNCHANGED <<spans, spanLog, cache, mode, cursor, lost, Own>> /\ mode = "run"
  BY JobFacts, JobMap DEF JobWrites
<1>2. /\ b \in Page /\ s # NoSpan /\ k \in s.alloc /\ k \in Slots(s) /\ GoodSpan(s, b) /\ t \in Type
      /\ JobCells(p) = Cells(b, ElemSize(s), k)
  BY JobFacts DEF JobCells
<1>3. s.spanclass = SpanClassOf(t) /\ (s.typIndex # 0 => <<t, s.typIndex>> \in Own)
  BY DEF LInv, LogInv, LogOk
<1>4. job \in [P -> JobSet]
  BY DEF IInv, SpanInv
<1> DEFINE n == [typ |-> t, at |-> b * G + k * ElemSize(s)]
<1>5. live' = live \cup {n} /\ n.typ = t /\ n.at = b * G + k * ElemSize(s)
  BY SlotIs DEF Return
<1>6. job'[p] = Idle /\ \A q \in P : q # p => job'[q] = job[q]
  BY <1>4 DEF Return
<1> HIDE DEF n
<1>7. /\ k \in Nat /\ ElemSize(s) \in Nat /\ s.typIndex \in 0..(MaxCacheTypes - 1)
  BY <1>2, SpanFacts DEF GoodSpan, SpanSet
<1>8. Kept(n, b, k, ElemSize(s), s.typIndex)'
  <2> DEFINE e == ElemSize(s)
             i == s.typIndex
  <2>1. /\ spanLog[b] # 0 /\ CreateSpan(spanLog[b]).npages = s.npages
        /\ dSpanLog'[b] # 0 /\ CreateSpan(dSpanLog'[b]).npages = s.npages
    <3>1. /\ spanLog[b] # 0 => CreateSpan(spanLog[b]).npages = s.npages
          /\ dSpanLog[b] # 0 => CreateSpan(dSpanLog[b]).npages = s.npages
      BY <1>1, <1>2, EntryPages
    <3>2. dSpanLog'[b] = dSpanLog[b] \/ dSpanLog'[b] = spanLog[b]
      BY <1>2 DEF JobWrites
    <3>3. QED
      BY <3>1, <3>2 DEF Entry
  <2>2. ASSUME NEW v, Entry(v, s), CreateSpan(v).npages = s.npages
        PROVE  EntryOk(v, n, b, k, e, i)
    <3>1. CreateSpan(v).spanclass = s.spanclass /\ v # 0 /\ (CreateSpan(v).opt = 1 <=> s.typIndex # 0)
      BY <2>2 DEF Entry
    <3>2. ElemSize(CreateSpan(v)) = ElemSize(s) /\ Slots(CreateSpan(v)) = Slots(s)
      BY <3>1, <2>2, SameSlots
    <3>3. QED
      BY <3>1, <3>2, <1>2, <1>3, <1>5 DEF EntryOk
  <2>3. EntryOk(spanLog'[b], n, b, k, e, i) /\ EntryOk(dSpanLog'[b], n, b, k, e, i)
    BY <2>1, <2>2, <1>1
  <2>4. BitsOk(typeLog', n, b, k, e, i, lost) /\ BitsOk(dTypeLog', n, b, k, e, i, lost)
    BY <1>2, <1>5 DEF BitsOk
  <2>5. MemOk(n, b, k, e, i)'
    BY <1>1, <1>2, <1>3, <1>5 DEF MemOk
  <2>6. i = 0 \/ <<n.typ, i>> \in Own
    BY <1>3, <1>5
  <2>7. QED
    BY <2>3, <2>4, <2>5, <2>6, <1>1 DEF Kept
<1>9. LiveInv'
  <2>1. \A o \in live' : \E c \in Page : \E l, e \in Nat : \E i \in 0..(MaxCacheTypes - 1) : Kept(o, c, l, e, i)'
    <3>1. ASSUME NEW o \in live
          PROVE  \E c \in Page : \E l, e \in Nat : \E i \in 0..(MaxCacheTypes - 1) : Kept(o, c, l, e, i)'
      BY WriteKept DEF LInv, LiveInv
    <3>2. \E c \in Page : \E l, e \in Nat : \E i \in 0..(MaxCacheTypes - 1) : Kept(n, c, l, e, i)'
      BY <1>2, <1>7, <1>8
    <3>3. QED
      BY <3>1, <3>2, <1>5
  <2>2. \A o \in live : o.at # n.at
    BY <1>5, SlotIs DEF LInv, LiveInv
  <2>3. \A o1, o2 \in live : o1.at = o2.at => o1 = o2
    BY DEF LInv, LiveInv
  <2>4. \A o1, o2 \in live' : o1.at = o2.at => o1 = o2
    BY <2>2, <2>3, <1>5
  <2>5. ASSUME NEW q \in P, NEW o \in live', job'[q] # Idle
        PROVE  o.at # SlotBase(job[q].base, job[q].slot)'
    <3>1. q # p /\ job'[q] = job[q] /\ job[q] # Idle
      BY <2>5, <1>6
    <3>2. SlotBase(job[q].base, job[q].slot)' = SlotBase(job[q].base, job[q].slot)
      BY <3>1, <1>1 DEF SlotBase
    <3>3. CASE o \in live
      BY <3>1, <3>2, <3>3 DEF LInv, LiveInv
    <3>4. CASE o = n
      <4> DEFINE c == job[q].base
                 r == spans[c]
                 l == job[q].slot
      <4>1. c \in Page /\ r # NoSpan /\ l \in Slots(r) /\ GoodSpan(r, c)
        BY <3>1, JobFacts
      <4>2. b # c \/ k # l
        BY <3>1 DEF IInv, JobInv
      <4>3. SlotBase(c, l) = First(c, ElemSize(r), l) /\ n.at = First(b, ElemSize(s), k)
        BY <1>5, SlotIs DEF First
      <4>4. ApartIn(s, b, k, r, c, l)
        <5>1. CASE b = c
          BY <5>1, <4>2 DEF ApartIn
        <5>2. CASE b # c
          <6>1. /\ Taken(b) = s.npages /\ Taken(b) >= 1 /\ Taken(b) \in Nat /\ b \in Nat
                /\ Taken(c) = r.npages /\ Taken(c) >= 1 /\ Taken(c) \in Nat /\ c \in Nat
            BY <1>2, <4>1, TakenFacts
          <6>2. (b < c => b + Taken(b) <= c) /\ (c < b => c + Taken(c) <= b)
            BY <6>1, <1>2, <4>1 DEF IInv, ApartInv
          <6>3. b + s.npages <= c \/ c + r.npages <= b
            BY <6>1, <6>2, <5>2
          <6>4. QED
            BY <5>2, <6>3 DEF ApartIn
        <5>3. QED
          BY <5>1, <5>2
      <4> HIDE DEF c, r, l
      <4>5. First(b, ElemSize(s), k) # First(c, ElemSize(r), l)
        BY <4>1, <4>4, <1>2, GoodApart
      <4>6. o.at # SlotBase(c, l)
        BY <4>3, <4>5, <3>4
      <4>7. QED
        BY <4>6, <3>2 DEF c, l
    <3>5. QED
      BY <3>3, <3>4, <1>5
  <2>6. QED
    BY <2>1, <2>4, <2>5 DEF LiveInv
<1>10. CacheInv'
  <2>1. cache \in [P -> SUBSET Page]
    BY DEF IInv, TypeOK
  <2>2. ASSUME NEW q \in P, NEW c \in cache[q]
        PROVE  spans'[c] # NoSpan /\ (job'[q] = Idle \/ job'[q].base # c => Ready(c)')
    <3>1. c \in Page /\ spans[c] # NoSpan /\ (job[q] = Idle \/ job[q].base # c => Ready(c))
      BY <2>1 DEF LInv, CacheInv
    <3>2. Ready(c) => Ready(c)'
      BY <3>1, WriteReady
    <3>3. CASE q # p
      BY <3>1, <3>2, <3>3, <1>1, <1>6
    <3>4. CASE q = p /\ c # b
      BY <3>1, <3>2, <3>4, <1>1
    <3>5. CASE c = b
      <4>1. Entry(spanLog'[c], spans'[c]) /\ Entry(dSpanLog'[c], spans'[c])
        BY <3>5, <1>1
      <4>2. TypeLogged(spans'[c], typeLog'[c * G], dTypeLog'[c * G], Own', lost')
        BY <3>5, <1>1, <1>2, <1>3 DEF TypeLogged
      <4>3. Ready(c)'
        BY <4>1, <4>2 DEF Ready
      <4>4. QED
        BY <4>3, <3>1, <1>1
    <3>6. QED
      BY <3>3, <3>4, <3>5
  <2>3. QED
    BY <2>2, <1>1 DEF CacheInv
<1>11. LogInv'
  BY <1>6, WriteLog DEF LogInv
<1>12. QED
  BY <1>9, <1>10, <1>11, JobMap DEF LInv

\* What a step of mallocgc after it has got its slot reads.
LEMMA LogFactsOf ==
  ASSUME LInv, NEW p \in P, job[p] # Idle, NEW b, NEW t, NEW s, b = job[p].base, t = job[p].typ, s = spans[b]
  PROVE  /\ s.spanclass = SpanClassOf(t)
         /\ s.typIndex # 0 => <<t, s.typIndex>> \in Own
         /\ IF job[p].new THEN Entry(spanLog[b], s) ELSE Ready(b)
         /\ Entry(spanLog[b], s)
         /\ job[p].pc \in {"fence", "return"} <=> t \in NoScan
         /\ job[p].pc = "return" => ~job[p].new
         /\ job[p].pc \in {"meta", "persist"} => \A g \in JobCells(p) : heapBits[g] = t
         /\ job[p].pc = "meta" => s.typIndex # 0 /\ typeLog[b * G].idx = s.typIndex
         /\ job[p].pc = "persist" => IF s.typIndex # 0 THEN Described(typeLog[b * G], s.typIndex, t, lost)
                                     ELSE \A g \in JobCells(p) : typeLog[g] = RawLog(t)
<1>1. LogOk(p)
  BY DEF LInv, LogInv
<1>2. /\ s.spanclass = SpanClassOf(t)
      /\ s.typIndex # 0 => <<t, s.typIndex>> \in Own
      /\ IF job[p].new THEN Entry(spanLog[b], s) ELSE Ready(b)
      /\ job[p].pc \in {"fence", "return"} <=> t \in NoScan
      /\ job[p].pc = "return" => ~job[p].new
      /\ job[p].pc \in {"meta", "persist"} => \A g \in JobCells(p) : heapBits[g] = t
      /\ job[p].pc = "meta" => s.typIndex # 0 /\ typeLog[b * G].idx = s.typIndex
      /\ job[p].pc = "persist" => IF s.typIndex # 0 THEN Described(typeLog[b * G], s.typIndex, t, lost)
                                  ELSE \A g \in JobCells(p) : typeLog[g] = RawLog(t)
  BY <1>1 DEF LogOk
<1>3. Entry(spanLog[b], s)
  BY <1>2 DEF Ready
<1>4. QED
  BY <1>2, <1>3

\* The job goes on with another program counter.
LEMMA GotoFacts ==
  ASSUME IInv, NEW p \in P, job[p] # Idle, NEW pc \in {"meta", "persist"}, Goto(p, pc)
  PROVE  /\ job'[p] # Idle /\ job'[p].pc = pc /\ job'[p].base = job[p].base /\ job'[p].slot = job[p].slot
         /\ job'[p].typ = job[p].typ /\ job'[p].new = job[p].new
         /\ \A q \in P : q # p => job'[q] = job[q]
<1>1. /\ job \in [P -> JobSet]
      /\ job[p] \in [pc : {"bits", "meta", "persist", "fence", "return"}, typ : Type, base : Page,
                     slot : Granule, new : BOOLEAN]
  BY JobFacts DEF IInv, SpanInv
<1>2. job' = [job EXCEPT ![p] = [job[p] EXCEPT !.pc = pc]]
  BY <1>1 DEF Goto
<1>3. job'[p] = [job[p] EXCEPT !.pc = pc] /\ \A q \in P : q # p => job'[q] = job[q]
  BY <1>1, <1>2
<1>4. /\ job'[p].pc = pc /\ job'[p].base = job[p].base /\ job'[p].slot = job[p].slot
      /\ job'[p].typ = job[p].typ /\ job'[p].new = job[p].new
  BY <1>1, <1>3
<1>5. job'[p] # Idle
  BY <1>4 DEF Idle
<1>6. QED
  BY <1>3, <1>4, <1>5

\* The log of p after such a step.
LEMMA GotoLog ==
  ASSUME IInv, LInv, NEW p \in P, job[p] # Idle, JobWrites(p), NEW pc \in {"meta", "persist"}, Goto(p, pc),
         NEW b, NEW t, NEW s, b = job[p].base, t = job[p].typ, s = spans[b], t \notin NoScan,
         \A g \in JobCells(p) : heapBits'[g] = t,
         pc = "meta" => s.typIndex # 0 /\ typeLog'[b * G].idx = s.typIndex,
         pc = "persist" => IF s.typIndex # 0 THEN Described(typeLog'[b * G], s.typIndex, t, lost)
                           ELSE \A g \in JobCells(p) : typeLog'[g] = RawLog(t)
  PROVE  LogOk(p)'
<1>1. /\ job'[p].pc = pc /\ job'[p].base = job[p].base /\ job'[p].slot = job[p].slot
      /\ job'[p].typ = job[p].typ /\ job'[p].new = job[p].new
  BY GotoFacts
<1>2. spans' = spans /\ spanLog' = spanLog /\ Own' = Own /\ lost' = lost
  BY JobMap DEF JobWrites
<1>3. JobCells(p)' = JobCells(p)
  BY <1>1, <1>2 DEF JobCells
<1>4. /\ s.spanclass = SpanClassOf(t)
      /\ s.typIndex # 0 => <<t, s.typIndex>> \in Own
      /\ IF job[p].new THEN Entry(spanLog[b], s) ELSE Ready(b)
  BY LogFactsOf
<1>5. b \in Page /\ s # NoSpan
  BY JobFacts
<1>6. ~job[p].new => Ready(b)'
  BY <1>4, <1>5, WriteReady
<1>7. Ready(b)' <=> Ready(job[p].base)'
  BY <1>1 DEF Ready
<1> DEFINE c == job'[p].base
<1>8. c = b /\ job'[p].typ = t /\ spans'[c] = s
  BY <1>1, <1>2
<1>9. IF job'[p].new THEN Entry(spanLog'[c], spans'[c]) ELSE Ready(job[p].base)'
  BY <1>1, <1>2, <1>4, <1>6, <1>7, <1>8
<1>10. /\ job'[p].pc \in {"fence", "return"} <=> t \in NoScan
       /\ job'[p].pc = "return" => ~job'[p].new
  BY <1>1
<1>11. /\ spans'[c].spanclass = SpanClassOf(job'[p].typ)
       /\ spans'[c].typIndex # 0 => <<job'[p].typ, spans'[c].typIndex>> \in Own'
  BY <1>2, <1>4, <1>8
<1>12. job'[p].pc \in {"meta", "persist"} => \A g \in JobCells(p)' : heapBits'[g] = job'[p].typ
  BY <1>3, <1>8
<1>13. job'[p].pc = "meta" => spans'[c].typIndex # 0 /\ typeLog'[c * G].idx = spans'[c].typIndex
  BY <1>1, <1>8
<1>14. job'[p].pc = "persist" => IF spans'[c].typIndex # 0 THEN Described(typeLog'[c * G], spans'[c].typIndex, job'[p].typ, lost')
                                 ELSE \A g \in JobCells(p)' : typeLog'[g] = RawLog(job'[p].typ)
  BY <1>1, <1>2, <1>3, <1>8
<1>15. QED
  BY <1>8, <1>9, <1>10, <1>11, <1>12, <1>13, <1>14 DEF LogOk

\* The type bits of an object are set, logged and made durable, and it is returned.
LEMMA JobLiveSteps ==
  ASSUME IInv, LInv, NEW p \in P,
         HeapBits(p) \/ LogMeta(p) \/ PersistBits(p) \/ FenceSpan(p) \/ ReturnNoScan(p)
  PROVE  LInv'
<1>0. job[p] # Idle
  BY DEF HeapBits, LogMeta, PersistBits, FenceSpan, ReturnNoScan, Idle
<1>1. PICK b \in Page : b = job[p].base
  BY <1>0, JobFacts
<1>2. PICK t \in Type : t = job[p].typ
  BY <1>0, JobFacts
<1>3. PICK k : k = job[p].slot
  OBVIOUS
<1>4. PICK s \in SpanSet : s = spans[b]
  BY <1>0, <1>1, JobFacts
<1>5. /\ typeLog \in [Granule -> LogSet] /\ dTypeLog \in [Granule -> LogSet]
      /\ heapBits \in [Granule -> Type \cup {None, Garbage}] /\ dSpanLog \in [Page -> Nat]
  BY DEF IInv, TypeOK
<1>6. b * G \in Granule /\ typeLog[b * G] \in LogSet
  BY <1>5, FirstGranule
<1>7. JobCells(p) \subseteq Granule /\ SlotGranules(b, k) = JobCells(p)
  <2>1. GoodSpan(spans[b], b) /\ k \in Slots(spans[b])
    BY <1>0, <1>1, <1>3, JobFacts
  <2>2. Cells(b, ElemSize(spans[b]), k) \subseteq Granule
    BY <2>1, CellsInside
  <2>3. QED
    BY <2>2, <1>1, <1>3, SlotIs DEF JobCells
<1>8. /\ s.typIndex # 0 => <<t, s.typIndex>> \in Own
      /\ SpanClassOf(t) = s.spanclass
      /\ IF job[p].new THEN Entry(spanLog[b], s) ELSE Ready(b)
      /\ Entry(spanLog[b], s)
      /\ job[p].pc \in {"fence", "return"} <=> t \in NoScan
      /\ job[p].pc = "return" => ~job[p].new
      /\ job[p].pc \in {"meta", "persist"} => \A g \in JobCells(p) : heapBits[g] = t
      /\ job[p].pc = "meta" => s.typIndex # 0 /\ typeLog[b * G].idx = s.typIndex
      /\ job[p].pc = "persist" => IF s.typIndex # 0 THEN Described(typeLog[b * G], s.typIndex, t, lost)
                                  ELSE \A g \in JobCells(p) : typeLog[g] = RawLog(t)
  BY <1>0, <1>1, <1>2, <1>4, LogFactsOf
<1>9. ~job[p].new => /\ Entry(dSpanLog[b], s)
                     /\ s.typIndex # 0 => /\ Described(typeLog[b * G], s.typIndex, t, lost)
                                       /\ Described(dTypeLog[b * G], s.typIndex, t, lost)
  <2>1. ASSUME ~job[p].new
        PROVE  /\ Entry(dSpanLog[b], s)
               /\ s.typIndex # 0 => /\ Described(typeLog[b * G], s.typIndex, t, lost)
                                       /\ Described(dTypeLog[b * G], s.typIndex, t, lost)
    <3>1. Ready(b)
      BY <1>8, <2>1
    <3>2. Entry(dSpanLog[b], s)
      BY <3>1, <1>4 DEF Ready
    <3>3. ASSUME s.typIndex # 0
          PROVE  Described(typeLog[b * G], s.typIndex, t, lost) /\ Described(dTypeLog[b * G], s.typIndex, t, lost)
      <4>1. PICK u \in Type : /\ <<u, s.typIndex>> \in Own /\ SpanClassOf(u) = s.spanclass
                              /\ Described(typeLog[b * G], s.typIndex, u, lost)
                              /\ Described(dTypeLog[b * G], s.typIndex, u, lost)
        BY <3>1, <3>3, <1>4 DEF Ready, TypeLogged
      <4>2. s.typIndex \notin lost => t = u
        BY <3>3, <4>1, <1>8, OwnOne DEF LInv
      <4>3. QED
        BY <4>1, <4>2, AnyDescribed
    <3>4. QED
      BY <3>2, <3>3
  <2>2. QED
    BY <2>1
<1>10. ASSUME HeapBits(p)
       PROVE  LInv'
  <2>1. /\ job[p].pc = "bits" /\ heapBits' = [g \in Granule |-> IF g \in JobCells(p) THEN t ELSE heapBits[g]]
        /\ UNCHANGED <<spanLog, typeMap, dSpanLog, dTypeLog, dTypeMap, mode, cursor, spans, cache,
                       typAssigns, numAssigned, prof, lost>>
    BY <1>10, <1>1, <1>2, <1>3, <1>7 DEF HeapBits, durable, recovery, heap, profile
  <2>2. \/ ~(job[p].new \/ s.typIndex = 0) /\ Return(p) /\ UNCHANGED typeLog
        \/ /\ s.typIndex = 0
           /\ typeLog' = [g \in Granule |-> IF g \in JobCells(p) THEN RawLog(t) ELSE typeLog[g]]
           /\ Goto(p, "persist") /\ UNCHANGED live
        \/ /\ s.typIndex # 0
           /\ typeLog' = [typeLog EXCEPT ![b * G].idx = s.typIndex]
           /\ Goto(p, "meta") /\ UNCHANGED live
    BY <1>10, <1>1, <1>2, <1>3, <1>4, <1>7 DEF HeapBits, ShouldLog, RawLog
  <2>3. t \notin NoScan
    BY <2>1, <1>8
  <2>4. /\ \A g \in JobCells(p) : heapBits'[g] = t
        /\ \A g \in Granule : heapBits'[g] = heapBits[g] \/ g \in JobCells(p)
    BY <2>1, <1>7
  <2>5. ASSUME ~job[p].new, s.typIndex # 0, Return(p), UNCHANGED typeLog
        PROVE  LInv'
    <3>1. JobWrites(p)
      BY <2>1, <2>4, <2>5 DEF JobWrites
    <3>2. Entry(dSpanLog'[b], s)
      BY <2>1, <2>5, <1>9
    <3>3. Described(typeLog'[b * G], s.typIndex, t, lost) /\ Described(dTypeLog'[b * G], s.typIndex, t, lost)
      BY <2>1, <2>5, <1>9
    <3>4. QED
      BY <3>1, <3>2, <3>3, <2>4, <2>5, <1>0, <1>1, <1>2, <1>3, <1>4, <1>8, ReturnLive
  <2>6. ASSUME s.typIndex = 0, Goto(p, "persist"), UNCHANGED live,
               typeLog' = [g \in Granule |-> IF g \in JobCells(p) THEN RawLog(t) ELSE typeLog[g]]
        PROVE  LInv'
    <3>1. /\ \A g \in JobCells(p) : typeLog'[g] = RawLog(t)
          /\ \A g \in Granule : typeLog'[g] = typeLog[g] \/ g \in JobCells(p)
      BY <2>6, <1>7
    <3>2. JobWrites(p)
      BY <2>1, <2>4, <2>6, <3>1, <1>1, <1>4 DEF JobWrites
    <3> DEFINE pc == "persist"
    <3>3. pc \in {"meta", "persist"} /\ Goto(p, pc) /\ pc = "persist" /\ pc # "meta"
      BY <2>6
    <3> HIDE DEF pc
    <3>4. LogOk(p)'
      BY <3>1, <3>2, <3>3, <2>3, <2>4, <2>6, <1>0, <1>1, <1>2, <1>4, GotoLog
    <3>5. /\ job'[p] # Idle /\ job'[p].base = job[p].base /\ job'[p].slot = job[p].slot
          /\ \A q \in P : q # p => job'[q] = job[q]
      BY <3>3, <1>0, GotoFacts
    <3>6. QED
      BY <3>2, <3>4, <3>5, <2>6, <1>0, GotoLive
  <2>7. ASSUME s.typIndex # 0, Goto(p, "meta"), UNCHANGED live,
               typeLog' = [typeLog EXCEPT ![b * G].idx = s.typIndex]
        PROVE  LInv'
    <3>1. typeLog' = [typeLog EXCEPT ![b * G] = [typeLog[b * G] EXCEPT !.idx = s.typIndex]]
      BY <2>7, <1>5, <1>6
    <3>2. /\ typeLog'[b * G] = [typeLog[b * G] EXCEPT !.idx = s.typIndex]
          /\ \A g \in Granule : typeLog'[g] = typeLog[g] \/ g = b * G
      BY <3>1, <1>5, <1>6
    <3>3. typeLog'[b * G].idx = s.typIndex
      BY <3>2, <1>6 DEF LogSet
    <3>4. Described(typeLog[b * G], s.typIndex, t, lost) => Described(typeLog'[b * G], s.typIndex, t, lost)
      <4>1. \A u \in Type : typeLog[b * G] = OptLog(s.typIndex, u) => typeLog'[b * G] = OptLog(s.typIndex, u)
        BY <3>2 DEF OptLog
      <4>2. QED
        BY <4>1 DEF Described
    <3>5. JobWrites(p)
      BY <2>1, <2>4, <2>7, <3>2, <3>3, <3>4, <1>1, <1>2, <1>4 DEF JobWrites
    <3> DEFINE pc == "meta"
    <3>6. pc \in {"meta", "persist"} /\ Goto(p, pc) /\ pc = "meta" /\ pc # "persist"
      BY <2>7
    <3> HIDE DEF pc
    <3>7. LogOk(p)'
      BY <3>3, <3>5, <3>6, <2>3, <2>4, <2>7, <1>0, <1>1, <1>2, <1>4, GotoLog
    <3>8. /\ job'[p] # Idle /\ job'[p].base = job[p].base /\ job'[p].slot = job[p].slot
          /\ \A q \in P : q # p => job'[q] = job[q]
      BY <3>6, <1>0, GotoFacts
    <3>9. QED
      BY <3>5, <3>7, <3>8, <2>7, <1>0, GotoLive
  <2>8. QED
    BY <2>2, <2>5, <2>6, <2>7
<1>11. ASSUME LogMeta(p)
       PROVE  LInv'
  <2>1. /\ job[p].pc = "meta" /\ typeLog' = [typeLog EXCEPT ![b * G].bits = <<"opt", t>>] /\ Goto(p, "persist")
        /\ UNCHANGED <<spanLog, typeMap, dSpanLog, dTypeLog, dTypeMap, mode, cursor, spans, cache,
                       heapBits, typAssigns, numAssigned, prof, lost, live>>
    BY <1>11, <1>1, <1>2 DEF LogMeta, durable, recovery, heap, profile
  <2>2. s.typIndex # 0 /\ typeLog[b * G].idx = s.typIndex /\ t \notin NoScan /\ \A g \in JobCells(p) : heapBits'[g] = t
    BY <2>1, <1>8
  <2>3. typeLog' = [typeLog EXCEPT ![b * G] = [typeLog[b * G] EXCEPT !.bits = <<"opt", t>>]]
    BY <2>1, <1>5, <1>6
  <2>4. /\ typeLog'[b * G] = [typeLog[b * G] EXCEPT !.bits = <<"opt", t>>]
        /\ \A g \in Granule : typeLog'[g] = typeLog[g] \/ g = b * G
    BY <2>3, <1>5, <1>6
  <2>5. typeLog'[b * G] = OptLog(s.typIndex, t)
    BY <2>2, <2>4, <1>6 DEF OptLog, LogSet
  <2>6. typeLog'[b * G].idx = s.typIndex /\ Described(typeLog'[b * G], s.typIndex, t, lost)
    BY <2>5 DEF OptLog, Described
  <2>7. JobWrites(p)
    BY <2>1, <2>2, <2>4, <2>6, <1>1, <1>2, <1>4 DEF JobWrites
  <2> DEFINE pc == "persist"
  <2>8. pc \in {"meta", "persist"} /\ Goto(p, pc) /\ pc = "persist" /\ pc # "meta"
    BY <2>1
  <2> HIDE DEF pc
  <2>9. LogOk(p)'
    BY <2>2, <2>6, <2>7, <2>8, <1>0, <1>1, <1>2, <1>4, GotoLog
  <2>10. /\ job'[p] # Idle /\ job'[p].base = job[p].base /\ job'[p].slot = job[p].slot
         /\ \A q \in P : q # p => job'[q] = job[q]
    BY <2>8, <1>0, GotoFacts
  <2>11. QED
    BY <2>1, <2>7, <2>9, <2>10, <1>0, GotoLive
<1>12. ASSUME PersistBits(p)
       PROVE  LInv'
  <2> DEFINE gs == IF s.typIndex = 0 THEN JobCells(p) ELSE {b * G}
  <2>1. /\ job[p].pc = "persist" /\ dTypeLog' = [g \in Granule |-> IF g \in gs THEN typeLog[g] ELSE dTypeLog[g]]
        /\ dSpanLog' = IF job[p].new THEN [dSpanLog EXCEPT ![b] = spanLog[b]] ELSE dSpanLog
        /\ Return(p)
        /\ UNCHANGED <<spanLog, typeLog, typeMap, dTypeMap, mode, cursor, spans, cache, heapBits, typAssigns, numAssigned, prof, lost>>
    BY <1>12, <1>1, <1>3, <1>4, <1>7 DEF PersistBits, persistent, recovery, heap, profile
  <2>2. \A g \in gs : g \in Granule
    BY <1>6, <1>7
  <2>3. /\ \A g \in Granule : dTypeLog'[g] = dTypeLog[g] \/ dTypeLog'[g] = typeLog'[g]
        /\ \A g \in gs : dTypeLog'[g] = typeLog[g]
    <3> HIDE DEF gs
    <3>1. QED
      BY <2>1, <2>2
  <2>4. \A c \in Page : dSpanLog'[c] = dSpanLog[c] \/ dSpanLog'[c] = spanLog[c]
    BY <2>1, <1>5
  <2>5. JobWrites(p)
    BY <2>1, <2>3, <2>4 DEF JobWrites
  <2>6. Entry(dSpanLog'[b], s)
    <3>1. CASE job[p].new
      BY <3>1, <2>1, <1>5, <1>8
    <3>2. CASE ~job[p].new
      BY <3>2, <2>1, <1>9
    <3>3. QED
      BY <3>1, <3>2
  <2>7. /\ s.typIndex # 0 => Described(typeLog[b * G], s.typIndex, t, lost)
        /\ s.typIndex = 0 => \A g \in JobCells(p) : typeLog[g] = RawLog(t)
        /\ \A g \in JobCells(p) : heapBits[g] = t
    BY <2>1, <1>8
  <2>8. /\ s.typIndex # 0 => /\ Described(typeLog'[b * G], s.typIndex, t, lost)
                             /\ Described(dTypeLog'[b * G], s.typIndex, t, lost)
        /\ s.typIndex = 0 => \A g \in JobCells(p) : typeLog'[g] = RawLog(t) /\ dTypeLog'[g] = RawLog(t)
        /\ \A g \in JobCells(p) : heapBits'[g] = t
    BY <2>1, <2>3, <2>7
  <2>9. QED
    <3> HIDE DEF gs
    <3>1. Entry(spanLog[b], s) /\ Return(p)
      BY <2>1, <1>8
    <3>2. /\ s.typIndex = 0 /\ t \notin NoScan =>
               \A g \in JobCells(p) : typeLog'[g] = RawLog(t) /\ dTypeLog'[g] = RawLog(t)
          /\ t \notin NoScan => \A g \in JobCells(p) : heapBits'[g] = t
      BY <2>8, Zenon
    <3>3. QED
      BY <3>1, <3>2, <2>5, <2>6, <2>8, <1>0, <1>1, <1>2, <1>3, <1>4, ReturnLive
<1>13. ASSUME FenceSpan(p)
       PROVE  LInv'
  <2>1. /\ job[p].pc = "fence" /\ dSpanLog' = [dSpanLog EXCEPT ![b] = spanLog[b]]
        /\ Return(p)
        /\ UNCHANGED <<spanLog, typeLog, typeMap, dTypeLog, dTypeMap, mode, cursor, spans, cache, heapBits,
                       typAssigns, numAssigned, prof, lost>>
    BY <1>13, <1>1 DEF FenceSpan, persistent, recovery, heap, profile
  <2>2. t \in NoScan /\ s.typIndex = 0
    BY <2>1, <1>8 DEF Own
  <2>3. /\ \A c \in Page : dSpanLog'[c] = dSpanLog[c] \/ dSpanLog'[c] = spanLog[c]
        /\ Entry(dSpanLog'[b], s)
    BY <2>1, <1>5, <1>8
  <2>4. JobWrites(p)
    BY <2>1, <2>3 DEF JobWrites
  <2>5. QED
    BY <2>1, <2>2, <2>3, <2>4, <1>0, <1>1, <1>2, <1>3, <1>4, <1>8, ReturnLive
<1>14. ASSUME ReturnNoScan(p)
       PROVE  LInv'
  <2>1. /\ job[p].pc = "return" /\ Return(p)
        /\ UNCHANGED <<spanLog, typeLog, typeMap, dSpanLog, dTypeLog, dTypeMap, mode, cursor, spans, cache, heapBits,
                       typAssigns, numAssigned, prof, lost>>
    BY <1>14 DEF ReturnNoScan, persistent, durable, recovery, heap, profile
  <2>2. t \in NoScan /\ s.typIndex = 0
    BY <2>1, <1>8 DEF Own
  <2>3. Entry(dSpanLog'[b], s)
    BY <2>1, <1>8, <1>9
  <2>4. JobWrites(p)
    BY <2>1 DEF JobWrites
  <2>5. QED
    BY <2>1, <2>2, <2>3, <2>4, <1>0, <1>1, <1>2, <1>3, <1>4, <1>8, ReturnLive
<1>15. QED
  BY <1>10, <1>11, <1>12, <1>13, <1>14

\* The sweeper: objects that are marked stay.
LEMMA SweepLive ==
  ASSUME IInv, LInv, NEW b \in Page, Sweepable(b),
         \A c \in Page : c # b => spans'[c] = spans[c] /\ spanLog'[c] = spanLog[c],
         UNCHANGED <<typeLog, dTypeLog, dSpanLog, heapBits, live, job, cache, mode, cursor, typeMap, dTypeMap,
                     typAssigns, numAssigned, prof, lost>>,
         \A k \in Marked(b) : /\ spanLog'[b] = spanLog[b] /\ spans'[b] # NoSpan /\ k \in spans'[b].alloc
                              /\ spans'[b].typIndex = spans[b].typIndex /\ spans'[b].spanclass = spans[b].spanclass
  PROVE  LInv'
<1>1. /\ mode = "run" /\ spans[b] # NoSpan
      /\ \A p \in P : b \notin cache[p] /\ (job[p] # Idle => job[p].base # b)
  BY DEF Sweepable, InUse
<1>8. MapInv' /\ Own' = Own
  BY MapSame DEF LInv
<1>2. ASSUME NEW o \in live, NEW c \in Page, NEW l, NEW e, NEW i, Kept(o, c, l, e, i)
      PROVE  Kept(o, c, l, e, i)'
  <2>1. /\ EntryOk(spanLog[c], o, c, l, e, i) /\ EntryOk(dSpanLog[c], o, c, l, e, i)
        /\ BitsOk(typeLog, o, c, l, e, i, lost) /\ BitsOk(dTypeLog, o, c, l, e, i, lost)
        /\ i = 0 \/ <<o.typ, i>> \in Own
        /\ MemOk(o, c, l, e, i)
    BY <1>1, <1>2 DEF Kept
  <2>2. spanLog'[c] = spanLog[c] /\ MemOk(o, c, l, e, i)'
    <3>1. CASE c # b
      BY <3>1, <2>1 DEF MemOk
    <3>2. CASE c = b
      <4>1. o.at = SlotBase(c, l) /\ l \in spans[c].alloc
        BY <1>1, <1>2, KeptFacts
      <4>2. l \in Marked(b)
        BY <4>1, <3>2 DEF Marked
      <4>3. QED
        BY <4>2, <3>2, <2>1 DEF MemOk
    <3>3. QED
      BY <3>1, <3>2
  <2>3. QED
    BY <2>1, <2>2, <1>8 DEF Kept
<1>3. \A c \in Page : c # b => (Ready(c)' <=> Ready(c))
  BY <1>8 DEF Ready
<1>4. \A p \in P : job[p] # Idle => job[p].base \in Page /\ spans'[job[p].base] = spans[job[p].base]
  BY <1>1, JobFacts
<1>5. LiveInv'
  <2>1. \A o \in live : \E c \in Page : \E l, e \in Nat : \E i \in 0..(MaxCacheTypes - 1) : Kept(o, c, l, e, i)'
    BY <1>2 DEF LInv, LiveInv
  <2>2. \A q \in P, o \in live : job[q] # Idle => o.at # SlotBase(job[q].base, job[q].slot)'
    BY <1>4 DEF LInv, LiveInv, SlotBase
  <2>3. QED
    BY <2>1, <2>2 DEF LInv, LiveInv
<1>6. CacheInv'
  <2>1. cache \in [P -> SUBSET Page]
    BY DEF IInv, TypeOK
  <2>2. ASSUME NEW q \in P, NEW c \in cache[q]
        PROVE  spans'[c] # NoSpan /\ (job[q] = Idle \/ job[q].base # c => Ready(c)')
    <3>1. c \in Page /\ c # b
      BY <2>1, <1>1
    <3>2. spans[c] # NoSpan /\ (job[q] = Idle \/ job[q].base # c => Ready(c))
      BY DEF LInv, CacheInv
    <3>3. QED
      BY <3>1, <3>2, <1>3
  <2>3. QED
    BY <2>2 DEF CacheInv
<1>7. LogInv'
  <2>1. ASSUME NEW q \in P, job[q] # Idle
        PROVE  LogOk(q)'
    <3>1. PICK c \in Page : c = job[q].base
      BY <2>1, <1>4
    <3>2. c # b /\ spans'[c] = spans[c] /\ spanLog'[c] = spanLog[c]
      BY <2>1, <3>1, <1>1
    <3>3. Ready(job[q].base)' <=> Ready(job[q].base)
      BY <3>1, <3>2, <1>8 DEF Ready
    <3>4. JobCells(q)' = JobCells(q)
      BY <3>1, <3>2 DEF JobCells
    <3>5. LogOk(q)
      BY <2>1 DEF LInv, LogInv
    <3>6. QED
      BY <3>1, <3>2, <3>3, <3>4, <3>5, <1>8 DEF LogOk
  <2>2. QED
    BY <2>1 DEF LogInv
<1>9. QED
  BY <1>5, <1>6, <1>7, <1>8 DEF LInv

\* Both ways to sweep a span.
LEMMA SweepLiveSteps ==
  ASSUME IInv, LInv, NEW b \in Page, Sweep(b) \/ SweepFree(b)
  PROVE  LInv'
<1>0. spans \in [Page -> SpanSet] /\ spanLog \in [Page -> Nat]
  BY DEF IInv, SpanInv, TypeOK
<1>1. ASSUME Sweep(b)
      PROVE  LInv'
  <2> DEFINE M == Marked(b)
  <2>1. /\ Sweepable(b) /\ spans' = [spans EXCEPT ![b].alloc = M, ![b].needzero = 1]
        /\ UNCHANGED <<spanLog, typeLog, dTypeLog, dSpanLog, heapBits, live, job, cache, mode, cursor, typeMap,
                       dTypeMap, typAssigns, numAssigned, prof, lost>>
    BY <1>1 DEF Sweep, persistent, durable, recovery, profile
  <2>2. spans[b] \in SpanSet /\ GoodSpan(spans[b], b) /\ spans[b] # NoSpan
    BY <2>1, <1>0 DEF Sweepable, InUse, IInv, SpanInv
  <2> HIDE DEF M
  <2>3. spans' = [spans EXCEPT ![b] = [[spans[b] EXCEPT !.alloc = M] EXCEPT !.needzero = 1]]
    BY <2>1, <1>0
  <2>4. spans'[b] = [[spans[b] EXCEPT !.alloc = M] EXCEPT !.needzero = 1] /\ \A c \in Page : c # b => spans'[c] = spans[c]
    BY <2>3, <1>0
  <2>5. /\ spans'[b].alloc = M /\ spans'[b].typIndex = spans[b].typIndex
        /\ spans'[b].spanclass = spans[b].spanclass /\ spans'[b].npages = spans[b].npages
    BY <2>2, <2>4 DEF SpanSet
  <2>6. spans'[b] # NoSpan
    <3>1. spans[b].npages >= 1 /\ NoSpan.npages = 0
      BY <2>2, SpanFacts DEF NoSpan, GoodSpan
    <3>2. QED
      BY <3>1, <2>5
  <2>7. QED
    BY <2>1, <2>4, <2>5, <2>6, SweepLive DEF M
<1>2. ASSUME SweepFree(b)
      PROVE  LInv'
  <2>1. /\ Sweepable(b) /\ Marked(b) = {} /\ spans' = [spans EXCEPT ![b] = NoSpan]
        /\ spanLog' = [spanLog EXCEPT ![b] = 0]
        /\ UNCHANGED <<typeLog, dTypeLog, dSpanLog, heapBits, live, job, cache, mode, cursor, typeMap,
                       dTypeMap, typAssigns, numAssigned, prof, lost>>
    BY <1>2 DEF SweepFree, durable, recovery, profile
  <2>2. \A c \in Page : c # b => spans'[c] = spans[c] /\ spanLog'[c] = spanLog[c]
    BY <2>1, <1>0
  <2>3. QED
    BY <2>1, <2>2, SweepLive
<1>3. QED
  BY <1>1, <1>2

\* A power failure leaves a row of types, and an index that keeps its type has a durable entry.
LEMMA CrashMap ==
  ASSUME TypeOK, MapInv, Crash
  PROVE  MapInv' /\ Own \subseteq Own'
<1>1. /\ typeLog' = dTypeLog /\ typeMap' = dTypeMap /\ mode' = "types" /\ numAssigned' = 1 /\ prof' = <<>>
      /\ lost' = lost \cup {n \in 2..numAssigned : dTypeMap[n] = None}
      /\ UNCHANGED <<dTypeLog, dTypeMap>>
  BY DEF Crash, durable
<1> DEFINE N == 2..(MaxCacheTypes - 1)
<1>2. /\ numAssigned \in 1..(MaxCacheTypes - 1) /\ MaxCacheTypes \in Nat
      /\ dTypeMap \in [N -> Type \cup {None}]
  BY Consts DEF TypeOK
<1>3. Row
  <2>1. CASE mode = "types"
    BY <2>1 DEF MapInv
  <2>2. CASE mode # "types"
    <3>1. /\ \A t \in Type : typAssigns[t] # 0 => typAssigns[t] \in 2..numAssigned
          /\ \A n \in N : dTypeMap[n] # None => typAssigns[dTypeMap[n]] = n
          /\ \A n \in 2..numAssigned : dTypeMap[n] # None \/ n = numAssigned
      BY <2>2 DEF MapInv, Assigned, Persisted
    <3>2. ASSUME NEW n \in N, dTypeMap[n] # None, NEW m \in 2..n
          PROVE  dTypeMap[m] # None
      <4>1. dTypeMap[n] \in Type /\ typAssigns[dTypeMap[n]] = n /\ n # 0
        BY <3>1, <3>2, <1>2
      <4>2. n \in 2..numAssigned
        BY <4>1, <3>1
      <4>3. m = n \/ (m \in 2..numAssigned /\ m # numAssigned)
        BY <4>2, <1>2
      <4>4. QED
        BY <4>3, <3>1, <3>2
    <3>3. \A n, m \in N : dTypeMap[n] # None /\ dTypeMap[n] = dTypeMap[m] => n = m
      BY <3>1
    <3>4. QED
      BY <3>2, <3>3 DEF Row
  <2>3. QED
    BY <2>1, <2>2
<1>4. Row'
  BY <1>1, <1>3 DEF Row
<1>5. MapInv'
  BY <1>1, <1>4 DEF MapInv
<1>6. ASSUME NEW t \in Type, NEW i \in Index, Owns(t, i), i \notin lost'
      PROVE  Owns(t, i)'
  <2>1. CASE i = 1
    BY <2>1, <1>6 DEF Owns
  <2>2. CASE i # 1 /\ mode = "types"
    BY <2>2, <1>1, <1>6 DEF Owns
  <2>3. CASE i # 1 /\ mode # "types"
    <3>1. t \notin Slice /\ typAssigns[t] = i /\ i # 0
      BY <2>3, <1>6 DEF Owns, Index
    <3>2. Assigned
      BY <2>3 DEF MapInv
    <3>3. i \in 2..numAssigned /\ i \in N
      <4>1. i \in 2..numAssigned
        BY <3>1, <3>2 DEF Assigned
      <4>2. QED
        BY <4>1, <1>2
    <3>4. dTypeMap[i] # None
      BY <3>3, <1>1, <1>6
    <3>5. dTypeMap[i] \in Type /\ typAssigns[dTypeMap[i]] = i
      BY <3>2, <3>3, <3>4, <1>2 DEF Assigned
    <3>6. dTypeMap[i] = t
      BY <3>1, <3>2, <3>5 DEF Assigned
    <3>7. QED
      BY <2>3, <3>1, <3>6, <1>1 DEF Owns
  <2>4. QED
    BY <2>1, <2>2, <2>3
<1>7. lost \subseteq lost'
  BY <1>1
<1>8. Own \subseteq Own'
  BY <1>6, <1>7 DEF Own
<1>9. QED
  BY <1>5, <1>8

\* A power failure: what is durable is enough.
LEMMA CrashLive ==
  ASSUME IInv, LInv, Crash
  PROVE  LInv'
<1>1. /\ spanLog' = dSpanLog /\ typeLog' = dTypeLog
      /\ mode' = "types" /\ cursor' = 0 /\ spans' = [b \in Page |-> NoSpan]
      /\ cache' = [p \in P |-> {}] /\ job' = [p \in P |-> Idle]
      /\ lost \subseteq lost'
      /\ UNCHANGED <<dSpanLog, dTypeLog, live>>
  BY DEF Crash, durable
<1>5. MapInv' /\ Own \subseteq Own'
  BY CrashMap DEF LInv, IInv
<1>2. ASSUME NEW o \in live, NEW c \in Page, NEW l, NEW e, NEW i, Kept(o, c, l, e, i)
      PROVE  Kept(o, c, l, e, i)'
  <2>1. EntryOk(dSpanLog[c], o, c, l, e, i) /\ BitsOk(dTypeLog, o, c, l, e, i, lost) /\ (i = 0 \/ <<o.typ, i>> \in Own)
    BY <1>2 DEF Kept
  <2>2. ~(mode' = "run" \/ c < cursor')
    <3>1. c \in Nat
      BY Consts
    <3>2. QED
      BY <3>1, <1>1
  <2>3. BitsOk(dTypeLog, o, c, l, e, i, lost')
    BY <2>1, <1>1 DEF BitsOk, Described
  <2>4. QED
    BY <2>1, <2>2, <2>3, <1>1, <1>5 DEF Kept
<1>3. LiveInv'
  <2>1. \A o \in live' : \E c \in Page : \E l, e \in Nat : \E i \in 0..(MaxCacheTypes - 1) : Kept(o, c, l, e, i)'
    BY <1>1, <1>2 DEF LInv, LiveInv
  <2>2. QED
    BY <2>1, <1>1 DEF LInv, LiveInv
<1>4. CacheInv' /\ LogInv'
  BY <1>1 DEF CacheInv, LogInv
<1>6. QED
  BY <1>3, <1>4, <1>5 DEF LInv

\* The bits of an object that is not without pointers are restored.
LEMMA ScanClass ==
  ASSUME NEW t \in Type, t \notin NoScan
  PROVE  IsScan(SpanClassOf(t))
<1> DEFINE c == SizeClassOf[t]
<1>1. c \in 0..66 /\ NoScanBit(t) = 0
  BY TypeAssumption DEF NumSizeClasses, NoScanBit
<1>2. SpanClassOf(t) = c * 2
  BY <1>1 DEF SpanClassOf, MakeSpanClass
<1> HIDE DEF c
<1>3. QED
  BY <1>1, <1>2 DEF IsScan

\* reconstruct makes the span of the entry at the cursor.
LEMMA ReconSpanLive ==
  ASSUME IInv, IInv', LInv, ReconSpan
  PROVE  LInv'
<1> DEFINE s == CreateSpan(spanLog[cursor])
           log == typeLog[cursor * G]
           idx == IF s.opt = 1 THEN log.idx ELSE 0
           gs == IF IsScan(s.spanclass) THEN GranulesOf(cursor, s.npages) ELSE {}
           new == [spanclass |-> s.spanclass, npages |-> s.npages, typIndex |-> idx, needzero |-> s.needzero,
                   alloc |-> {}]
<1>0. spans \in [Page -> SpanSet] /\ dSpanLog \in [Page -> Nat] /\ dTypeLog \in [Granule -> LogSet]
  BY DEF IInv, SpanInv, TypeOK
<1>1. /\ mode = "recon" /\ cursor < NPages /\ spanLog[cursor] # 0 /\ mode' \in Outcomes(log, idx)
      /\ IF mode' = "panic" THEN UNCHANGED <<spans, heapBits, cursor>>
         ELSE /\ spans' = [spans EXCEPT ![cursor] = [new EXCEPT !.alloc = Slots(new)]]
              /\ heapBits' = [g \in Granule |-> IF g \notin gs THEN heapBits[g]
                                                ELSE IF idx = 0 THEN AsCopied(typeLog[g]) ELSE AsDescribed(log)]
              /\ cursor' = cursor + s.npages
      /\ UNCHANGED <<spanLog, typeLog, typeMap, dSpanLog, dTypeLog, dTypeMap, cache, job, typAssigns, numAssigned,
                     prof, lost, live>>
  BY DEF ReconSpan, persistent, durable, profile
<1>2. /\ \A p \in P : job[p] = Idle
      /\ cursor \in Nat
      /\ \A b \in Page : spans[b] # NoSpan => b < cursor /\ spanLog[b] # 0 /\ b + spans[b].npages <= cursor
  BY <1>1, RestartFacts
<1>3. mode' \in {"recon", "panic"}
  BY <1>1 DEF Outcomes
<1>4. MapInv' /\ Own' = Own
  <2>1. mode # "types" /\ mode' # "types" /\ mode # "run" /\ mode' # "run"
    BY <1>1, <1>3
  <2>2. UNCHANGED <<typeLog, dTypeLog, typeMap, dTypeMap, typAssigns, numAssigned, prof, lost>>
    BY <1>1
  <2>3. Own' = Own
    BY <2>1, <2>2, OwnSame
  <2>4. (Assigned' <=> Assigned) /\ (Persisted' <=> Persisted)
    BY <2>2 DEF Assigned, Persisted
  <2>5. MapInv'
    BY <2>1, <2>2, <2>4 DEF LInv, MapInv
  <2>6. QED
    BY <2>3, <2>5
<1>5. ASSUME mode' = "panic"
      PROVE  LInv'
  BY <1>0, <1>1, <1>4, <1>5, KeepStep
<1>6. ASSUME mode' = "recon"
      PROVE  LInv'
  <2>0. PICK c \in Page : c = cursor
    BY <1>1, <1>2, Consts DEF Page
  <2> DEFINE new2 == [new EXCEPT !.alloc = Slots(new)]
             n == s.npages
  <2>1. /\ cache = [p \in P |-> {}] /\ Valid(spanLog[c]) /\ c \in Nat /\ c + n <= NPages
        /\ \A d \in (c + 1)..(c + n - 1) : spanLog[d] = 0
        /\ \A d \in Page : d < c /\ spanLog[d] # 0 => d + spans[d].npages <= c
    BY <2>0, <1>1, <1>2 DEF IInv, ReconInv
  <2>2. n \in Nat /\ n >= 1
    BY <2>0, <2>1, SpanPages DEF Valid
  <2>3. spans' = [spans EXCEPT ![c] = new2] /\ cursor' = c + n
    BY <2>0, <1>1, <1>6
  <2>4. spans'[c] = new2 /\ \A d \in Page : d # c => spans'[d] = spans[d]
    BY <2>3, <1>0
  <2>5. /\ new2.spanclass = s.spanclass /\ new2.npages = n /\ new2.typIndex = idx /\ new2.alloc = Slots(new)
        /\ new.spanclass = s.spanclass /\ new.npages = n
    OBVIOUS
  <2>6. ElemSize(new) = ElemSize(s) /\ Slots(new) = Slots(s) /\ ElemSize(new2) = ElemSize(s) /\ Slots(new2) = Slots(s)
    <3> HIDE DEF new, new2, s
    <3>1. QED
      BY <2>5, SameSlots DEF n
  <2>7. new2 # NoSpan
    <3> HIDE DEF new2, n
    <3>1. QED
      BY <2>2, <2>5 DEF NoSpan
  <2>8. GoodSpan(new2, c)
    <3>1. \A d \in Page : spans'[d] # NoSpan => GoodSpan(spans'[d], d)
      BY DEF IInv, SpanInv
    <3> HIDE DEF new2
    <3> QED BY <2>4, <2>7, <3>1, Zenon
  <2>9. \A g \in Granule : heapBits'[g] = IF g \notin gs THEN heapBits[g]
                                          ELSE IF idx = 0 THEN AsCopied(typeLog[g]) ELSE AsDescribed(log)
    BY <1>1, <1>6
  <2>10. gs \subseteq GranulesOf(c, n)
    BY <2>0
  <2>11. log = typeLog[c * G]
    BY <2>0
  <2>12. s = CreateSpan(spanLog[c])
    BY <2>0
  <2> HIDE DEF new, new2
  <2>13. ASSUME NEW o \in live, NEW d \in Page, NEW l, NEW e, NEW i, l \in Nat, e \in Nat, Kept(o, d, l, e, i)
         PROVE  Kept(o, d, l, e, i)'
    <3>1. /\ EntryOk(spanLog[d], o, d, l, e, i) /\ EntryOk(dSpanLog[d], o, d, l, e, i)
          /\ BitsOk(typeLog, o, d, l, e, i, lost) /\ BitsOk(dTypeLog, o, d, l, e, i, lost)
          /\ i = 0 \/ <<o.typ, i>> \in Own
          /\ d < cursor => MemOk(o, d, l, e, i)
      BY <2>13 DEF Kept
    <3>2. spanLog[d] # 0 /\ d \in Nat
      BY <3>1, Consts DEF EntryOk
    <3>3. ASSUME d < c
          PROVE  MemOk(o, d, l, e, i)'
      <4>1. d < cursor /\ d # c
        BY <3>3, <3>2, <2>0, <2>1
      <4>2. MemOk(o, d, l, e, i)
        BY <4>1, <3>1
      <4>3. spans[d] # NoSpan /\ l \in Slots(spans[d]) /\ e = ElemSize(spans[d]) /\ GoodSpan(spans[d], d)
        BY <4>1, <2>13, KeptFacts
      <4>4. Cells(d, e, l) \subseteq GranulesOf(d, spans[d].npages) /\ Cells(d, e, l) \subseteq Granule
        BY <4>3, SlotInside
      <4>5. d + spans[d].npages <= c /\ spans[d].npages \in Nat
        BY <3>2, <3>3, <4>3, <2>1, SpanFacts DEF GoodSpan
      <4>6. GranulesOf(d, spans[d].npages) \cap GranulesOf(c, n) = {}
        BY <4>5, <3>2, <2>1, <2>2, SpansApart
      <4>7. \A g \in Cells(d, e, l) : heapBits'[g] = heapBits[g]
        <5> HIDE DEF gs, idx, log
        <5>1. QED
          BY <4>4, <4>6, <2>9, <2>10
      <4>8. spans'[d] = spans[d]
        BY <4>1, <2>4
      <4>9. lost' = lost
        BY <1>1
      <4>10. QED
        BY <4>2, <4>7, <4>8, <4>9 DEF MemOk
    <3>4. ASSUME d = c
          PROVE  MemOk(o, d, l, e, i)'
      <4>1. /\ s.spanclass = SpanClassOf(o.typ) /\ (s.opt = 1 <=> i # 0)
            /\ e = ElemSize(s) /\ l \in Slots(s)
        BY <3>1, <3>4, <2>12 DEF EntryOk
      <4>2. o.typ \in Type
        BY DEF IInv, TypeOK
      <4>3. i # 0 => o.typ \notin NoScan /\ Described(log, i, o.typ, lost)
        BY <3>1, <3>4, <2>11 DEF Own, BitsOk
      <4>4. idx = i
        <5>1. CASE i = 0
          BY <5>1, <4>1
        <5>2. CASE i # 0
          <6>1. log.idx = i
            <7> HIDE DEF log
            <7>1. PICK u \in Type : log = OptLog(i, u)
              BY <5>2, <4>3 DEF Described
            <7>2. QED
              BY <7>1 DEF OptLog
          <6>2. QED
            BY <5>2, <6>1, <4>1
        <5>3. QED
          BY <5>1, <5>2
      <4>5. l \in spans'[d].alloc /\ spans'[d] # NoSpan /\ spans'[d].typIndex = i /\ spans'[d].spanclass = SpanClassOf(o.typ)
        BY <3>4, <4>1, <4>4, <2>4, <2>5, <2>6, <2>7
      <4>6. Cells(d, e, l) \subseteq GranulesOf(c, n) /\ Cells(d, e, l) \subseteq Granule
        <5>1. l \in Slots(new2) /\ e = ElemSize(new2) /\ new2.npages = n
          BY <4>1, <2>5, <2>6
        <5>2. /\ Cells(c, ElemSize(new2), l) \subseteq GranulesOf(c, new2.npages)
              /\ GranulesOf(c, new2.npages) \subseteq Granule
          BY <5>1, <2>8, SlotInside
        <5>3. QED
          BY <5>1, <5>2, <3>4
      <4>7. ASSUME o.typ \notin NoScan, i \notin lost, NEW g \in Cells(d, e, l)
            PROVE  heapBits'[g] = o.typ
        <5>1. g \in gs /\ g \in Granule
          BY <4>1, <4>2, <4>6, <4>7, <2>0, ScanClass
        <5>2. CASE i = 0
          <6>1. typeLog[g] = RawLog(o.typ)
            BY <5>2, <4>7, <3>1 DEF BitsOk
          <6>2. AsCopied(typeLog[g]) = o.typ
            BY <6>1 DEF AsCopied, RawLog
          <6> HIDE DEF gs, idx, log
          <6>3. QED
            BY <5>1, <5>2, <6>2, <4>4, <2>9
        <5>3. CASE i # 0
          <6>1. log = OptLog(i, o.typ)
            BY <5>3, <4>3, <4>7 DEF Described
          <6> HIDE DEF gs, idx, log
          <6>2. AsDescribed(log) = o.typ
            BY <6>1 DEF AsDescribed, OptLog
          <6>3. QED
            BY <5>1, <5>3, <6>2, <4>4, <2>9
        <5>4. QED
          BY <5>2, <5>3
      <4>8. lost' = lost
        BY <1>1
      <4>9. QED
        BY <4>5, <4>7, <4>8 DEF MemOk
    <3>5. ASSUME d < cursor'
          PROVE  d <= c
      <4> HIDE DEF n
      <4>1. d \notin (c + 1)..(c + n - 1)
        BY <3>2, <2>1
      <4>2. QED
        BY <4>1, <3>2, <3>5, <2>1, <2>2, <2>3
    <3>6. d < cursor' => MemOk(o, d, l, e, i)'
      BY <3>2, <3>3, <3>4, <3>5, <2>1
    <3>7. QED
      BY <3>1, <3>6, <1>1, <1>4, <1>6 DEF Kept
  <2>14. LiveInv'
    <3>1. \A o \in live : \E d \in Page : \E l, e \in Nat : \E i \in 0..(MaxCacheTypes - 1) : Kept(o, d, l, e, i)'
      BY <2>13 DEF LInv, LiveInv
    <3>2. \A o1, o2 \in live : o1.at = o2.at => o1 = o2
      BY DEF LInv, LiveInv
    <3>3. \A q \in P : job'[q] = Idle
      BY <1>1, <1>2
    <3>4. QED
      BY <3>1, <3>2, <3>3, <1>1 DEF LiveInv
  <2>15. CacheInv' /\ LogInv'
    BY <2>1, <1>1, <1>2 DEF CacheInv, LogInv
  <2>16. QED
    BY <2>14, <2>15, <1>4 DEF LInv
<1>7. QED
  BY <1>3, <1>5, <1>6

------------------------------------------------------------------------------
(* The theorems on reachable objects.                                      *)

\* No object is reachable in a new arena.
LEMMA InitLive ==
  ASSUME Init
  PROVE  LInv
<1>1. /\ live = {} /\ mode = "run" /\ typeLog = [g \in Granule |-> NoLog] /\ dTypeLog = typeLog
      /\ cache = [p \in P |-> {}] /\ job = [p \in P |-> Idle] /\ prof = <<>>
      /\ typeMap = [n \in 2..(MaxCacheTypes - 1) |-> None] /\ dTypeMap = typeMap
      /\ typAssigns = [t \in Type |-> 0] /\ numAssigned = 1
  BY DEF Init
<1>2. LiveInv
  BY <1>1 DEF LiveInv
<1>3. CacheInv /\ LogInv
  BY <1>1 DEF CacheInv, LogInv
<1>4. Assigned /\ Persisted
  BY <1>1 DEF Assigned, Persisted
<1>5. MapInv
  BY <1>1, <1>4 DEF MapInv
<1>6. QED
  BY <1>2, <1>3, <1>5 DEF LInv

\* Every step keeps what is known of the reachable objects.
LEMMA NextLive ==
  ASSUME IInv, IInv', LInv, [Next]_vars
  PROVE  LInv'
<1>1. ASSUME NEW p \in P, Malloc(p)
      PROVE  LInv'
  BY <1>1, AllocLiveSteps, JobLiveSteps DEF Malloc
<1>2. CASE Collect
  BY <1>2, KeepSteps, SweepLiveSteps DEF Collect
<1>3. CASE Profile
  BY <1>3, KeepSteps DEF Profile
<1>4. CASE Evict
  BY <1>4, KeepSteps DEF Evict
<1>5. CASE Crash
  BY <1>5, CrashLive
<1>6. CASE Recover
  BY <1>6, KeepSteps, ReconSpanLive DEF Recover
<1>7. CASE UNCHANGED vars
  BY <1>7, KeepSteps
<1>8. QED
  BY <1>1, <1>2, <1>3, <1>4, <1>5, <1>6, <1>7 DEF Next

\* In every reachable state, also between the stores of mallocgc and of typeProfileThread,
\* during a collection and in the middle of reconstruct, what is durable of the span table, of
\* the type map and of the type bits is enough to find every reachable object again, with its
\* type unless its span has an index that was lost; and mallocgc never gives out the slot of a
\* reachable object.
THEOREM LiveInvariant == Spec => [](IInv /\ LInv)
<1>1. Init => IInv /\ LInv
  BY InitInv, InitLive
<1>2. IInv /\ LInv /\ [Next]_vars => (IInv /\ LInv)'
  BY NextInv, NextLive
<1>3. QED
  BY <1>1, <1>2, PTL DEF Spec

\* Whenever the program runs, after any number of power failures between any two stores,
\* every reachable object is in a slot marked allocated, of a span of its class, and the type
\* bits that the collector scans it with are its own, unless the type index of its span was
\* given out in a run that failed before the index was durable.
THEOREM LiveObjectsKeptAlways == Spec => []LiveObjectsKept
<1>1. IInv /\ LInv => LiveObjectsKept
  <2> SUFFICES ASSUME IInv, LInv, mode = "run", NEW o \in live
               PROVE  \E b \in InUse : \E k \in spans[b].alloc :
                        /\ o.at = SlotBase(b, k)
                        /\ spans[b].spanclass = SpanClassOf(o.typ)
                        /\ o.typ \notin NoScan /\ spans[b].typIndex \notin lost =>
                             \A g \in SlotGranules(b, k) : heapBits[g] = o.typ
    BY DEF LiveObjectsKept
  <2>1. PICK b \in Page : \E k, e \in Nat : \E i \in 0..(MaxCacheTypes - 1) : Kept(o, b, k, e, i)
    BY DEF LInv, LiveInv
  <2>2. PICK k \in Nat, e \in Nat : \E i \in 0..(MaxCacheTypes - 1) : Kept(o, b, k, e, i)
    BY <2>1
  <2>3. PICK i \in 0..(MaxCacheTypes - 1) : Kept(o, b, k, e, i)
    BY <2>2
  <2>4. MemOk(o, b, k, e, i) /\ spans[b] # NoSpan /\ k \in spans[b].alloc /\ o.at = SlotBase(b, k)
    BY <2>3, KeptFacts
  <2>5. e = ElemSize(spans[b])
    BY <2>3, KeptFacts
  <2>6. SlotGranules(b, k) = Cells(b, e, k)
    BY <2>5, SlotIs
  <2>7. QED
    BY <2>4, <2>6 DEF MemOk, InUse
<1>2. QED
  BY <1>1, LiveInvariant, PTL

\* All reachable objects of a span that is cached for a type have the one type that is logged
\* for the whole span, however many types are promoted, whichever index each gets and wherever a
\* power failure strikes, unless it struck while typeProfileThread gave out that very index.
THEOREM SameTypeAlways == Spec => []SameType
<1>1. IInv /\ LInv => SameType
  <2> SUFFICES ASSUME IInv, LInv, mode = "run", NEW b \in InUse, spans[b].typIndex \in Index \ lost,
                      NEW o1 \in live, NEW o2 \in live, o1.at \in GranulesOf(b, spans[b].npages),
                      o2.at \in GranulesOf(b, spans[b].npages)
               PROVE  o1.typ = o2.typ
    BY DEF SameType, OneTypeIn
  <2>1. b \in Page /\ spans[b] # NoSpan /\ spans[b].typIndex # 0 /\ spans[b].typIndex \notin lost
    BY DEF InUse, Index
  <2>2. ASSUME NEW o \in live, o.at \in GranulesOf(b, spans[b].npages)
        PROVE  <<o.typ, spans[b].typIndex>> \in Own /\ SpanClassOf(o.typ) = spans[b].spanclass
    <3>1. PICK c \in Page : \E k, e \in Nat : \E i \in 0..(MaxCacheTypes - 1) : Kept(o, c, k, e, i)
      BY DEF LInv, LiveInv
    <3>2. PICK k \in Nat, e \in Nat : \E i \in 0..(MaxCacheTypes - 1) : Kept(o, c, k, e, i)
      BY <3>1
    <3>3. PICK i \in 0..(MaxCacheTypes - 1) : Kept(o, c, k, e, i)
      BY <3>2
    <3>4. /\ MemOk(o, c, k, e, i) /\ spans[c] # NoSpan /\ k \in Slots(spans[c])
          /\ o.at = c * G + k * ElemSize(spans[c]) /\ GoodSpan(spans[c], c)
      BY <3>3, KeptFacts
    <3>5. o.at \in GranulesOf(c, spans[c].npages)
      BY <3>4, SlotInside
    <3>6. c = b
      BY <2>1, <2>2, <3>4, <3>5, UsedApart
    <3>7. /\ spans[b].typIndex = i /\ (i = 0 \/ <<o.typ, i>> \in Own)
          /\ spans[b].spanclass = SpanClassOf(o.typ)
      BY <3>3, <3>4, <3>6 DEF MemOk, Kept
    <3>8. QED
      BY <2>1, <3>7
  <2>3. QED
    BY <2>1, <2>2, OwnOne DEF LInv
<1>2. QED
  BY <1>1, LiveInvariant, PTL
==============================================================================
