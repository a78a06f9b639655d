------------------------------- MODULE SpanLog -------------------------------
(***************************************************************************)
(* The span table of an arena holds one 32-bit entry per page.  The entry  *)
(* of a span's first page says what the span is; all other entries are 0.  *)
(* spanLogValue (src/src/runtime/pmemLog.go) encodes a span, createSpan    *)
(* (src/src/runtime/pmemHeap.go) decodes it in the next run.               *)
(*                                                                         *)
(* A span is a record: its span class (size class times two, plus one when *)
(* its objects hold no pointers), its pages, whether its heap type bits    *)
(* are logged in the optimized form (typIndex # 0), and needzero.          *)
(***************************************************************************)
EXTENDS Naturals

CONSTANTS LogLimit,           \* 2^32: spanLogValue returns a uint32
          ClassToAllocNPages  \* class_to_allocnpages: the pages of a span of
                              \* each size class but 0

NumSizeClasses     == 67
PageSize           == 8192
MaxSmallSize       == 32768
MaxSmallSpanclass  == NumSizeClasses * 2 - 1
MaxSmallSpanLogVal == MaxSmallSpanclass * 4 + 2 + 1

Bit == 0..1

ASSUME LogLimitAssumption == /\ LogLimit \in Nat
                             /\ LogLimit > MaxSmallSpanLogVal
ASSUME ClassAssumption == ClassToAllocNPages \in [1..(NumSizeClasses - 1) -> Nat \ {0}]

Sizeclass(spc) == spc \div 2
MakeSpanClass(sizeclass, noscan) == sizeclass * 2 + noscan

\* The spans that mallocgc logs.  A span of size class 0 holds one object of
\* more than maxSmallSize bytes and is never specially cached for a type; a
\* span of any other class has the pages its class says.
SmallSpan == {s \in [spanclass : 2..MaxSmallSpanclass, npages : Nat, opt : Bit, needzero : Bit] :
                s.npages = ClassToAllocNPages[Sizeclass(s.spanclass)]}
LargeSpan == {s \in [spanclass : Bit, npages : Nat, opt : {0}, needzero : Bit] :
                /\ s.npages * PageSize > MaxSmallSize
                /\ (67 + s.npages - 4) * 8 + 7 < LogLimit}
Span == SmallSpan \cup LargeSpan

------------------------------------------------------------------------------

\* s.elemsize > maxSmallSize: only a span of class 0 has one object of all its
\* pages, and the size of every other class is at most maxSmallSize.
IsLarge(s) == Sizeclass(s.spanclass) = 0 /\ s.npages * PageSize > MaxSmallSize

\* The shifts leave disjoint bits, so the ORs of the code are sums.
SpanLogValue(s) == IF IsLarge(s)
                   THEN ((67 + s.npages - 4) * 8 + s.spanclass * 4 + s.needzero) % LogLimit
                   ELSE (s.spanclass * 4 + s.opt * 2 + s.needzero) % LogLimit

CreateSpan(sval) ==
  IF sval > MaxSmallSpanLogVal
  THEN [spanclass |-> MakeSpanClass(0, (sval \div 4) % 2),
        npages    |-> (sval \div 8) - 67 + 4,
        opt       |-> (sval \div 2) % 2,
        needzero  |-> sval % 2]
  ELSE [spanclass |-> sval \div 4,
        npages    |-> ClassToAllocNPages[sval \div 8],
        opt       |-> (sval \div 2) % 2,
        needzero  |-> sval % 2]
==============================================================================
