----------------------------- MODULE MCSpanTable -----------------------------
(***************************************************************************)
(* Small arenas for SpanTable.  Objects of class 8 fill one granule of a   *)
(* span of one page, objects of class 20 fill two granules of a span of    *)
(* two pages, objects of class 30 fill two granules of a span of five      *)
(* pages; a large object has five pages, the least a large one has.        *)
(***************************************************************************)
EXTENDS SpanTable, TLC

CONSTANTS Node, Twin, Edge, Header, Huge, p1, p2

AllocNPages == [c \in 1..66 |-> CASE c = 20 -> 2 [] c = 30 -> 5 [] OTHER -> 1]
Sizes       == [c \in 1..66 |-> IF c \in {20, 30} THEN 2 ELSE 1]
Classes     == [t \in Type |-> IF t = Huge THEN 0 ELSE IF t = Edge THEN 20 ELSE 8]
\* Small objects in spans of as many pages as a large object.
WideClasses == [t \in Type |-> IF t = Huge THEN 0 ELSE 30]
BigPages    == [t \in Type |-> 5]

\* The processors are interchangeable.
Processors  == Permutations(P)

\* So are the two types that are promoted.
Twins       == Permutations({Node, Twin})
==============================================================================
