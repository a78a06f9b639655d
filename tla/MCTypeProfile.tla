---------------------------- MODULE MCTypeProfile ----------------------------
(***************************************************************************)
(* Three types, two indices for them, a typMap with a place too few: the   *)
(* third type that is counted in one process ends it.                      *)
(***************************************************************************)
EXTENDS TypeProfile

CONSTANTS m1, m2, A, B, C

\* Class 1 has two objects in a span.
Objects == [c \in {0, 1} |-> IF c = 0 THEN 0 ELSE 2]
==============================================================================
