------------------------------ MODULE MCSwizzle ------------------------------
(***************************************************************************)
(* Instances of Swizzle for TLC.  Pages have four words.                   *)
(***************************************************************************)
EXTENDS Swizzle

Span(base, npages, elemsize, nelems, noscan, ptrs) ==
  [base |-> base, npages |-> npages, elemsize |-> elemsize, nelems |-> nelems,
   noscan |-> noscan, ptrs |-> ptrs]

\* Arena 1: a span of one 3-word element (a word is wasted at the end of its
\* page) whose first two words are pointers, then a span without pointers.
\* Arena 2: a free page, then a span of two 2-word elements that start with a
\* pointer.
MCSpans == <<{Span(0, 1, 3, 1, FALSE, {0, 1}), Span(4, 1, 4, 1, TRUE, {})},
             {Span(4, 1, 2, 2, FALSE, {4, 6})}>>
MCTarget == [a \in Arena |-> [w \in 0..(AllocSize - 1) |->
               CASE <<a, w>> = <<1, 0>> -> [arena |-> 2, off |-> 7]
                 [] <<a, w>> = <<1, 1>> -> [arena |-> 1, off |-> 3]
                 [] <<a, w>> = <<2, 4>> -> [arena |-> 1, off |-> 3]
                 [] OTHER -> Nil]]

\* The same file while it holds only the first arena.
MCTarget1 == [a \in Arena |-> [w \in 0..(AllocSize - 1) |->
                IF a = 1 /\ w = 1 THEN [arena |-> 1, off |-> 3] ELSE Nil]]

\* Many crashes while two arenas are exchanged, and an application that grows the
\* heap and stores pointers between crashes.
MCFiles == {[map |-> <<10, 30>>, target |-> MCTarget, root |-> [arena |-> 2, off |-> 7],
             crashes |-> 3, stores |-> 0],
            [map |-> <<10>>, target |-> MCTarget1, root |-> [arena |-> 1, off |-> 3],
             crashes |-> 2, stores |-> 2]}

\* The hypothesis of the theorems of SwizzleProofs: from every recorded progress, the
\* walk reaches all pointers that are left.
ASSUME WalkAssumption == ResumableLayout
==============================================================================
