--------------------------- MODULE MCSwizzleResume ---------------------------
(***************************************************************************)
(* An instance of Swizzle on whose layout ResumableLayout is false.  Pages *)
(* have four words.                                                        *)
(***************************************************************************)
EXTENDS Swizzle

Span(base, npages, elemsize, nelems, noscan, ptrs) ==
  [base |-> base, npages |-> npages, elemsize |-> elemsize, nelems |-> nelems,
   noscan |-> noscan, ptrs |-> ptrs]

\* A span of one 3-word element whose last word is a pointer (a word is wasted at the
\* end of its page), and a span with pointers behind it.
TailSpans == <<{Span(0, 1, 3, 1, FALSE, {2}), Span(4, 1, 2, 2, FALSE, {4})}>>
TailTarget == [a \in Arena |-> [w \in 0..(AllocSize - 1) |->
                 IF w \in {2, 4} THEN [arena |-> 1, off |-> 3] ELSE Nil]]
TailFiles == {[map |-> <<10>>, target |-> TailTarget, root |-> [arena |-> 1, off |-> 3],
               crashes |-> 2, stores |-> 0]}
==============================================================================
