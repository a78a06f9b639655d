------------------------------ MODULE DurableTx ------------------------------
(***************************************************************************)
(* What the undo log of an arena header promises to its clients            *)
(* (src/src/runtime/pmemLog.go, "a minimal undo log in the runtime"):      *)
(* the words written between the first logEntry and the commit reach       *)
(* persistent memory all together or not at all.                           *)
(*                                                                         *)
(* committed is the image that a restart, after reverting the log, would   *)
(* hand to the program; working is the image the program is reading and    *)
(* writing.                                                                *)
(***************************************************************************)
CONSTANTS Addr, Val

VARIABLES committed, working

vars == <<committed, working>>

Init == /\ committed \in [Addr -> Val]
        /\ working = committed

\* The program overwrites a word.
Write(a, v) == /\ working' = [working EXCEPT ![a] = v]
               /\ UNCHANGED committed

\* Every word written since the last commit becomes permanent, in one step.
Commit == /\ committed' = working
          /\ UNCHANGED working

\* A crash: every word written since the last commit is forgotten.
Abort == /\ working' = committed
         /\ UNCHANGED committed

Next == \/ \E a \in Addr, v \in Val : Write(a, v)
        \/ Commit
        \/ Abort

Spec == Init /\ [][Next]_vars
==============================================================================
