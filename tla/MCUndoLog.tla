------------------------------ MODULE MCUndoLog ------------------------------
(* A small arena for TLC: the data words are model values.                 *)
EXTENDS UndoLog, TLC
==============================================================================
