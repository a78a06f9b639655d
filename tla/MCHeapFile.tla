----------------------------- MODULE MCHeapFile ------------------------------
(* Arenas of 16 pages and chunks of 4 instead of 8192 and 512, so that     *)
(* requests of a few pages exercise every rounding of the layout.          *)
EXTENDS HeapFile, TLC
==============================================================================
