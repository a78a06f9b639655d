------------------------------ MODULE MCPmemInit ------------------------------
(* Two goroutines call PmemInit; in one of the runs one calls runtime.GC.  *)
EXTENDS PmemInit

CONSTANTS c1, c2, k1
==============================================================================
