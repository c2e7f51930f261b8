-------------------------------- MODULE MCRtdb --------------------------------
(* Two threads in one process and one in another.                              *)
EXTENDS Rtdb
MCThreads == {"a", "b", "c"}
MCProc == [t \in MCThreads |-> IF t = "c" THEN "q" ELSE "p"]
=============================================================================
