------------------------------ MODULE MCRwLock ------------------------------
(***************************************************************************)
(* RwLock for model checking.  Four threads let two writers compete while  *)
(* two readers come and go; their priorities make cond_signal choose.       *)
(***************************************************************************)
EXTENDS RwLock

CONSTANTS t1, t2, t3, t4

Priorities == [t \in Thread |-> IF t = t1 THEN 1 ELSE IF t = t4 THEN 3 ELSE 2]
=============================================================================
