----------------------------- MODULE MCThreads -----------------------------
(* Instances of Threads for TLC. *)
EXTENDS Threads

CONSTANTS a, b

AllPolicies == {"FIFO", "PRIO", "MLFQS", "CFS", "EEVDF", "STRIDE"}
Symm == Permutations({a, b})
Calls == [p \in AllPolicies |->
            CASE p = "PRIO" -> 7 [] p \in {"FIFO", "CFS", "EEVDF"} -> 4 [] p = "STRIDE" -> 2 [] OTHER -> 3]
Ticks == [p \in AllPolicies |->
            CASE p = "PRIO" -> 1 [] p = "FIFO" -> 2 [] p = "MLFQS" -> 4 [] OTHER -> 3]
NicesUp == {0, -5}
=============================================================================
