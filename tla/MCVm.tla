------------------------------- MODULE MCVm -------------------------------
(* Small instances of module Vm: the processes and their pages, the calls  *)
(* that programs make, the accesses <<page, write>> of each thread and how *)
(* many, the frames and slots there are, the allocations that fail.        *)
EXTENDS Vm, TLC

System(procs, calls, touch, frames, slots, faults, acts) ==
    [procs |-> procs, calls |-> calls, touch |-> [t \in Thread |-> touch], frames |-> frames,
     slots |-> slots, faults |-> faults, acts |-> [t \in Thread |-> acts], extra |-> FALSE,
     caller |-> 1, at |-> {1}]
Zero == 0 :> "zero"
Write(u) == <<u, TRUE>>
Read(u) == <<u, FALSE>>
Pressure == [System(1 :> Zero @@ 2 :> (0 :> "data" @@ 1 :> "text"), {"exit"}, {Write(0)}, 1, 2, 0, 2)
             EXCEPT !.touch[2] = {Write(0), Write(1), Read(1)}]
SwapFull == System(1 :> Zero @@ 2 :> Zero, {}, {Write(0), Write(3)}, 2, 1, 0, 2)
Faulty == System(1 :> Zero @@ 2 :> Zero, {"exit"}, {Write(0)}, 1, 1, 1, 2)
Threads == [System(1 :> (0 :> "zero" @@ 1 :> "data"), {"exit"}, {Write(0), Read(1)}, 1, 2, 0, 2) EXCEPT !.extra = TRUE]
Families == [System(1 :> (0 :> "zero" @@ 1 :> "text"), {"fork", "exit"}, {Write(0), Read(1)}, 2, 2, 0, 2)
             EXCEPT !.acts[1] = 3, !.acts[2] = 1, !.acts[3] = 0]
Crowded == [System(1 :> Zero @@ 3 :> (0 :> "zero" @@ 1 :> "text"), {"fork"}, {Write(0)}, 2, 1, 0, 2)
            EXCEPT !.acts[2] = 0, !.touch[3] = {Write(0), Read(1)}, !.acts[3] = 3]
Maps == [System(1 :> Zero @@ 2 :> Zero, {"mmap", "munmap"}, {Write(1), Read(2)}, 1, 1, 1, 3) EXCEPT !.touch[2] = {Write(0)}, !.acts[2] = 1]
Anon == System(1 :> Zero, {"anon", "munmap", "exit"}, {Write(1), Write(3)}, 1, 2, 1, 3)
Copied == [System(1 :> Zero @@ 3 :> Zero, {"fork"}, {Write(0)}, 1, 2, 1, 2) EXCEPT !.acts[2] = 0, !.acts[3] = 1]
AllSystems == {Pressure, SwapFull, Faulty, Threads, Families, Copied, Crowded, Maps, Anon}
OnlyCopied == {Copied}
=============================================================================
