---------------------------- MODULE MCProcess ----------------------------
(* Small instances of module Process: what the programs call, how many     *)
(* allocations fail, how many threads are created.                         *)
EXTENDS Process

Codes == {7}
System(calls, faults, tids) == [calls |-> calls, faults |-> faults, tids |-> tids]
Families == System({"exec", "fork", "wait", "exit"}, 0, 3)
FaultyFamilies == System({"exec", "fork", "wait", "exit"}, 1, 2)
Pthreads == System({"pt_create", "pt_exit", "pt_join", "exit", "practice"}, 0, 3)
FaultyPthreads == System({"pt_create", "pt_exit", "exit"}, 1, 3)
Starters == System({"pt_create"}, 0, 4)
Monitors == System({"pt_create", "lock", "sema", "exit", "practice"}, 0, 2)
Names == System({"fork", "wait", "exit", "fs"}, 0, 2)
Mixed == System({"pt_create", "fork", "wait", "exit"}, 0, 3)
Files == System({"fork", "open", "close", "io"}, 0, 2)
Shared == System({"pt_create", "open", "close", "io"}, 0, 2)
AllPrograms == {Families, FaultyFamilies, Pthreads, FaultyPthreads, Starters, Monitors, Names, Mixed,
                Files, Shared}
=============================================================================
