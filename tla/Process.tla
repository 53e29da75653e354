------------------------------ MODULE Process ------------------------------
(***************************************************************************)
(* Processes and their threads: src/userprog/process.c, the process,       *)
(* thread, lock and descriptor calls of src/userprog/syscall.c, and the    *)
(* open file descriptions of src/userprog/filedesc.c.                      *)
(*                                                                         *)
(* The kernel is one record k and a C function one operator on it; an      *)
(* action is what a thread does between two points where another thread    *)
(* can come between: a semaphore, a monitor, or a pair of accesses that no *)
(* lock protects.  A process is named by the tid of its main thread, which *)
(* is its pid; the process control block of the boot thread is Boot.  What *)
(* exit_lock protects is one step.  Address spaces are in module Vm.       *)
(***************************************************************************)
EXTENDS Naturals, Integers, Sequences, FiniteSets, SequencesExt

CONSTANTS MaxTid,               \* bound: thread_create is called this often
          MAX_FILE_DESCRIPTOR,  \* descriptor 0 stands for the three console ones
          MaxOfd,               \* bound: open file descriptions in memory
          MAX_THREADS,          \* stack slots of a process, 0 is the main thread's
          MAX_LOCKS, MAX_SEMAS, \* user locks and semaphores of a process
          ExitCodes,            \* arguments of exit()
          Watched,              \* the processes whose exit is followed to its end
          Programs              \* the systems to look at: the calls that programs make, and
                                \* the bounds on allocations that fail and threads created

ASSUME ProcessAssumption == /\ MaxTid \in Nat \ {0} /\ MAX_THREADS \in Nat \ {0}
                            /\ MAX_FILE_DESCRIPTOR \in Nat \ {0}
                            /\ ExitCodes \subseteq Int /\ Watched \subseteq 1 .. MaxTid

Boot == 0
Tid == 1 .. MaxTid
Pid == 0 .. MaxTid
Fd == 0 .. MAX_FILE_DESCRIPTOR - 1
None == -1
Console == 0
Ofd == 0 .. MaxOfd

VARIABLES
  k,      \* the kernel's state
  racy,   \* history: two threads of one process overlapped in its fd_table
  exited, \* history: the code a process last gave to exit(), by pid
  reaped  \* history: what wait() returned for a pid, in order

vars == <<k, racy, exited, reaped>>

(* ------------------------------------------------ threads and results *)
NoThread == [pc |-> "none", pcb |-> None, by |-> None, sig |-> "none",
             arg |-> None, stack |-> None]
NoStatus == [mem |-> "none", code |-> -1, sem |-> 0, ref |-> 0, waited |-> FALSE]
NoPstat == [mem |-> "none", sem |-> 0, joined |-> FALSE]
NoProc == [live |-> FALSE, main |-> None, children |-> <<>>, count |-> 0, exiting |-> FALSE,
           parent |-> None, fd |-> [i \in Fd |-> None], exe |-> FALSE, slots |-> {}, mapped |-> {},
           locks |-> <<>>, semas |-> <<>>]

Goto(x, t, l) == [x EXCEPT !.th[t].pc = l]
Of(x, t) == x.th[t].pcb
Members(x, p) == {t \in Tid : x.th[t].pcb = p /\ x.th[t].pc \notin {"none", "dead"}}

\* The check at the end of every system call.
SyscallEnd(x, t) ==
    Goto(x, t, IF ~x.proc[Of(x, t)].exiting THEN "user"
               ELSE IF x.proc[Of(x, t)].main = t THEN "exit" ELSE "pexit")

\* malloc, palloc_get_page or thread_create: it fails while faults are left.
Outcomes == IF k.faults > 0 THEN BOOLEAN ELSE {TRUE}
Spend(x, ok) == IF ok THEN x ELSE [x EXCEPT !.faults = @ - 1]

(* ------------------------------------------------ open file descriptions *)
\* ofd_close of a description that is already freed is a use of freed memory.
ofd_close(x, o) ==
    CASE o = Console -> [x EXCEPT !.ofd[o] = IF @ > 1 THEN @ - 1 ELSE @]
      [] o # Console /\ x.ofd[o] = 0 -> [x EXCEPT !.bad = @ \cup {"ofd"}]
      [] OTHER -> [x EXCEPT !.ofd[o] = @ - 1]

ofd_dup(x, o) ==
    IF x.ofd[o] = 0 THEN [x EXCEPT !.bad = @ \cup {"ofd"}] ELSE [x EXCEPT !.ofd[o] = @ + 1]

FreeOfds(x) == {o \in Ofd \ {Console} : x.ofd[o] = 0}
ofd_create(x, o) == [x EXCEPT !.ofd[o] = 1]

CloseFds(x, p) ==
    LET Close(i, y) == IF y.proc[p].fd[i] = None THEN y
                       ELSE [ofd_close(y, y.proc[p].fd[i]) EXCEPT !.proc[p].fd[i] = None]
    IN FoldLeft(LAMBDA y, i : Close(i, y), x, [i \in 1 .. MAX_FILE_DESCRIPTOR |-> i - 1])

\* Mutant of CopyFds: the child keeps descriptors it has, and no reference is
\* taken.
CopyFdsKeepConsole(x, p, q) ==
    LET Copy(i, y) == IF y.proc[p].fd[i] = None \/ y.proc[q].fd[i] # None THEN y
                      ELSE [y EXCEPT !.proc[q].fd[i] = y.proc[p].fd[i]]
    IN FoldLeft(LAMBDA y, i : Copy(i, y), x, [i \in 1 .. MAX_FILE_DESCRIPTOR |-> i - 1])

\* fork: the parent's descriptions are shared, the console ones given up first.
CopyFds(x, p, q) ==
    LET Copy(i, y) ==
          LET o == y.proc[p].fd[i] IN
          IF o = None THEN y
          ELSE LET z == IF y.proc[q].fd[i] = None THEN y ELSE ofd_close(y, y.proc[q].fd[i])
               IN [ofd_dup(z, o) EXCEPT !.proc[q].fd[i] = o]
    IN FoldLeft(LAMBDA y, i : Copy(i, y), x, [i \in 1 .. MAX_FILE_DESCRIPTOR |-> i - 1])

find_free_fd(x, p) ==
    LET free == {i \in Fd \ {0} : x.proc[p].fd[i] = None}
    IN IF free = {} THEN None ELSE CHOOSE i \in free : \A j \in free : i <= j

(* ------------------------------------------------------ control blocks *)
\* Console descriptions, the main thread's status (unless its malloc fails),
\* one counted thread, stack slot 0.
pcb_init(x, p, ok) ==
    [ofd_dup(x, Console) EXCEPT
        !.th[p].pcb = p,
        !.proc[p] = [NoProc EXCEPT !.live = TRUE, !.main = p, !.count = 1, !.slots = {0},
                                   !.mapped = {0}, !.fd[0] = Console],
        !.pstat[p] = IF ok THEN [NoPstat EXCEPT !.mem = "live"] ELSE NoPstat]


\* The new process is ready: its status has two holders and is on the
\* parent's list, and the creator's semaphore is raised.
Linked(x, q, t) ==
    LET p == Of(x, t) IN
    [x EXCEPT !.status[q].ref = @ + 2, !.proc[p].children = <<q>> \o @,
              !.proc[q].parent = p, !.th[t].sig = "ok", !.th[q].pc = "user"]

\* The new process could not be built: its block is freed, the creator told.
NotStarted(x, q, t) ==
    [x EXCEPT !.proc[q] = NoProc, !.th[q].pcb = None, !.th[q].pc = "leaving", !.th[t].sig = "fail"]

\* cond_broadcast(&pcb->exit_cond).
WakeAll(x, p) ==
    [x EXCEPT !.th = [t \in Tid |->
        IF @[t].pcb # p THEN @[t]
        ELSE CASE @[t].pc = "exitwait" -> [@[t] EXCEPT !.pc = "exitwoken"]
               [] @[t].pc = "mainwait" -> [@[t] EXCEPT !.pc = "mainlock"]
               [] OTHER -> @[t]]]

(* ------------------------------------------------ exec, fork and wait *)
InUser(t, call) == k.th[t].pc = "user" /\ call \in k.calls
History == UNCHANGED <<racy, exited, reaped>>
NewTid == {n \in 1 .. k.tids : k.th[n].pc = "none" /\ \A m \in Tid : k.th[m].pc = "none" => n <= m}

\* process_execute and process_fork up to the semaphore.  A status whose
\* command-line page cannot be had is lost; when the thread cannot be
\* created the caller still waits, for a signal that nobody will give.
Create(t, call, start) ==
    /\ InUser(t, call)
    /\ \/ /\ k.faults > 0
          /\ k' = Spend(SyscallEnd(k, t), FALSE)
       \/ /\ k.faults > 0
          /\ k' = Spend(Goto(k, t, "hung"), FALSE)
       \/ \E n \in NewTid :
            k' = [k EXCEPT !.th[t].pc = "exec", !.th[t].sig = "none",
                           !.th[n] = [NoThread EXCEPT !.pc = start, !.by = t],
                           !.status[n] = [NoStatus EXCEPT !.mem = "live"]]
    /\ History

process_execute(t) == Create(t, "exec", "start")
process_fork(t) == Create(t, "fork", "forked")

\* The new thread of exec.  A failed load frees the block and keeps the
\* console descriptions' counts raised.
start_process(q) ==
    LET t == k.th[q].by IN
    /\ k.th[q].pc = "start"
    /\ \/ k' = Spend(NotStarted(k, q, t), FALSE) /\ k.faults > 0
       \/ k' = [NotStarted(pcb_init(k, q, TRUE), q, t) EXCEPT !.pstat[q] = NoPstat]
       \/ \E ok \in Outcomes :
            k' = [Spend(Linked(pcb_init(k, q, ok), q, t), ok) EXCEPT !.proc[q].exe = TRUE,
                                                                     !.deny = @ + 1]
    /\ History

\* The new thread of fork: no block, no page directory, or a copy, whose
\* executable may fail to be reopened.
fork_process(q) ==
    LET t == k.th[q].by  p == Of(k, t)  y == pcb_init(k, q, TRUE) IN
    /\ k.th[q].pc = "forked"
    /\ \/ /\ k.faults > 0
          /\ \/ k' = Spend(NotStarted(k, q, t), FALSE)
             \/ k' = [Spend(NotStarted(CloseFds(y, q), q, t), FALSE) EXCEPT !.pstat[q] = NoPstat]
       \/ \E ok \in Outcomes :
            LET exe == ok /\ k.proc[p].exe IN
            k' = [Spend(Linked(CopyFds(y, p, q), q, t), ok)
                    EXCEPT !.proc[q].exe = exe, !.deny = IF exe THEN @ + 1 ELSE @]
    /\ racy' = (racy \/ \E u \in Members(k, p) : k.th[u].pc \in {"open", "close"})
    /\ UNCHANGED <<exited, reaped>>

\* sema_down(&load_info.loaded_signal) returns.
Created(t) ==
    /\ k.th[t].pc = "exec" /\ k.th[t].sig # "none"
    /\ k' = SyscallEnd(k, t)
    /\ History

\* process_wait up to the semaphore: the child is looked up in the caller's
\* list and marked as waited for.
process_wait(t) ==
    /\ InUser(t, "wait")
    /\ \E c \in Tid :
         k' = IF c \in Range(k.proc[Of(k, t)].children) /\ ~k.status[c].waited
              THEN [k EXCEPT !.status[c].waited = TRUE, !.th[t].pc = "wait", !.th[t].arg = c]
              ELSE SyscallEnd(k, t)
    /\ History

Used(x, c) == IF x.status[c].mem = "live" THEN x ELSE [x EXCEPT !.bad = @ \cup {"status"}]

\* sema_down(&child_status->wait_sem), and the exit code is read.
WaitDown(t) ==
    LET c == k.th[t].arg IN
    /\ k.th[t].pc = "wait" /\ k.status[c].sem > 0
    /\ k' = [Goto(Used(k, c), t, "waited") EXCEPT !.status[c].sem = @ - 1]
    /\ reaped' = [reaped EXCEPT ![c] = Append(@, k.status[c].code)]
    /\ UNCHANGED <<racy, exited>>

\* The reference is dropped under ref_lock; the last holder frees.
WaitDrop(t) ==
    LET c == k.th[t].arg  y == [Used(k, c) EXCEPT !.status[c].ref = @ - 1] IN
    /\ k.th[t].pc = "waited"
    /\ k' = IF y.status[c].ref = 0 THEN Goto(y, t, "waitfree") ELSE SyscallEnd(y, t)
    /\ History

RemoveChild(x, p, c) ==
    [Used(x, c) EXCEPT !.proc[p].children = SelectSeq(@, LAMBDA d : d # c),
                       !.status[c].mem = "freed",
                       !.bad = IF x.proc[p].live THEN x.bad ELSE x.bad \cup {"list"}]

WaitFree(t) ==
    /\ k.th[t].pc = "waitfree"
    /\ k' = SyscallEnd(RemoveChild(k, Of(k, t), k.th[t].arg), t)
    /\ History

(* ---------------------------------------------------------------- exit *)

\* exit(), and the death of a process by an exception or a bad pointer.
exit_process(t) ==
    /\ InUser(t, "exit")
    /\ \E code \in ExitCodes :
         /\ k' = Goto([k EXCEPT !.status[Of(k, t)].code = code], t, "exit")
         /\ exited' = [exited EXCEPT ![Of(k, t)] = code]
    /\ UNCHANGED <<racy, reaped>>

\* process_exit: from now on the process is exiting, and the other threads
\* are waited for.
ExitTest(x, t) == Goto(x, t, IF x.proc[Of(x, t)].count > 1 THEN "exitwait" ELSE "teardown")


process_exit(t) ==
    LET p == Of(k, t) IN
    /\ k.th[t].pc = "exit"
    /\ k' = ExitTest(WakeAll([k EXCEPT !.proc[p].exiting = TRUE], p), t)
    /\ History

ExitWoken(t) ==
    /\ k.th[t].pc = "exitwoken"
    /\ k' = ExitTest(k, t)
    /\ History

\* Descriptors, executable, thread statuses, user locks and semaphores.
Teardown(t) ==
    LET p == Of(k, t)  y == CloseFds(k, p) IN
    /\ k.th[t].pc = "teardown"
    /\ k' = [y EXCEPT !.th[t].pc = "post",
                      !.deny = IF y.proc[p].exe THEN @ - 1 ELSE @,
                      !.proc[p] = [@ EXCEPT !.exe = FALSE, !.mapped = {}, !.locks = <<>>,
                                            !.semas = <<>>],
                      !.pstat = [u \in Tid |-> IF k.th[u].pcb = p /\ @[u].mem = "live"
                                               THEN [@[u] EXCEPT !.mem = "freed"] ELSE @[u]]]
    /\ History

\* sema_up(&my_status->wait_sem): the waiting parent may run from here on.
Post(t) ==
    LET p == Of(k, t) IN
    /\ k.th[t].pc = "post"
    /\ k' = [Goto(Used(k, p), t, "drop") EXCEPT !.status[p].sem = @ + 1]
    /\ History

\* t->pcb is cleared before the block is freed.
FreePcb(x, t) ==
    [x EXCEPT !.proc[Of(x, t)] = NoProc, !.th[t].pcb = None, !.th[t].pc = "leaving"]

Drop(t) ==
    LET p == Of(k, t)  y == [Used(k, p) EXCEPT !.status[p].ref = @ - 1] IN
    /\ k.th[t].pc = "drop"
    /\ k' = IF y.status[p].ref = 0 THEN Goto(y, t, "unlink") ELSE FreePcb(y, t)
    /\ History

Unlink(t) ==
    LET p == Of(k, t) IN
    /\ k.th[t].pc = "unlink"
    /\ k' = FreePcb(RemoveChild(k, k.proc[p].parent, p), t)
    /\ History

thread_exit(t) ==
    /\ k.th[t].pc = "leaving"
    /\ k' = Goto(k, t, "dead")
    /\ History

(* ------------------------------------------------------------- pthreads *)
\* pthread_execute up to the semaphore.
pthread_execute(t) ==
    /\ InUser(t, "pt_create")
    /\ \/ k.faults > 0 /\ k' = Spend(SyscallEnd(k, t), FALSE)
       \/ \E n \in NewTid :
            k' = [k EXCEPT !.th[t].pc = "exec", !.th[t].sig = "none",
                           !.th[n] = [NoThread EXCEPT !.pc = "pstart", !.pcb = Of(k, t), !.by = t]]
    /\ History

\* A thread that could not start leaves; its pcb pointer stays set.
PthreadFailed(x, n) == [x EXCEPT !.th[n].pc = "leaving", !.th[x.th[n].by].sig = "fail"]

\* start_pthread up to setup_thread: no new thread once the process exits.
start_pthread(n) ==
    LET p == Of(k, n) IN
    /\ k.th[n].pc = "pstart"
    /\ \/ k.faults > 0 /\ k' = Spend(PthreadFailed(k, n), FALSE)
       \/ k' = IF k.proc[p].exiting THEN PthreadFailed(k, n)
               ELSE [k EXCEPT !.proc[p].count = @ + 1, !.th[n].pc = "pslot",
                              !.pstat[n] = [NoPstat EXCEPT !.mem = "live"]]
    /\ History

\* No stack: the thread is taken off the process again, and nobody is woken.
StackFailed(x, n) ==
    [PthreadFailed(x, n) EXCEPT !.proc[Of(x, n)].count = @ - 1, !.pstat[n].mem = "freed"]

\* setup_thread's search for a slot: the test of stack_slots and its setting
\* are two accesses that no lock joins.
FindSlot(n) ==
    LET free == 1 .. MAX_THREADS - 1 \ k.proc[Of(k, n)].slots IN
    /\ k.th[n].pc = "pslot"
    /\ k' = IF free = {} THEN StackFailed(k, n)
            ELSE [k EXCEPT !.th[n].pc = "pstack",
                           !.th[n].arg = CHOOSE i \in free : \A j \in free : i <= j]
    /\ History

\* setup_thread takes the slot, a page and the mapping; install_page refuses
\* an address that is mapped.
setup_thread(n) ==
    LET p == Of(k, n)  i == k.th[n].arg
        freed == [k EXCEPT !.proc[p].slots = @ \ {i}]
    IN /\ k.th[n].pc = "pstack"
       /\ \/ k.faults > 0 /\ k' = Spend(StackFailed(freed, n), FALSE)
          \/ k' = IF i \in k.proc[p].mapped THEN StackFailed(freed, n)
                  ELSE [k EXCEPT !.proc[p].slots = @ \cup {i}, !.proc[p].mapped = @ \cup {i},
                                 !.th[n].stack = i, !.th[n].pc = "user",
                                 !.th[k.th[n].by].sig = "ok"]
       /\ History

\* pthread_exit by its caller; the main thread goes to pthread_exit_main.
SYS_PT_EXIT(t) ==
    /\ InUser(t, "pt_exit")
    /\ k' = Goto(k, t, IF k.proc[Of(k, t)].main = t THEN "mainexit" ELSE "pexit")
    /\ History

\* The joiner is woken first, then the stack page is unmapped and freed.
pthread_exit(t) ==
    LET p == Of(k, t) IN
    /\ k.th[t].pc = "pexit"
    /\ k' = [k EXCEPT !.pstat[t].sem = @ + 1, !.th[t].pc = "punstack",
                      !.bad = IF k.pstat[t].mem = "freed" THEN @ \cup {"pstat"} ELSE @]
    /\ History

FreeStack(t) ==
    LET p == Of(k, t)  i == k.th[t].stack IN
    /\ k.th[t].pc = "punstack"
    /\ k' = [k EXCEPT !.th[t].pc = "pcount", !.th[t].stack = None,
                      !.proc[p].mapped = @ \ {i}, !.proc[p].slots = @ \ {i}]
    /\ History

\* Mutant of Uncount: nobody is woken.
UncountQuietly(t) ==
    LET p == Of(k, t) IN
    /\ k.th[t].pc = "pcount"
    /\ k' = Goto([k EXCEPT !.proc[p].count = @ - 1], t, "leaving")
    /\ History

\* The thread is no longer counted; its pcb pointer stays set.
Uncount(t) ==
    LET p == Of(k, t) IN
    /\ k.th[t].pc = "pcount"
    /\ k' = Goto(WakeAll([k EXCEPT !.proc[p].count = @ - 1], p), t, "leaving")
    /\ History

pthread_exit_main(t) ==
    /\ k.th[t].pc = "mainexit"
    /\ k' = [k EXCEPT !.pstat[t].sem = IF k.pstat[t].mem = "none" THEN @ ELSE @ + 1,
                      !.th[t].pc = "mainlock"]
    /\ History

\* The monitor of pthread_exit_main: the last thread ends the process; when
\* another thread is ending it, the main thread only leaves.
MainLast(t) ==
    LET p == Of(k, t) IN
    /\ k.th[t].pc = "mainlock"
    /\ k' = IF k.proc[p].exiting
            THEN Goto(WakeAll([k EXCEPT !.proc[p].count = @ - 1], p), t, "leaving")
            ELSE Goto(k, t, IF k.proc[p].count > 1 THEN "mainwait" ELSE "exit")
    /\ History

\* pthread_join up to the semaphore.
pthread_join(t) ==
    /\ InUser(t, "pt_join")
    /\ \E u \in Tid \ {t} :
         k' = IF Of(k, u) = Of(k, t) /\ k.pstat[u].mem = "live" /\ ~k.pstat[u].joined
              THEN [k EXCEPT !.pstat[u].joined = TRUE, !.th[t].pc = "join", !.th[t].arg = u]
              ELSE SyscallEnd(k, t)
    /\ History

JoinDown(t) ==
    LET u == k.th[t].arg IN
    /\ k.th[t].pc = "join" /\ k.pstat[u].sem > 0
    /\ k' = [k EXCEPT !.pstat[u].sem = @ - 1, !.th[t].pc = "joined",
                      !.bad = IF k.pstat[u].mem = "freed" THEN @ \cup {"pstat"} ELSE @]
    /\ History

JoinFree(t) ==
    LET u == k.th[t].arg IN
    /\ k.th[t].pc = "joined"
    /\ k' = [SyscallEnd(k, t) EXCEPT
               !.pstat[u].mem = "freed",
               !.bad = IF k.pstat[u].mem = "freed" THEN @ \cup {"pstat"} ELSE @]
    /\ History

(* ----------------------------------------- user locks and semaphores *)
LockInit(t) ==
    LET p == Of(k, t) IN
    /\ InUser(t, "lock")
    /\ k' = IF Len(k.proc[p].locks) >= MAX_LOCKS THEN SyscallEnd(k, t)
            ELSE [SyscallEnd(k, t) EXCEPT !.proc[p].locks = Append(@, None)]
    /\ History

LockAcquire(t) ==
    /\ InUser(t, "lock")
    /\ \E i \in 1 .. MAX_LOCKS :
         k' = IF i \notin DOMAIN k.proc[Of(k, t)].locks \/ k.proc[Of(k, t)].locks[i] = t
              THEN SyscallEnd(k, t)
              ELSE [k EXCEPT !.th[t].pc = "lock", !.th[t].arg = i]
    /\ History

LockGranted(t) ==
    LET p == Of(k, t)  i == k.th[t].arg IN
    /\ k.th[t].pc = "lock" /\ k.proc[p].locks[i] = None
    /\ k' = [SyscallEnd(k, t) EXCEPT !.proc[p].locks[i] = t]
    /\ History

LockRelease(t) ==
    LET p == Of(k, t) IN
    /\ InUser(t, "lock")
    /\ \E i \in DOMAIN k.proc[p].locks :
         k' = IF k.proc[p].locks[i] # t THEN SyscallEnd(k, t)
              ELSE [SyscallEnd(k, t) EXCEPT !.proc[p].locks[i] = None]
    /\ History

SemaInit(t) ==
    LET p == Of(k, t) IN
    /\ InUser(t, "sema")
    /\ k' = IF Len(k.proc[p].semas) >= MAX_SEMAS THEN SyscallEnd(k, t)
            ELSE [SyscallEnd(k, t) EXCEPT !.proc[p].semas = Append(@, 0)]
    /\ History

SemaDown(t) ==
    /\ InUser(t, "sema")
    /\ \E i \in 1 .. MAX_SEMAS :
         k' = IF i \notin DOMAIN k.proc[Of(k, t)].semas THEN SyscallEnd(k, t)
              ELSE [k EXCEPT !.th[t].pc = "sema", !.th[t].arg = i]
    /\ History

SemaGranted(t) ==
    LET p == Of(k, t)  i == k.th[t].arg IN
    /\ k.th[t].pc = "sema" /\ k.proc[p].semas[i] > 0
    /\ k' = [SyscallEnd(k, t) EXCEPT !.proc[p].semas[i] = @ - 1]
    /\ History

\* Bound: a semaphore is raised to 1 at most.
SemaUp(t) ==
    LET p == Of(k, t) IN
    /\ InUser(t, "sema")
    /\ \E i \in DOMAIN k.proc[p].semas :
         /\ k.proc[p].semas[i] = 0
         /\ k' = [SyscallEnd(k, t) EXCEPT !.proc[p].semas[i] = @ + 1]
    /\ History

(* ------------------------------------------------ descriptor calls *)
InFds == {"open", "close", "io"}
Overlap(x) == \E t, u \in Tid : /\ t # u /\ Of(x, t) = Of(x, u) /\ Of(x, t) # None
                                /\ {x.th[t].pc, x.th[u].pc} \subseteq InFds
FdHistory == racy' = (racy \/ Overlap(k')) /\ UNCHANGED <<exited, reaped>>

\* SYS_OPEN: a free descriptor is found, the description made, then stored.
SYS_OPEN(t) ==
    LET i == find_free_fd(k, Of(k, t)) IN
    /\ InUser(t, "open")
    /\ k' = IF i = None THEN SyscallEnd(k, t)
            ELSE [k EXCEPT !.th[t].pc = "open", !.th[t].arg = i]
    /\ FdHistory

OpenStore(t) ==
    LET p == Of(k, t) IN
    /\ k.th[t].pc = "open"
    /\ \/ k.faults > 0 /\ k' = Spend(SyscallEnd(k, t), FALSE)
       \/ FreeOfds(k) = {} /\ k' = SyscallEnd(k, t)
       \/ \E o \in FreeOfds(k) :
            /\ \A j \in FreeOfds(k) : o <= j
            /\ k' = [ofd_create(SyscallEnd(k, t), o) EXCEPT !.proc[p].fd[k.th[t].arg] = o]
    /\ FdHistory

\* SYS_CLOSE: the description is closed, then the entry cleared.
SYS_CLOSE(t) ==
    LET p == Of(k, t) IN
    /\ InUser(t, "close")
    /\ \E i \in Fd :
         k' = IF k.proc[p].fd[i] = None THEN SyscallEnd(k, t)
              ELSE [ofd_close(k, k.proc[p].fd[i]) EXCEPT !.th[t].pc = "close", !.th[t].arg = i]
    /\ FdHistory

CloseClear(t) ==
    /\ k.th[t].pc = "close"
    /\ k' = [SyscallEnd(k, t) EXCEPT !.proc[Of(k, t)].fd[k.th[t].arg] = None]
    /\ FdHistory

\* A buffer or a name that is not the user's ends the process.
BadPointer(t) ==
    /\ k' = Goto([k EXCEPT !.status[Of(k, t)].code = -1], t, "exit")
    /\ exited' = [exited EXCEPT ![Of(k, t)] = -1]
    /\ UNCHANGED <<racy, reaped>>

\* The description of a descriptor is looked up here and used in IoUse.
get_ofd(t) ==
    /\ \E i \in Fd \ {0} :
         LET o == k.proc[Of(k, t)].fd[i] IN
         k' = IF o = None THEN SyscallEnd(k, t)
              ELSE [k EXCEPT !.th[t].pc = "io", !.th[t].arg = o]
    /\ FdHistory

SYS_READ(t) == InUser(t, "io") /\ (get_ofd(t) \/ BadPointer(t))
SYS_WRITE(t) == InUser(t, "io") /\ (get_ofd(t) \/ BadPointer(t))
\* seek, tell, filesize, inumber
SYS_SEEK(t) == InUser(t, "io") /\ get_ofd(t)
\* readdir, isdir
SYS_READDIR(t) == InUser(t, "io") /\ get_ofd(t)

IoUse(t) ==
    /\ k.th[t].pc = "io"
    /\ k' = [SyscallEnd(k, t) EXCEPT
               !.bad = IF k.ofd[k.th[t].arg] = 0 THEN @ \cup {"ofd"} ELSE @]
    /\ FdHistory

SYS_PRACTICE(t) ==
    /\ InUser(t, "practice")
    /\ k' = SyscallEnd(k, t)
    /\ History

\* The calls that only reach the file system: create, remove, chdir, mkdir;
\* link, symlink and readlink.
FsCall(t) == InUser(t, "fs") /\ k' = SyscallEnd(k, t) /\ History
SYS_CREATE(t) == FsCall(t) \/ (InUser(t, "fs") /\ BadPointer(t))
SYS_CHDIR(t) == FsCall(t)
SYS_LINK(t) == FsCall(t) \/ (InUser(t, "fs") /\ BadPointer(t))

(* --------------------------------------------------------- the system *)
\* userprog_init and the first process_execute have run.
Init ==
  \E system \in Programs :
    /\ k = [th |-> [[t \in Tid |-> NoThread] EXCEPT ![1] = [NoThread EXCEPT !.pc = "user", !.pcb = 1]],
            proc |-> [p \in Pid |->
               CASE p = Boot -> [NoProc EXCEPT !.live = TRUE, !.children = <<1>>, !.count = 1,
                                               !.fd[0] = Console]
                 [] p = 1 -> [NoProc EXCEPT !.live = TRUE, !.main = 1, !.count = 1, !.parent = Boot,
                                            !.slots = {0}, !.mapped = {0}, !.fd[0] = Console,
                                            !.exe = TRUE]
                 [] OTHER -> NoProc],
            status |-> [[t \in Tid |-> NoStatus] EXCEPT
                          ![1] = [NoStatus EXCEPT !.mem = "live", !.ref = 2, !.waited = TRUE]],
            pstat |-> [[t \in Tid |-> NoPstat] EXCEPT ![1].mem = "live"],
            ofd |-> [o \in Ofd |-> IF o = Console THEN 3 ELSE 0],
            deny |-> 1, faults |-> system.faults, bad |-> {},
            calls |-> system.calls, tids |-> system.tids]
    /\ racy = FALSE
    /\ exited = [p \in Tid |-> -1]
    /\ reaped = [p \in Tid |-> <<>>]

\* What the kernel does for a thread once it has been asked.
KernelStep(t) ==
    \/ start_process(t) \/ fork_process(t) \/ Created(t)
    \/ WaitDown(t) \/ WaitDrop(t) \/ WaitFree(t)
    \/ process_exit(t) \/ ExitWoken(t) \/ Teardown(t) \/ Post(t) \/ Drop(t) \/ Unlink(t)
    \/ thread_exit(t)
    \/ start_pthread(t) \/ FindSlot(t) \/ setup_thread(t)
    \/ pthread_exit(t) \/ FreeStack(t) \/ Uncount(t) \/ pthread_exit_main(t) \/ MainLast(t)
    \/ JoinDown(t) \/ JoinFree(t)
    \/ LockGranted(t) \/ SemaGranted(t)
    \/ OpenStore(t) \/ CloseClear(t) \/ IoUse(t)

\* What a program may ask.
UserCall(t) ==
    \/ process_execute(t) \/ process_fork(t) \/ process_wait(t) \/ exit_process(t)
    \/ pthread_execute(t) \/ SYS_PT_EXIT(t) \/ pthread_join(t)
    \/ LockInit(t) \/ LockAcquire(t) \/ LockRelease(t)
    \/ SemaInit(t) \/ SemaDown(t) \/ SemaUp(t)
    \/ SYS_OPEN(t) \/ SYS_CLOSE(t) \/ SYS_READ(t) \/ SYS_WRITE(t) \/ SYS_SEEK(t) \/ SYS_READDIR(t)
    \/ SYS_PRACTICE(t) \/ SYS_CREATE(t) \/ SYS_CHDIR(t) \/ SYS_LINK(t)

Next == \E t \in Tid : KernelStep(t) \/ UserCall(t)

Spec == Init /\ [][Next]_vars

\* The scheduler runs every ready thread (KernelStep), and a thread of an
\* exiting process enters the kernel again: the timer cannot stop it, so the
\* code relies on the program for this.
MustStep(t) == KernelStep(t) \/ (k.th[t].pc = "user" /\ k.proc[Of(k, t)].exiting /\ UserCall(t))
FairSpec == Spec /\ \A t \in Tid : WF_vars(MustStep(t))

(* ---------------------------------------------------------- properties *)
\* Every thread, block, status and description has the shape the code gives
\* it: counts are never negative, a thread in user mode has a live process.
TypeOK ==
    /\ \A t \in Tid : /\ k.th[t].pcb \in Pid \cup {None}
                      /\ k.th[t].pc = "user" => k.proc[k.th[t].pcb].live
                      /\ k.status[t].ref \in 0 .. 2 /\ k.status[t].sem \in 0 .. 1
                      /\ k.pstat[t].sem \in 0 .. 1
    /\ \A p \in Pid : k.proc[p].count \in 0 .. MaxTid /\ Len(k.proc[p].children) <= MaxTid
    /\ \A o \in Ofd : k.ofd[o] \in Nat
    /\ k.deny \in 0 .. MaxTid /\ k.faults \in Nat

\* wait() answers at most once for a child, and with the code the child
\* last passed to exit() (process.c, process_wait and process_exit).
WaitExact ==
    \A c \in Tid : reaped[c] = <<>> \/ reaped[c] = <<exited[c]>>

\* A status is freed by its second holder and by nobody else: it is never
\* used after that, and when parent and child are done with it it is gone
\* (process.c, ref_count of struct process_status).
StatusOwned ==
    /\ "status" \notin k.bad
    /\ \A c \in Tid :
         /\ k.status[c].mem = "freed" => k.status[c].ref = 0 /\ reaped[c] # <<>>
         /\ (k.th[c].pcb # c /\ k.status[c].mem = "live" /\ reaped[c] # <<>>) =>
               \E t \in Tid : k.th[t].arg = c /\ k.th[t].pc \in {"waited", "waitfree"}

\* The count of a description is the number of descriptors that name it, in
\* all processes, so that no close frees what another process uses; the
\* console's is never too small.  Claimed while no two threads of a process
\* have been in its fd_table at once (filedesc.c, ofd_dup and ofd_close).
SharedOpenFiles ==
    LET names(o) == Cardinality({<<p, i>> \in Pid \X Fd : k.proc[p].fd[i] = o})
        closing(o) == Cardinality({t \in Tid : k.th[t].pc = "close" /\ k.proc[Of(k, t)].fd[k.th[t].arg] = o})
    IN ~racy => /\ "ofd" \notin k.bad
                /\ \A o \in Ofd \ {Console} : k.ofd[o] = names(o) - closing(o)
                /\ k.ofd[Console] >= 1 + names(Console) - closing(Console)

\* When a process is taken apart, and afterwards, no other thread is inside
\* it: every other thread that was counted has left, and no joiner or
\* exiting thread finds its thread status freed (process.c, exit_lock,
\* thread_count).
TeardownAlone ==
    /\ "pstat" \notin k.bad
    /\ \A t \in Tid : k.th[t].pc \in {"teardown", "post", "drop", "unlink"} =>
          Members(k, Of(k, t)) \subseteq
             {t} \cup {u \in Tid : k.th[u].pc \in {"leaving", "pstart"}}

\* Two threads never run on one stack page (process.c, setup_thread and the
\* refusal of install_page), though they may race for a slot.
StackPrivate ==
    \A t, u \in Tid : (t # u /\ Of(k, t) = Of(k, u) /\ k.th[t].stack # None) =>
        k.th[t].stack # k.th[u].stack

\* The executable of a running process is protected from writing: the
\* denials are as many as the processes that hold it (process.c,
\* file_deny_write; inode.c, deny_write_cnt).
ExecutableDenied == k.deny = Cardinality({p \in Pid : k.proc[p].exe})

\* What can keep an exiting process: a thread of it that waits for a child,
\* for a thread, for a user lock or semaphore, or for a thread that was never
\* created, or two threads that both end the process.
Held(p) ==
    \/ \E t \in Members(k, p) : k.th[t].pc \in {"wait", "join", "lock", "sema", "hung"}
    \/ \E t, u \in Members(k, p) : t # u /\ {k.th[t].pc, k.th[u].pc} \subseteq {"exitwait", "exitwoken"}

\* An exiting process is gone in the end, unless it is held for ever by one
\* of the waits of Held (process.c, process_exit, pthread_exit,
\* pthread_exit_main: no broadcast is missed).
ExitCompletes ==
    \A p \in Watched : (<>[]Held(p)) \/ (k.proc[p].exiting ~> ~k.proc[p].live)


\* Open files are exact: a description counts the descriptors that name it,
\* over fork, close and exit, and the executable is denied to writers while a
\* process runs it (ofd_dup, ofd_close, file_deny_write).
OpenFilesExact == SharedOpenFiles /\ ExecutableDenied

=============================================================================
