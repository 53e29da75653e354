------------------------------- MODULE RwLock -------------------------------
(***************************************************************************)
(* The writer-preferring readers-writers lock of threads/synch.c, built as *)
(* a monitor: a guard lock, two Mesa-style condition variables and the     *)
(* counters AR, WR, AW, WW.                                                *)
(*                                                                         *)
(* A condition variable is a list of waiters, each with a semaphore of its *)
(* own (struct semaphore_elem).  cond_wait links the waiter, releases the  *)
(* guard and only then downs its semaphore, so a signal can arrive while   *)
(* the waiter is still on its way to sleep: that window is the program     *)
(* counter "released".  A block of code that runs with the guard held is   *)
(* one action; taking the guard is an action of its own.                   *)
(***************************************************************************)
EXTENDS Naturals, FiniteSets, Sequences

CONSTANTS Thread,       \* threads using the lock
          None,         \* no holder
          Prio,         \* active_sched_policy = SCHED_PRIO
          EffPriority   \* eff_priority of each thread

ASSUME RwAssumption ==
  /\ IsFiniteSet(Thread)
  /\ None \notin Thread
  /\ Prio \in BOOLEAN
  /\ EffPriority \in [Thread -> Nat]

Role == {"read", "write"}

VARIABLES pc,       \* where each thread is
          role,     \* the reader argument of its current call
          guard,    \* holder of rw_lock->lock
          active,   \* AR and AW, by role
          waiting,  \* WR and WW, by role
          waiters,  \* waiters[r]: waiters list of the condition for role r
          sem,      \* value of each waiter's own semaphore
          kernel    \* "up", or "panicked" once an ASSERT has failed

vars == <<pc, role, guard, active, waiting, waiters, sem, kernel>>

AR == active["read"]
AW == active["write"]
WR == waiting["read"]
WW == waiting["write"]

PC == {"idle", "acquire", "test", "wait", "released", "asleep", "rewait",
       "woken", "enter", "in", "release", "releasing"}

TypeOK ==
  /\ pc \in [Thread -> PC]
  /\ role \in [Thread -> Role]
  /\ guard \in Thread \cup {None}
  /\ active \in [Role -> Nat]
  /\ waiting \in [Role -> Nat]
  /\ waiters \in [Role -> Seq(Thread)]
  /\ sem \in [Thread -> Nat]
  /\ kernel \in {"up", "panicked"}

\* rw_lock_init
Init ==
  /\ pc = [t \in Thread |-> "idle"]
  /\ role = [t \in Thread |-> "read"]
  /\ guard = None
  /\ active = [r \in Role |-> 0]
  /\ waiting = [r \in Role |-> 0]
  /\ waiters = [r \in Role |-> << >>]
  /\ sem = [t \in Thread |-> 0]
  /\ kernel = "up"

-----------------------------------------------------------------------------
(* Condition variables. *)

\* list_max over the waiters compares every one of them with another, and
\* each comparison takes list_front of the semaphore's list, which asserts
\* that the waiter is already blocked on it.
FrontInvalid(q) ==
  Prio /\ Len(q) > 1 /\ \E i \in 1..Len(q) : pc[q[i]] # "asleep"

\* The position cond_signal wakes: the first of the highest priority under
\* SCHED_PRIO, otherwise the front.
IsSignalPos(q, i) ==
  IF Prio
    THEN /\ \A j \in 1..Len(q) : EffPriority[q[j]] <= EffPriority[q[i]]
         /\ \A j \in 1..(i - 1) : EffPriority[q[j]] < EffPriority[q[i]]
    ELSE i = 1

RemovePos(q, i) == SubSeq(q, 1, i - 1) \o SubSeq(q, i + 1, Len(q))

cond_signal(r) ==
  LET q == waiters[r]
  IN  \/ q = << >> /\ UNCHANGED <<waiters, sem, kernel>>
      \/ q # << >> /\ FrontInvalid(q) /\ kernel' = "panicked" /\ UNCHANGED <<waiters, sem>>
      \/ /\ q # << >> /\ ~FrontInvalid(q)
         /\ \E i \in 1..Len(q) :
              /\ IsSignalPos(q, i)
              /\ waiters' = [waiters EXCEPT ![r] = RemovePos(q, i)]
              /\ sem' = [sem EXCEPT ![q[i]] = @ + 1]
         /\ UNCHANGED kernel

\* A mutant: cond_broadcast as an if instead of a while.
BroadcastOnce(r) == cond_signal(r)

\* cond_signal until the list is empty.
cond_broadcast(r) ==
  LET q == waiters[r]
  IN  \/ FrontInvalid(q) /\ kernel' = "panicked" /\ UNCHANGED <<waiters, sem>>
      \/ /\ ~FrontInvalid(q)
         /\ waiters' = [waiters EXCEPT ![r] = << >>]
         /\ sem' = [t \in Thread |->
                      IF \E i \in 1..Len(q) : q[i] = t THEN sem[t] + 1 ELSE sem[t]]
         /\ UNCHANGED kernel

\* The loop body up to and including cond_wait's lock_release: the waiting
\* count goes up and the thread links a new semaphore.
Wait(t) ==
  /\ pc[t] = "wait"
  /\ waiting' = [waiting EXCEPT ![role[t]] = @ + 1]
  /\ waiters' = [waiters EXCEPT ![role[t]] = Append(@, t)]
  /\ sem' = [sem EXCEPT ![t] = 0]
  /\ guard' = None
  /\ pc' = [pc EXCEPT ![t] = "released"]
  /\ UNCHANGED <<role, active, kernel>>

\* sema_down(&waiter.semaphore) finds 0 and blocks.
Sleep(t) ==
  /\ pc[t] = "released" /\ sem[t] = 0
  /\ pc' = [pc EXCEPT ![t] = "asleep"]
  /\ UNCHANGED <<role, guard, active, waiting, waiters, sem, kernel>>

\* sema_down(&waiter.semaphore) returns; next is lock_acquire(lock).
Wake(t) ==
  /\ pc[t] \in {"released", "asleep"} /\ sem[t] > 0
  /\ sem' = [sem EXCEPT ![t] = @ - 1]
  /\ pc' = [pc EXCEPT ![t] = "rewait"]
  /\ UNCHANGED <<role, guard, active, waiting, waiters, kernel>>

-----------------------------------------------------------------------------
(* The lock. *)

\* A thread calls rw_lock_acquire, or rw_lock_release on what it holds.
Call(t) ==
  /\ \/ /\ pc[t] = "idle"
        /\ \E r \in Role : role' = [role EXCEPT ![t] = r]
        /\ pc' = [pc EXCEPT ![t] = "acquire"]
     \/ /\ pc[t] = "in"
        /\ pc' = [pc EXCEPT ![t] = "release"]
        /\ UNCHANGED role
  /\ UNCHANGED <<guard, active, waiting, waiters, sem, kernel>>

\* lock_acquire(&rw_lock->lock), in the call itself or at the end of
\* cond_wait.
TakeGuard(t) ==
  /\ guard = None
  /\ \/ pc[t] = "acquire" /\ pc' = [pc EXCEPT ![t] = "test"]
     \/ pc[t] = "rewait"  /\ pc' = [pc EXCEPT ![t] = "woken"]
     \/ pc[t] = "release" /\ pc' = [pc EXCEPT ![t] = "releasing"]
  /\ guard' = t
  /\ UNCHANGED <<role, active, waiting, waiters, sem, kernel>>

\* Mutants of the readers' condition, each without one of its terms.
ReaderBlockedNoActive(a, w) == w["write"] > 0
ReaderBlockedNoWaiting(a, w) == a["write"] > 0

\* The while conditions of readers and writers.
ReaderBlocked(a, w) == a["write"] + w["write"] > 0
WriterBlocked(a) == a["read"] + a["write"] > 0

\* One test of the while condition, with w the waiting counts it sees.
TestWith(t, w) ==
  /\ pc[t] \in {"test", "woken"}
  /\ waiting' = w
  /\ pc' = [pc EXCEPT ![t] =
              IF IF role[t] = "read" THEN ReaderBlocked(active, w) ELSE WriterBlocked(active)
                THEN "wait" ELSE "enter"]
  /\ UNCHANGED <<role, guard, active, waiters, sem, kernel>>

\* Mutant of Test: the waiting count stays as it is after cond_wait.
TestKeepsCount(t) == TestWith(t, waiting)

\* The first test, or the one after the decrement that follows cond_wait.
Test(t) ==
  TestWith(t, IF pc[t] = "woken" THEN [waiting EXCEPT ![role[t]] = @ - 1] ELSE waiting)

\* AR++ or AW++ and lock_release.
Enter(t) ==
  /\ pc[t] = "enter"
  /\ active' = [active EXCEPT ![role[t]] = @ + 1]
  /\ guard' = None
  /\ pc' = [pc EXCEPT ![t] = "in"]
  /\ UNCHANGED <<role, waiting, waiters, sem, kernel>>

\* rw_lock_release with the guard held: the last reader wakes a writer; a
\* writer wakes a writer if one waits, otherwise all readers.
ReaderRelease(t) ==
  /\ pc[t] = "releasing" /\ role[t] = "read"
  /\ active' = [active EXCEPT !["read"] = @ - 1]
  /\ IF active'["read"] = 0 /\ WW > 0
       THEN cond_signal("write")
       ELSE UNCHANGED <<waiters, sem, kernel>>
  /\ guard' = None
  /\ pc' = [pc EXCEPT ![t] = "idle"]
  /\ UNCHANGED <<role, waiting>>

WriterRelease(t) ==
  /\ pc[t] = "releasing" /\ role[t] = "write"
  /\ active' = [active EXCEPT !["write"] = @ - 1]
  /\ IF WW > 0 THEN cond_signal("write")
     ELSE IF WR > 0 THEN cond_broadcast("read")
     ELSE UNCHANGED <<waiters, sem, kernel>>
  /\ guard' = None
  /\ pc' = [pc EXCEPT ![t] = "idle"]
  /\ UNCHANGED <<role, waiting>>

Step(t) ==
  /\ kernel = "up"
  /\ \/ Call(t) \/ TakeGuard(t) \/ Test(t) \/ Wait(t) \/ Sleep(t) \/ Wake(t)
     \/ Enter(t) \/ ReaderRelease(t) \/ WriterRelease(t)

\* debug_panic halts the machine.
Halted == kernel = "panicked" /\ UNCHANGED vars

Next == (\E t \in Thread : Step(t)) \/ Halted

Spec == Init /\ [][Next]_vars

-----------------------------------------------------------------------------
(* Properties. *)

\* The threads that hold the lock in role r: they have returned from
\* rw_lock_acquire and not yet run the body of rw_lock_release.
Holding(r) ==
  {t \in Thread : role[t] = r /\ pc[t] \in {"in", "release", "releasing"}}

\* The threads counted as waiting in role r: inside the while loop's body,
\* from the increment before cond_wait to the decrement after it.
InWait(r) ==
  {t \in Thread : role[t] = r /\ pc[t] \in {"released", "asleep", "rewait", "woken"}}

\* A writer excludes every other thread: while one holds the lock nobody
\* else, reader or writer, has been let through rw_lock_acquire.
Exclusion ==
  \A w \in Holding("write") :
    Holding("read") = {} /\ Holding("write") = {w}

\* The four counters are exact: AR and AW count the holders and WR and WW
\* the threads between the two updates around cond_wait, whatever the order
\* in which waiters are woken and re-test.
CountersExact ==
  /\ AR = Cardinality(Holding("read"))  /\ AW = Cardinality(Holding("write"))
  /\ WR = Cardinality(InWait("read"))   /\ WW = Cardinality(InWait("write"))

\* A waiter that has been signalled and has not yet re-tested.
Signalled(t) == sem[t] > 0 \/ pc[t] \in {"rewait", "woken"}

\* No wake-up is lost: when the lock is free and the guard released, some
\* waiting writer has its signal on the way; and when no writer is active or
\* waiting, every waiting reader has.  A signal sent to a waiter that is
\* between lock_release and sema_down in cond_wait is not dropped, and one
\* consumed by a writer that loses the race to a newcomer is replaced.
NoLostWakeup ==
  kernel = "up" /\ guard = None =>
    /\ AR + AW = 0 /\ InWait("write") # {} =>
         \E t \in InWait("write") : Signalled(t)
    /\ AW + WW = 0 => \A t \in InWait("read") : Signalled(t)

\* A step of t that needs no new call: threads that hold the lock release
\* it, and threads inside a call keep running.
Progress(t) == pc[t] # "idle" /\ Step(t)

\* The scheduler runs every ready thread, and holders release the lock.
FairSpec == Spec /\ \A t \in Thread : WF_vars(Progress(t))

\* Writers are not starved by readers: once a writer waits, some writer gets
\* the lock, although readers keep arriving, or the kernel has panicked in
\* list_front under cond_signal.
WriterProgress == (WW > 0) ~> (AW > 0 \/ kernel = "panicked")
=============================================================================
