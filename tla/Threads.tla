------------------------------ MODULE Threads ------------------------------
(***************************************************************************)
(* Kernel threads: the schedulers of threads/thread.c, the semaphores and  *)
(* locks with priority donation of threads/synch.c, and timer_sleep and    *)
(* the timer interrupt of devices/timer.c.                                 *)
(*                                                                         *)
(* The machine has one CPU.  What the code does with interrupts off is one *)
(* step of the running thread; a timer interrupt, which may preempt it, can*)
(* come between any two steps.  A C function that other functions call is  *)
(* an operator from the kernel's state k to the state it leaves.           *)
(***************************************************************************)
EXTENDS FixedPoint, Sequences, SequencesExt, FiniteSets

CONSTANTS Thread,      \* threads, the initial one and the idle one included
          Main, Idle, None,
          Lock,
          Policies,    \* scheduling policies to boot with
          Priorities,  \* arguments of thread_create and thread_set_priority
          Nices,       \* arguments of thread_set_nice
          Naps,        \* arguments of timer_sleep
          PRI_DEFAULT, PRI_MAX, TIME_SLICE, TIMER_FREQ,
          MaxTicks,    \* bound: timer interrupts, for each policy
          MaxCalls     \* bound: calls the threads make, for each policy

ASSUME ThreadsAssumption ==
  /\ {Main, Idle} \subseteq Thread /\ Main # Idle /\ None \notin Thread \cup Lock
  /\ Policies \subseteq {"FIFO", "PRIO", "MLFQS", "CFS", "EEVDF", "STRIDE", "LOTTERY"}
  /\ Priorities \subseteq 0..PRI_MAX /\ Nices \subseteq -20..20 /\ Naps \subseteq Nat

VARIABLES k,   \* the kernel: threads, lists, locks, clock
          pc,  \* where each thread is in a call
          arg, \* each thread: the locals of that call
          gap, \* history: did a switch fall into a window of the donation code?
          calls \* bound: calls made

vars == <<k, pc, arg, gap, calls>>

VRUNTIME_SCALE == 1024

\* struct thread.
ThreadState ==
  [status : {"UNUSED", "RUNNING", "READY", "BLOCKED", "DYING"},
   priority : 0..PRI_MAX, eff : 0..PRI_MAX, waiting : Lock \cup {None},
   wake : Nat, nice : Int, recent_cpu : Int, vruntime : Nat, deadline : Nat]

\* init_thread.
init_thread(minvr, priority) ==
  [status |-> "BLOCKED", priority |-> priority, eff |-> priority, waiting |-> None,
   wake |-> 0, nice |-> 0, recent_cpu |-> 0,
   vruntime |-> minvr, deadline |-> minvr + TIME_SLICE * VRUNTIME_SCALE]

Halted == k.panic \/ k.ticks = MaxTicks[k.policy]

-----------------------------------------------------------------------------
(* Lists of threads. *)

\* list_insert_ordered with thread_priority_greater.
InsertByPriority(s, t, th) ==
  LET I == {i \in 1..Len(s) : th[t].eff > th[s[i]].eff}
  IN  InsertAt(s, IF I = {} THEN Len(s) + 1 ELSE CHOOSE i \in I : \A j \in I : i <= j, t)

\* list_max with thread_priority_less: the first of the highest.
list_max(s, th) ==
  s[CHOOSE i \in 1..Len(s) :
      /\ \A j \in 1..Len(s) : th[s[j]].eff <= th[s[i]].eff
      /\ \A j \in 1..(i - 1) : th[s[j]].eff < th[s[i]].eff]

\* The first element of s with the least value.
FirstLeast(s, value(_)) ==
  s[CHOOSE i \in 1..Len(s) :
      /\ \A j \in 1..Len(s) : value(s[i]) <= value(s[j])
      /\ \A j \in 1..(i - 1) : value(s[i]) < value(s[j])]

ByPriority(x) == x.policy \in {"PRIO", "MLFQS"}

thread_enqueue(x, t) ==
  [x EXCEPT !.ready = IF ByPriority(x) THEN InsertByPriority(@, t, x.th) ELSE Append(@, t)]

\* Mutant: a donated thread keeps its place in the ready list.
ReinsertNowhere(x, t) == x

thread_reinsert_ready(x, t) ==
  IF ByPriority(x)
    THEN [x EXCEPT !.ready = InsertByPriority(Remove(@, t), t, x.th)]
    ELSE x

thread_unblock(x, t) == [thread_enqueue(x, t) EXCEPT !.th[t].status = "READY"]

-----------------------------------------------------------------------------
(* Schedulers: the thread each one takes off a ready list that is not empty. *)

thread_schedule_cfs(x) ==
  LET vr(t) == x.th[t].vruntime IN FirstLeast(x.ready, vr)

\* eevdf_min_vruntime as thread_schedule_eevdf leaves it.
min_vruntime(x) ==
  LET m == x.th[thread_schedule_cfs(x)].vruntime
  IN  IF m > x.minvr THEN m ELSE x.minvr

thread_schedule_eevdf(x) ==
  LET eligible(t) == x.th[t].vruntime <= min_vruntime(x) + VRUNTIME_SCALE
      deadline(t) == x.th[t].deadline
      E == SelectSeq(x.ready, eligible)
  IN  IF E # << >> THEN FirstLeast(E, deadline) ELSE thread_schedule_cfs(x)

next_thread_to_run(x) ==
  IF x.ready = << >> THEN Idle
  ELSE CASE x.policy = "CFS" -> thread_schedule_cfs(x)
         [] x.policy = "EEVDF" -> thread_schedule_eevdf(x)
         [] OTHER -> Head(x.ready)

\* schedule and thread_switch_tail.  Stride and lottery are not implemented.
schedule(x) ==
  LET next == next_thread_to_run(x) IN
  IF x.ready # << >> /\ x.policy \in {"STRIDE", "LOTTERY"}
    THEN [x EXCEPT !.panic = TRUE]
    ELSE [x EXCEPT !.cur = next, !.slice = 0, !.ready = Remove(@, next),
                   !.th[x.cur].status = IF @ = "DYING" THEN "UNUSED" ELSE @,
                   !.th[next].status = "RUNNING",
                   !.minvr = IF x.policy = "EEVDF" /\ x.ready # << >>
                               THEN min_vruntime(x) ELSE @]

fair_update_vruntime(x) ==
  LET vr == x.th[x.cur].vruntime + x.slice * VRUNTIME_SCALE IN
  IF x.policy \notin {"CFS", "EEVDF"} \/ x.cur = Idle \/ x.slice = 0 THEN x
  ELSE [x EXCEPT !.th[x.cur].vruntime = vr,
                 !.th[x.cur].deadline = vr + TIME_SLICE * VRUNTIME_SCALE]

thread_block(x) ==
  schedule([fair_update_vruntime(x) EXCEPT !.th[x.cur].status = "BLOCKED"])

thread_yield(x) ==
  LET y == fair_update_vruntime(x)
      z == IF x.cur = Idle THEN y ELSE thread_enqueue(y, x.cur)
  IN  schedule([z EXCEPT !.th[x.cur].status = "READY"])

thread_exit(x) == schedule([x EXCEPT !.th[x.cur].status = "DYING"])

\* Yield to a thread of priority p if it is higher.
YieldTo(x, p) == IF p > x.th[x.cur].eff THEN thread_yield(x) ELSE x

-----------------------------------------------------------------------------
(* The multi-level feedback queue's numbers. *)

mlfqs_update_priority(r) ==
  LET p == PRI_MAX - fix_trunc(fix_unscale(r.recent_cpu, 4)) - r.nice * 2
  IN  [r EXCEPT !.priority = IF p < 0 THEN 0 ELSE IF p > PRI_MAX THEN PRI_MAX ELSE p]

mlfqs_update_recent_cpu(r, load) ==
  LET coefficient == fix_div(load * 2, load * 2 + fix_int(1))
  IN  [r EXCEPT !.recent_cpu = fix_mul(coefficient, @) + fix_int(r.nice)]

mlfqs_update_load_avg(x) ==
  LET running == Len(x.ready) + (IF x.cur = Idle THEN 0 ELSE 1)
  IN  fix_mul(fix_frac(59, 60), x.load) + fix_mul(fix_frac(1, 60), fix_int(running))

\* The threads thread_foreach visits, the idle thread left out.
OnAllList(x) == {t \in Thread \ {Idle} : x.th[t].status \notin {"UNUSED", "DYING"}}

thread_mlfqs_tick(x) ==
  IF x.cur = Idle THEN x ELSE [x EXCEPT !.th[x.cur].recent_cpu = @ + fix_int(1)]

thread_mlfqs_update_priorities(x) ==
  [x EXCEPT !.th = [t \in Thread |->
     IF t \in OnAllList(x) THEN mlfqs_update_priority(@[t]) ELSE @[t]]]

thread_mlfqs_update_stats(x) ==
  LET load == mlfqs_update_load_avg(x)
  IN  [x EXCEPT !.load = load,
                !.th = [t \in Thread |->
                  IF t \in OnAllList(x)
                    THEN mlfqs_update_priority(mlfqs_update_recent_cpu(@[t], load))
                    ELSE @[t]]]

-----------------------------------------------------------------------------
(* The timer interrupt, with the yield it ends in. *)

MlfqsTick(x) ==
  LET y == thread_mlfqs_tick(x) IN
  CASE x.policy # "MLFQS" -> x
    [] x.ticks % TIMER_FREQ = 0 -> thread_mlfqs_update_stats(y)
    [] x.ticks % TIMER_FREQ # 0 /\ x.ticks % 4 = 0 -> thread_mlfqs_update_priorities(y)
    [] OTHER -> y

\* The sleepers at the front of the list whose tick has come.
Due(x) ==
  LET late == {i \in 1..Len(x.sleeping) : x.th[x.sleeping[i]].wake > x.ticks}
      n == IF late = {} THEN Len(x.sleeping) ELSE (CHOOSE i \in late : \A j \in late : i <= j) - 1
  IN  SubSeq(x.sleeping, 1, n)

WakeSleepers(x) ==
  LET due == Due(x) IN
  FoldLeft(thread_unblock,
           [x EXCEPT !.sleeping = SubSeq(@, Len(due) + 1, Len(@))], due)

timer_interrupt(x) ==
  WakeSleepers(MlfqsTick([x EXCEPT !.ticks = @ + 1, !.slice = @ + 1]))

\* Mutant: sleepers are kept in the order of their calls.
InsertSleeperLast(x, t) == [x EXCEPT !.sleeping = Append(@, t)]

\* timer_sleep: before the first sleeper that wakes later.
InsertSleeper(x, t) ==
  LET I == {i \in 1..Len(x.sleeping) : x.th[t].wake < x.th[x.sleeping[i]].wake}
  IN  [x EXCEPT !.sleeping =
         InsertAt(@, IF I = {} THEN Len(@) + 1 ELSE CHOOSE i \in I : \A j \in I : i <= j, t)]

-----------------------------------------------------------------------------
(* Priority donation. *)

\* The base priority and the priorities of the waiters of the locks H.
MaxDonation(x, t, H) ==
  LET P == {x.th[t].priority} \cup
             UNION {{x.th[u].eff : u \in ToSet(x.lock[l].waiters)} : l \in H}
  IN  CHOOSE p \in P : \A q \in P : q <= p

Raise(x, t, p) ==
  LET y == [x EXCEPT !.th[t].eff = p]
  IN  IF x.th[t].status = "READY" THEN thread_reinsert_ready(y, t) ELSE y

\* The donation of lock_acquire to h, and on along the chain of waiting_lock.
DonateTo(x, h) ==
  LET holderOf(y, t) == IF y.th[t].waiting = None THEN None
                        ELSE y.lock[y.th[t].waiting].holder
      chain[n \in 0..Cardinality(Lock)] ==
        IF n = 0 THEN [x |-> Raise(x, h, x.th[x.cur].eff), h |-> h]
        ELSE LET c == chain[n - 1]
                 u == holderOf(c.x, c.h)
             IN  IF u = None THEN c
                 ELSE [x |-> IF c.x.th[c.h].eff > c.x.th[u].eff
                               THEN Raise(c.x, u, c.x.th[c.h].eff) ELSE c.x,
                       h |-> u]
  IN  chain[Cardinality(Lock)].x

\* Mutant: sema_up does not wake when it is not the last waiter's turn.
SemaUpLastOnly(x, l) ==
  [x |-> IF Len(x.lock[l].waiters) = 1
           THEN [thread_unblock(x, x.lock[l].waiters[1])
                   EXCEPT !.lock[l].waiters = << >>, !.lock[l].value = @ + 1]
           ELSE [x EXCEPT !.lock[l].value = @ + 1],
   woken |-> None]

\* sema_up with interrupts off: the state it leaves and the thread it woke.
sema_up(x, l) ==
  LET W == x.lock[l].waiters
      t == IF x.policy = "PRIO" THEN list_max(W, x.th) ELSE Head(W)
  IN  IF W = << >> THEN [x |-> [x EXCEPT !.lock[l].value = @ + 1], woken |-> None]
      ELSE [x |-> [thread_unblock(x, t) EXCEPT !.lock[l].waiters = Remove(@, t),
                                               !.lock[l].value = @ + 1],
            woken |-> t]

\* sema_down with interrupts off: the caller gets on, or waits and is switched.
sema_down(x, l) ==
  IF x.lock[l].value = 0
    THEN thread_block([x EXCEPT !.lock[l].waiters = Append(@, x.cur)])
    ELSE [x EXCEPT !.lock[l].value = @ - 1]
-----------------------------------------------------------------------------
(* Calls of the running thread t. *)

Free == [lock |-> None, saved |-> None]
Windows == {"donate", "down", "take", "lower", "unhold", "up", "setprio"}

Init ==
  /\ \E policy \in Policies :
       k = [policy |-> policy, panic |-> FALSE, cur |-> Main, ready |-> << >>, slice |-> 0,
            th |-> [t \in Thread |->
                      [init_thread(0, IF t = Main THEN PRI_DEFAULT ELSE 0)
                         EXCEPT !.status = CASE t = Main -> "RUNNING" [] t = Idle -> "BLOCKED"
                                             [] OTHER -> "UNUSED"]],
            held |-> [t \in Thread |-> {}],
            lock |-> [l \in Lock |-> [value |-> 1, waiters |-> << >>, holder |-> None]],
            sleeping |-> << >>, ticks |-> 0, load |-> 0, minvr |-> 0]
  /\ pc = [t \in Thread |-> "run"] /\ arg = [t \in Thread |-> Free] /\ gap = FALSE
  /\ calls = 0

Running(t, where) ==
  /\ ~k.panic /\ k.cur = t /\ t # Idle /\ pc[t] = where
  /\ IF where = "run" THEN calls < MaxCalls[k.policy] /\ calls' = calls + 1 ELSE UNCHANGED calls
Goto(t, where) == pc' = [pc EXCEPT ![t] = where]
Locals(t, l, v) == arg' = [arg EXCEPT ![t] = [lock |-> l, saved |-> v]]

\* lock_acquire, up to what it finds out about the holder.  Locks are taken
\* in ascending order, as in the kernel's lock hierarchy.
BeginAcquire(t) ==
  /\ Running(t, "run")
  /\ \E l \in Lock :
       LET h == k.lock[l].holder
           donates == k.policy = "PRIO" /\ h # None /\ k.th[t].eff > k.th[h].eff
       IN  /\ \A m \in k.held[t] : m < l
           /\ k' = IF k.policy = "PRIO" THEN [k EXCEPT !.th[t].waiting = l] ELSE k
           /\ Locals(t, l, IF donates THEN h ELSE None)
           /\ Goto(t, IF donates THEN "donate" ELSE "down")
  /\ UNCHANGED gap

\* Mutant: the donation stops at the holder.
DonateOnce(t) ==
  /\ Running(t, "donate")
  /\ k' = Raise(k, arg[t].saved, k.th[t].eff)
  /\ Locals(t, arg[t].lock, None) /\ Goto(t, "down")
  /\ UNCHANGED gap

\* Interrupts off: the donation to the holder it saw, and along the chain.
Donate(t) ==
  /\ Running(t, "donate")
  /\ k' = DonateTo(k, arg[t].saved)
  /\ Locals(t, arg[t].lock, None) /\ Goto(t, "down")
  /\ UNCHANGED gap

\* One turn of sema_down's loop.  A thread that is woken and finds the value
\* 0 again has lost the lock to another, to whom it does not donate.
Down(t) ==
  LET l == arg[t].lock IN
  /\ Running(t, "down")
  /\ k' = sema_down(k, l)
  /\ IF k.lock[l].value = 0 THEN UNCHANGED pc ELSE Goto(t, "take")
  /\ Locals(t, l, IF k.lock[l].value = 0 THEN t ELSE None)
  /\ gap' = (gap \/ (k.lock[l].value = 0 /\ arg[t].saved = t))

\* The end of lock_acquire and lock_try_acquire.
Take(t) ==
  LET l == arg[t].lock IN
  /\ Running(t, "take")
  /\ k' = [k EXCEPT !.lock[l].holder = t, !.th[t].waiting = None, !.held[t] = @ \cup {l}]
  /\ Locals(t, None, None) /\ Goto(t, "run")
  /\ UNCHANGED gap

TryAcquire(t) ==
  /\ Running(t, "run")
  /\ \E l \in Lock :
       /\ l \notin k.held[t] /\ k.lock[l].value > 0
       /\ k' = [k EXCEPT !.lock[l].value = @ - 1]
       /\ Locals(t, l, None) /\ Goto(t, "take")
  /\ UNCHANGED gap

\* lock_release: the priority that remains is worked out ...
BeginRelease(t) ==
  /\ Running(t, "run")
  /\ \E l \in k.held[t] :
       /\ k' = [k EXCEPT !.held[t] = @ \ {l}]
       /\ Locals(t, l, MaxDonation(k, t, k.held[t] \ {l}))
       /\ Goto(t, IF k.policy = "PRIO" THEN "lower" ELSE "unhold")
  /\ UNCHANGED gap

\* ... and set, ...
Lower(t) ==
  /\ Running(t, "lower")
  /\ k' = [k EXCEPT !.th[t].eff = arg[t].saved]
  /\ Goto(t, "unhold")
  /\ UNCHANGED <<arg, gap>>

\* ... the lock has no holder, ...
Unhold(t) ==
  /\ Running(t, "unhold")
  /\ k' = [k EXCEPT !.lock[arg[t].lock].holder = None]
  /\ Goto(t, "up")
  /\ UNCHANGED <<arg, gap>>

\* ... and a waiter is woken.
Up(t) ==
  LET u == sema_up(k, arg[t].lock) IN
  /\ Running(t, "up")
  /\ k' = u.x
  /\ Locals(t, None, u.woken)
  /\ Goto(t, IF u.woken = None THEN "run" ELSE "check")
  /\ UNCHANGED gap

\* The end of sema_up and thread_create: yield if the other thread is higher.
\* It may be gone by now, and then its page holds anything.
CheckYield(t) ==
  LET u == arg[t].saved IN
  /\ Running(t, "check")
  /\ \/ k' = YieldTo(k, k.th[u].eff)
     \/ k.th[u].status = "UNUSED" /\ k' \in {k, thread_yield(k)}
  /\ Locals(t, None, None) /\ Goto(t, "run")
  /\ UNCHANGED gap

\* thread_set_priority, up to the priority it has worked out.
SetPriority(t) ==
  /\ Running(t, "run") /\ k.policy # "MLFQS"
  /\ \E p \in Priorities \ {k.th[t].priority} :
       LET y == [k EXCEPT !.th[t].priority = p] IN
       IF k.policy = "PRIO"
         THEN k' = y /\ Locals(t, None, MaxDonation(y, t, k.held[t])) /\ Goto(t, "setprio")
         ELSE k' = [y EXCEPT !.th[t].eff = p] /\ UNCHANGED <<arg, pc>>
  /\ UNCHANGED gap

FinishSetPriority(t) ==
  LET y == [k EXCEPT !.th[t].eff = arg[t].saved] IN
  /\ Running(t, "setprio")
  /\ k' = IF y.ready = << >> THEN y ELSE YieldTo(y, y.th[Head(y.ready)].eff)
  /\ Locals(t, None, None) /\ Goto(t, "run")
  /\ UNCHANGED gap

\* Under the other policies the nice value is set and never read.
thread_set_nice(t) ==
  /\ Running(t, "run") /\ k.policy = "MLFQS"
  /\ \E n \in Nices \ {k.th[t].nice} :
       k' = thread_yield([k EXCEPT !.th[t] = mlfqs_update_priority([@ EXCEPT !.nice = n])])
  /\ UNCHANGED <<pc, arg, gap>>

\* timer_sleep: the clock is read ...
BeginSleep(t) ==
  /\ Running(t, "run")
  /\ \E n \in Naps : Locals(t, None, k.ticks + n)
  /\ Goto(t, "sleep")
  /\ UNCHANGED <<k, gap>>

\* ... and then, with interrupts off, the thread put in its place and blocked.
Sleep(t) ==
  /\ Running(t, "sleep")
  /\ k' = thread_block(InsertSleeper([k EXCEPT !.th[t].wake = arg[t].saved], t))
  /\ Locals(t, None, None) /\ Goto(t, "run")
  /\ UNCHANGED gap

thread_create(t) ==
  /\ Running(t, "run")
  /\ \E u \in Thread, p \in Priorities :
       /\ k.th[u].status = "UNUSED"
       /\ k' = thread_unblock([k EXCEPT !.th[u] = init_thread(k.minvr, p)], u)
       /\ Locals(t, None, u) /\ Goto(t, "check")
  /\ UNCHANGED gap

Yield(t) ==
  /\ Running(t, "run") /\ k' = thread_yield(k)
  /\ UNCHANGED <<pc, arg, gap>>

Exit(t) ==
  /\ Running(t, "run") /\ t # Main /\ k.held[t] = {}
  /\ k' = thread_exit(k)
  /\ UNCHANGED <<pc, arg, gap>>

\* A timer interrupt.  At the end of a time slice the thread it interrupted
\* yields; the idle thread goes on round its loop, and blocks.
Tick ==
  LET y == timer_interrupt(k)
      z == IF y.slice >= TIME_SLICE THEN thread_yield(y) ELSE y
  IN  /\ ~Halted
      /\ k' = IF k.cur = Idle THEN thread_block(y) ELSE z
      /\ gap' = (gap \/ (k'.cur # k.cur /\ pc[k.cur] \in Windows))
      /\ UNCHANGED <<pc, arg, calls>>

Step(t) ==
  \/ BeginAcquire(t) \/ Donate(t) \/ Down(t) \/ Take(t) \/ TryAcquire(t)
  \/ BeginRelease(t) \/ Lower(t) \/ Unhold(t) \/ Up(t) \/ CheckYield(t)
  \/ SetPriority(t) \/ FinishSetPriority(t) \/ thread_set_nice(t)
  \/ BeginSleep(t) \/ Sleep(t) \/ thread_create(t) \/ Yield(t) \/ Exit(t)

Next == Tick \/ \E t \in Thread : Step(t)

Spec == Init /\ [][Next]_vars

-----------------------------------------------------------------------------
(* Properties. *)

Alive == {t \in Thread : k.th[t].status # "UNUSED"}

\* The scheduler's state is well formed: effective priorities are within
\* 0..PRI_MAX whatever the MLFQS arithmetic gives (mlfqs_update_priority), and
\* locks, lists and counters within their ranges.
TypeOK ==
  /\ k.th \in [Thread -> ThreadState] /\ k.cur \in Thread /\ k.slice \in 0..TIME_SLICE
  /\ k.lock \in [Lock -> [value : 0..1, waiters : Seq(Thread), holder : Thread \cup {None}]]
  /\ k.held \in [Thread -> SUBSET Lock] /\ k.ticks \in 0..MaxTicks[k.policy] /\ k.load \in Nat
  /\ pc \in [Thread -> Windows \cup {"run", "check", "sleep"}] /\ gap \in BOOLEAN

\* A thread's list element is in one list at a time, the one its status says:
\* READY in the ready list, BLOCKED among the waiters of one semaphore or the
\* sleepers, RUNNING and dead in none (struct thread's elem serves them all).
OneListEach ==
  LET lists == k.ready \o k.sleeping \o FlattenSeq([l \in Lock |-> k.lock[l].waiters])
      in(s, t) == Len(SelectSeq(s, LAMBDA u : u = t))
  IN  \A t \in Thread \ {Idle} :
        LET s == k.th[t].status IN
        /\ in(lists, t) = IF s \in {"READY", "BLOCKED"} THEN 1 ELSE 0
        /\ s = "READY" <=> in(k.ready, t) = 1
        /\ k.panic \/ (s = "RUNNING" <=> k.cur = t)

\* A lock's value is 0 exactly while one thread has it: the holder, one about
\* to become the holder, or one about to up the semaphore (lock_acquire,
\* lock_try_acquire, lock_release).
LockExact ==
  \A l \in Lock :
    Cardinality({t \in Alive : k.lock[l].holder = t \/
                               (pc[t] \in {"take", "up"} /\ arg[t].lock = l)})
      = 1 - k.lock[l].value

\* While a lock is free and threads wait for it, one that was woken is on its
\* way to take it: sema_up loses no wake-up.
NoLostWakeup ==
  \A l \in Lock :
    k.lock[l].value > 0 /\ k.lock[l].waiters # << >> =>
      \E t \in Thread : /\ k.th[t].status \in {"READY", "RUNNING"}
                        /\ pc[t] = "down" /\ arg[t].lock = l

\* No sleeper is overslept: after a timer interrupt nobody is left on the
\* sleepers' list whose tick has come, and nobody is taken off it early.
AlarmExact ==
  [][/\ k'.ticks # k.ticks =>
          \A t \in ToSet(k'.sleeping) : k'.th[t].wake > k'.ticks
     /\ \A t \in ToSet(k.sleeping) \ ToSet(k'.sleeping) : k.th[t].wake <= k'.ticks]_vars

\* The ready list of the priority scheduler is in the order of the effective
\* priorities, whatever donations change them (thread_reinsert_ready).
ReadyByPriority ==
  k.policy = "PRIO" =>
    \A i, j \in 1..Len(k.ready) : i < j => k.th[k.ready[i]].eff >= k.th[k.ready[j]].eff

\* A thread's effective priority is the highest of its own and those of the
\* threads waiting for locks it holds, as thread.h:161 has it, as long as no
\* switch falls into lock_acquire, lock_release or thread_set_priority and no
\* woken waiter loses the lock.
DonationExact ==
  k.policy = "PRIO" /\ ~gap /\ pc[k.cur] # "down" =>
    \A t \in Alive : pc[t] \in Windows \ {"down"} \/ k.th[t].eff = MaxDonation(k, t, k.held[t])

\* The scheduler's lists are exact: priorities stay within their range whatever
\* MLFQS computes, every thread is in the one list its status says, and the
\* ready list is in the order of the effective priorities while donations change
\* them (thread_unblock, sema_up, thread_reinsert_ready, timer_interrupt).
QueuesExact == TypeOK /\ OneListEach /\ ReadyByPriority

\* Locks are exact: the value is 0 exactly while one thread has the lock, and a
\* free lock that threads wait for has a woken thread on its way to take it, so
\* that sema_up loses no wake-up to a newcomer (lock_acquire, lock_release).
LocksExact == LockExact /\ NoLostWakeup
=============================================================================
