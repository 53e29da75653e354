---------------------------- MODULE RwLockProofs ----------------------------
(***************************************************************************)
(* Type correctness, exactness of the counters, mutual exclusion and the   *)
(* absence of lost wake-ups of the readers-writers lock, for any finite    *)
(* set of threads, any priorities and either scheduling policy.            *)
(*                                                                         *)
(* Exclusion is not inductive: it speaks of the threads that hold the lock *)
(* while the code decides by the counters.  The invariant adds that the    *)
(* counters are exact, that code between lock_acquire and lock_release     *)
(* runs with the guard, and that the test a thread has passed still holds  *)
(* when it increments its counter.                                         *)
(***************************************************************************)
EXTENDS RwLock, FiniteSetTheorems, SequenceTheorems, TLAPS

\* First-order steps: leaves that compute or rewrite functions cite SMT.
USE Zenon

Guarded == {"test", "woken", "wait", "enter", "releasing"}

\* Code between lock_acquire and lock_release runs with the guard held.
GuardHeld == \A t \in Thread : pc[t] \in Guarded => guard = t

\* The while condition a thread has found false is still false when it
\* reaches the increment.
TestStillValid ==
  \A t \in Thread : pc[t] = "enter" =>
    AW = 0 /\ (role[t] = "write" => AR = 0)

\* Exclusion as the counters see it.
CountsExclusive == AW > 0 => AW = 1 /\ AR = 0

IInv == TypeOK /\ GuardHeld /\ TestStillValid /\ CountersExact /\ CountsExclusive

\* The sets the counters count are finite.
LEMMA SetsFinite ==
  \A r \in Role : /\ IsFiniteSet(Holding(r)) /\ Cardinality(Holding(r)) \in Nat
                  /\ IsFiniteSet(InWait(r))  /\ Cardinality(InWait(r)) \in Nat
<1> SUFFICES ASSUME NEW r \in Role
             PROVE  /\ IsFiniteSet(Holding(r)) /\ Cardinality(Holding(r)) \in Nat
                    /\ IsFiniteSet(InWait(r))  /\ Cardinality(InWait(r)) \in Nat
  OBVIOUS
<1>1. Holding(r) \in SUBSET Thread /\ InWait(r) \in SUBSET Thread
  BY DEF Holding, InWait
<1> QED
  BY <1>1, RwAssumption, FS_Subset, FS_CardinalityType

\* The initial state satisfies the invariant: nobody holds or waits.
LEMMA InitIInv == Init => IInv
<1> SUFFICES ASSUME Init PROVE IInv
  OBVIOUS
<1>1. TypeOK
  <2>1. waiters \in [Role -> Seq(Thread)]
    BY SMT DEF Init
  <2>2. /\ pc \in [Thread -> PC] /\ role \in [Thread -> Role]
        /\ guard \in Thread \cup {None}
        /\ active \in [Role -> Nat] /\ waiting \in [Role -> Nat]
        /\ sem \in [Thread -> Nat] /\ kernel \in {"up", "panicked"}
    BY DEF Init, PC, Role
  <2> QED
    BY <2>1, <2>2 DEF TypeOK
<1>2. \A r \in Role : Holding(r) = {} /\ InWait(r) = {}
  BY DEF Init, Holding, InWait
<1>3. CountersExact
  BY <1>2, FS_EmptySet DEF Init, CountersExact, AR, AW, WR, WW, Role
<1>4. GuardHeld /\ TestStillValid /\ CountsExclusive
  BY SMT DEF Init, GuardHeld, Guarded, TestStillValid, CountsExclusive, AR, AW, Role
<1> QED
  BY <1>1, <1>3, <1>4 DEF IInv

\* What cond_signal and cond_broadcast do to the types they touch.
LEMMA SignalTypes ==
  ASSUME TypeOK, NEW r \in Role, cond_signal(r) \/ cond_broadcast(r)
  PROVE  /\ waiters' \in [Role -> Seq(Thread)]
         /\ sem' \in [Thread -> Nat]
         /\ kernel' \in {"up", "panicked"}
<1> DEFINE q == waiters[r]
<1>0. q \in Seq(Thread) /\ sem \in [Thread -> Nat]
  BY DEF TypeOK
<1>s. \A t \in Thread : sem[t] + 1 \in Nat
  BY SMT, <1>0
<1> HIDE DEF q
<1>1. CASE cond_signal(r)
  <2>1. CASE UNCHANGED <<waiters, sem, kernel>>
    BY <2>1 DEF TypeOK
  <2>2. CASE kernel' = "panicked" /\ UNCHANGED <<waiters, sem>>
    BY <2>2 DEF TypeOK
  <2>3. ASSUME NEW i \in 1..Len(q),
               waiters' = [waiters EXCEPT ![r] = RemovePos(q, i)],
               sem' = [sem EXCEPT ![q[i]] = @ + 1],
               UNCHANGED kernel
        PROVE  /\ waiters' \in [Role -> Seq(Thread)]
               /\ sem' \in [Thread -> Nat]
               /\ kernel' \in {"up", "panicked"}
    <3>1. q[i] \in Thread
      BY SMT, <1>0
    <3>2. SubSeq(q, 1, i - 1) \in Seq(Thread) /\ SubSeq(q, i + 1, Len(q)) \in Seq(Thread)
      BY SMT, <1>0
    <3>3. RemovePos(q, i) \in Seq(Thread)
      BY SMT, <3>2 DEF RemovePos
    <3>4. waiters' \in [Role -> Seq(Thread)]
      BY <2>3, <3>3 DEF TypeOK
    <3>5. sem' \in [Thread -> Nat]
      BY <1>0, <1>s, <2>3, <3>1
    <3> QED
      BY <2>3, <3>4, <3>5, SMTT(30) DEF TypeOK
  <2> QED
    BY <1>1, <2>1, <2>2, <2>3 DEF cond_signal, q
<1>2. CASE cond_broadcast(r)
  <2>1. CASE kernel' = "panicked" /\ UNCHANGED <<waiters, sem>>
    BY <2>1 DEF TypeOK
  <2>2. CASE /\ waiters' = [waiters EXCEPT ![r] = << >>]
             /\ sem' = [t \in Thread |->
                          IF \E i \in 1..Len(q) : q[i] = t THEN sem[t] + 1 ELSE sem[t]]
             /\ UNCHANGED kernel
    <3>1. << >> \in Seq(Thread)
      BY SMT
    <3>2. waiters' \in [Role -> Seq(Thread)]
      BY <2>2, <3>1 DEF TypeOK
    <3>3. sem' \in [Thread -> Nat]
      BY <1>0, <1>s, <2>2
    <3> QED
      BY <2>2, <3>2, <3>3, SMTT(30) DEF TypeOK
  <2> QED
    BY <1>2, <2>1, <2>2 DEF cond_broadcast, q
<1> QED
  BY <1>1, <1>2

\* Taking the guard, sleeping, waking and calling move no thread in or out
\* of the counted sets.
LEMMA QuietSteps ==
  ASSUME TypeOK, NEW t \in Thread, Call(t) \/ TakeGuard(t) \/ Sleep(t) \/ Wake(t)
  PROVE  \A r \in Role : Holding(r)' = Holding(r) /\ InWait(r)' = InWait(r)
<1>1. CASE Call(t)
  BY SMT, <1>1 DEF Call, TypeOK, PC, Role, Holding, InWait
<1>2. CASE TakeGuard(t)
  BY <1>2 DEF TakeGuard, TypeOK, PC, Role, Holding, InWait
<1>3. CASE Sleep(t)
  BY <1>3 DEF Sleep, TypeOK, PC, Role, Holding, InWait
<1>4. CASE Wake(t)
  BY <1>4 DEF Wake, TypeOK, PC, Role, Holding, InWait
<1> QED
  BY <1>1, <1>2, <1>3, <1>4

\* Every step keeps the types.  The two decrements stay in Nat because the
\* counters are exact and the thread that decrements is itself counted.
LEMMA TypeStep ==
  ASSUME IInv, NEW t \in Thread, Step(t)
  PROVE  TypeOK'
<1> USE DEF IInv, TypeOK, PC, Role
<1>1. CASE Call(t)
  BY <1>1 DEF Call
<1>2. CASE TakeGuard(t)
  BY <1>2 DEF TakeGuard
<1>3. CASE Sleep(t)
  BY <1>3 DEF Sleep
<1>4. CASE Wake(t)
  BY SMT, <1>4 DEF Wake
<1>5. CASE Test(t)
  <2>1. pc[t] = "woken" => waiting[role[t]] > 0
    <3> SUFFICES ASSUME pc[t] = "woken" PROVE waiting[role[t]] > 0
      OBVIOUS
    <3>1. role[t] \in Role /\ t \in InWait(role[t])
      BY DEF InWait
    <3>2. InWait(role[t]) # {} /\ Cardinality(InWait(role[t])) # 0
      BY <3>1, SetsFinite, FS_EmptySet
    <3> QED
      BY SMT, <3>1, <3>2, SetsFinite DEF CountersExact, WR, WW
  <2>2. waiting' \in [Role -> Nat]
    BY SMT, <1>5, <2>1 DEF Test, TestWith
  <2> QED
    BY <1>5, <2>2 DEF Test, TestWith
<1>6. CASE Wait(t)
  <2>1. Append(waiters[role[t]], t) \in Seq(Thread)
    BY SMT
  <2> QED
    BY <1>6, <2>1, SMTT(30) DEF Wait
<1>7. CASE Enter(t)
  BY SMT, <1>7 DEF Enter
<1>8. CASE ReaderRelease(t) \/ WriterRelease(t)
  <2>1. pc[t] = "releasing"
    BY <1>8 DEF ReaderRelease, WriterRelease
  <2>2. t \in Holding(role[t]) /\ role[t] \in Role
    BY <2>1 DEF Holding
  <2>3. Cardinality(Holding(role[t])) # 0
    BY <2>2, SetsFinite, FS_EmptySet
  <2>4. active[role[t]] > 0
    BY SMT, <2>2, <2>3, SetsFinite DEF CountersExact, AR, AW
  <2>5. active' \in [Role -> Nat]
    BY SMT, <1>8, <2>4 DEF ReaderRelease, WriterRelease
  <2>6. \/ UNCHANGED <<waiters, sem, kernel>>
        \/ cond_signal("write") \/ cond_broadcast("read")
    BY <1>8 DEF ReaderRelease, WriterRelease
  <2>7. /\ waiters' \in [Role -> Seq(Thread)]
        /\ sem' \in [Thread -> Nat]
        /\ kernel' \in {"up", "panicked"}
    BY <2>6, SignalTypes
  <2>8. pc' \in [Thread -> PC] /\ guard' = None /\ UNCHANGED <<role, waiting>>
    BY <1>8 DEF ReaderRelease, WriterRelease
  <2> QED
    BY <2>5, <2>7, <2>8, SMTT(30)
<1> QED
  BY <1>1, <1>2, <1>3, <1>4, <1>5, <1>6, <1>7, <1>8 DEF Step

\* CountersExact says the same of both roles.
LEMMA CountersByRole ==
  CountersExact <=> \A r \in Role : /\ active[r] = Cardinality(Holding(r))
                                   /\ waiting[r] = Cardinality(InWait(r))
BY DEF CountersExact, AR, AW, WR, WW, Role

\* One thread joining or leaving a counted set changes its size by one.
LEMMA CountOne ==
  ASSUME NEW r \in Role, NEW t \in Thread
  PROVE  /\ t \notin Holding(r) =>
              Cardinality(Holding(r) \cup {t}) = Cardinality(Holding(r)) + 1
         /\ t \in Holding(r) =>
              Cardinality(Holding(r) \ {t}) = Cardinality(Holding(r)) - 1
         /\ t \notin InWait(r) =>
              Cardinality(InWait(r) \cup {t}) = Cardinality(InWait(r)) + 1
         /\ t \in InWait(r) =>
              Cardinality(InWait(r) \ {t}) = Cardinality(InWait(r)) - 1
BY SetsFinite, FS_AddElement, FS_RemoveElement

\* Every step keeps the counters exact.
LEMMA CountersStep ==
  ASSUME IInv, NEW t \in Thread, Step(t)
  PROVE  CountersExact'
<1>0. /\ \A r \in Role : /\ active[r] = Cardinality(Holding(r))
                         /\ waiting[r] = Cardinality(InWait(r))
      /\ TypeOK /\ role[t] \in Role
  BY CountersByRole DEF IInv, TypeOK
<1> SUFFICES \A r \in Role : /\ active'[r] = Cardinality(Holding(r)')
                            /\ waiting'[r] = Cardinality(InWait(r)')
  BY DEF CountersExact, AR, AW, WR, WW, Role
<1>1. CASE Call(t) \/ TakeGuard(t) \/ Sleep(t) \/ Wake(t)
  <2>1. UNCHANGED <<active, waiting>>
    BY <1>1 DEF Call, TakeGuard, Sleep, Wake
  <2> QED
    BY <1>0, <1>1, <2>1, QuietSteps
<1>2. CASE Test(t)
  <2>1. \A r \in Role : Holding(r)' = Holding(r)
    BY <1>0, <1>2 DEF Test, TestWith, TypeOK, Holding
  <2>2. CASE pc[t] = "woken"
    <3>1. /\ \A r \in Role : InWait(r)' = IF r = role[t] THEN InWait(r) \ {t} ELSE InWait(r)
          /\ t \in InWait(role[t])
      BY <1>0, <1>2, <2>2 DEF Test, TestWith, TypeOK, InWait
    <3>2. waiting' = [waiting EXCEPT ![role[t]] = @ - 1] /\ active' = active
      BY <1>2, <2>2 DEF Test, TestWith
    <3>3. Cardinality(InWait(role[t]) \ {t}) = Cardinality(InWait(role[t])) - 1
      BY <1>0, <3>1, CountOne
    <3>4. active \in [Role -> Nat] /\ waiting \in [Role -> Nat]
      BY <1>0 DEF TypeOK
    <3> QED
      BY <1>0, <2>1, <3>1, <3>2, <3>3, <3>4
  <2>3. CASE pc[t] = "test"
    <3>1. \A r \in Role : InWait(r)' = InWait(r)
      BY <1>0, <1>2, <2>3 DEF Test, TestWith, TypeOK, InWait
    <3> QED
      BY SMT, <1>0, <1>2, <2>1, <2>3, <3>1 DEF Test, TestWith
  <2> QED
    BY <1>2, <2>2, <2>3 DEF Test, TestWith
<1>3. CASE Wait(t)
  <2>1. \A r \in Role : Holding(r)' = Holding(r)
    BY <1>0, <1>3 DEF Wait, TypeOK, Holding
  <2>2. /\ \A r \in Role : InWait(r)' = IF r = role[t] THEN InWait(r) \cup {t} ELSE InWait(r)
        /\ t \notin InWait(role[t])
    BY <1>0, <1>3, SMTT(30) DEF Wait, TypeOK, InWait
  <2>3. waiting' = [waiting EXCEPT ![role[t]] = @ + 1] /\ active' = active
    BY <1>3 DEF Wait
  <2>4. Cardinality(InWait(role[t]) \cup {t}) = Cardinality(InWait(role[t])) + 1
    BY <1>0, <2>2, CountOne
  <2>5. active \in [Role -> Nat] /\ waiting \in [Role -> Nat]
    BY <1>0 DEF TypeOK
  <2> QED
    BY <1>0, <2>1, <2>2, <2>3, <2>4, <2>5
<1>4. CASE Enter(t)
  <2>1. \A r \in Role : InWait(r)' = InWait(r)
    BY <1>0, <1>4 DEF Enter, TypeOK, InWait
  <2>2. /\ \A r \in Role : Holding(r)' = IF r = role[t] THEN Holding(r) \cup {t} ELSE Holding(r)
        /\ t \notin Holding(role[t])
    BY <1>0, <1>4 DEF Enter, TypeOK, Holding
  <2>3. active' = [active EXCEPT ![role[t]] = @ + 1] /\ waiting' = waiting
    BY <1>4 DEF Enter
  <2>4. Cardinality(Holding(role[t]) \cup {t}) = Cardinality(Holding(role[t])) + 1
    BY <1>0, <2>2, CountOne
  <2>5. active \in [Role -> Nat] /\ waiting \in [Role -> Nat]
    BY <1>0 DEF TypeOK
  <2> QED
    BY <1>0, <2>1, <2>2, <2>3, <2>4, <2>5
<1>5. CASE ReaderRelease(t) \/ WriterRelease(t)
  <2>0. /\ active' = [active EXCEPT ![role[t]] = @ - 1] /\ UNCHANGED <<waiting, role>>
        /\ pc[t] = "releasing" /\ pc' = [pc EXCEPT ![t] = "idle"]
    BY <1>5 DEF ReaderRelease, WriterRelease
  <2>1. \A r \in Role : InWait(r)' = InWait(r)
    BY <1>0, <2>0 DEF TypeOK, InWait
  <2>2. /\ \A r \in Role : Holding(r)' = IF r = role[t] THEN Holding(r) \ {t} ELSE Holding(r)
        /\ t \in Holding(role[t])
    BY <1>0, <2>0 DEF TypeOK, Holding
  <2>3. Cardinality(Holding(role[t]) \ {t}) = Cardinality(Holding(role[t])) - 1
    BY <1>0, <2>2, CountOne
  <2>4. active \in [Role -> Nat] /\ waiting \in [Role -> Nat]
    BY <1>0 DEF TypeOK
  <2> QED
    BY <1>0, <2>0, <2>1, <2>2, <2>3, <2>4
<1> QED
  BY <1>1, <1>2, <1>3, <1>4, <1>5 DEF Step

\* Every step keeps the guard discipline.
LEMMA GuardStep ==
  ASSUME IInv, NEW t \in Thread, Step(t)
  PROVE  GuardHeld'
<1> USE DEF IInv, TypeOK, GuardHeld, Guarded
<1>0. \A u \in Thread : pc[u] \in Guarded /\ guard # None => u = guard
  BY RwAssumption
<1>1. CASE Call(t)
  BY <1>1 DEF Call
<1>2. CASE TakeGuard(t)
  BY <1>2, RwAssumption DEF TakeGuard
<1>3. CASE Sleep(t)
  BY <1>3 DEF Sleep
<1>4. CASE Wake(t)
  BY <1>4 DEF Wake
<1>5. CASE Test(t)
  BY <1>5 DEF Test, TestWith
<1>6. CASE Wait(t) \/ Enter(t) \/ ReaderRelease(t) \/ WriterRelease(t)
  <2>1. /\ pc[t] \in Guarded
        /\ \E x \in {"released", "in", "idle"} : pc' = [pc EXCEPT ![t] = x]
    BY <1>6 DEF Wait, Enter, ReaderRelease, WriterRelease
  <2> QED
    BY <2>1
<1> QED
  BY <1>1, <1>2, <1>3, <1>4, <1>5, <1>6 DEF Step

\* The counters stay exclusive, and a passed test stays valid: only the
\* holder of the guard changes a counter of holders.
LEMMA CountsStep ==
  ASSUME IInv, NEW t \in Thread, Step(t)
  PROVE  TestStillValid' /\ CountsExclusive'
<1> USE DEF IInv, TypeOK, TestStillValid, CountsExclusive, AR, AW, Role
<1>1. CASE Call(t)
  BY <1>1 DEF Call
<1>2. CASE TakeGuard(t)
  BY <1>2 DEF TakeGuard
<1>3. CASE Sleep(t)
  BY <1>3 DEF Sleep
<1>4. CASE Wake(t)
  BY <1>4 DEF Wake
<1>5. CASE Test(t)
  <2>1. /\ UNCHANGED <<active, role>>
        /\ \A u \in Thread : u # t => pc'[u] = pc[u]
    BY <1>5 DEF Test, TestWith
  <2>2. pc'[t] = "enter" => active["write"] = 0 /\ (role[t] = "write" => active["read"] = 0)
    <3>1. waiting'["write"] \in Nat
      BY TypeStep DEF TypeOK
    <3> QED
      BY SMT, <1>5, <3>1 DEF Test, TestWith, ReaderBlocked, WriterBlocked
  <2> QED
    BY <2>1, <2>2
<1>6. CASE Wait(t)
  BY <1>6 DEF Wait
<1>7. CASE Enter(t)
  <2>1. \A u \in Thread : pc'[u] # "enter"
    BY <1>7, RwAssumption DEF Enter, GuardHeld, Guarded
  <2>2. active["write"] = 0 /\ (role[t] = "write" => active["read"] = 0)
    BY <1>7 DEF Enter
  <2>3. CountsExclusive'
    BY SMT, <1>7, <2>2 DEF Enter
  <2> QED
    BY <2>1, <2>3
<1>8. CASE ReaderRelease(t) \/ WriterRelease(t)
  <2>1. \A u \in Thread : pc'[u] # "enter"
    BY <1>8, RwAssumption DEF ReaderRelease, WriterRelease, GuardHeld, Guarded
  <2>2. /\ active' = [active EXCEPT ![role[t]] = @ - 1]
        /\ active' \in [Role -> Nat]
    BY <1>8, TypeStep, SMTT(30) DEF ReaderRelease, WriterRelease
  <2>3. CountsExclusive'
    BY SMT, <2>2
  <2> QED
    BY <2>1, <2>3
<1> QED
  BY <1>1, <1>2, <1>3, <1>4, <1>5, <1>6, <1>7, <1>8 DEF Step

\* The invariant holds in every reachable state.
LEMMA Invariant == Spec => []IInv
<1>1. IInv /\ [Next]_vars => IInv'
  <2> SUFFICES ASSUME IInv, [Next]_vars PROVE IInv'
    OBVIOUS
  <2>1. ASSUME NEW t \in Thread, Step(t) PROVE IInv'
    BY <2>1, TypeStep, CountersStep, GuardStep, CountsStep DEF IInv
  <2>2. CASE UNCHANGED vars
    BY <2>2 DEF vars, IInv, TypeOK, GuardHeld, TestStillValid, CountersExact,
                CountsExclusive, AR, AW, WR, WW, Holding, InWait
  <2> QED
    BY <2>1, <2>2 DEF Next, Halted
<1> QED
  BY <1>1, InitIInv, PTL DEF Spec

-----------------------------------------------------------------------------
(* Wake-ups.  The property speaks of the moments when the guard is free.   *)
(* With the guard taken its claim may be suspended, but only by the thread *)
(* in the monitor that is about to restore it, and that needs the lists of *)
(* the condition variables to hold exactly the waiters not yet signalled.  *)

InList(q, t) == \E i \in 1..Len(q) : q[i] = t
Injective(q) == \A i, j \in 1..Len(q) : q[i] = q[j] => i = j

\* A waiter whose semaphore nobody has upped yet.
Unsignalled(t) == pc[t] \in {"released", "asleep"} /\ sem[t] = 0

\* The waiters list of each condition holds its unsignalled waiters, once.
Linked ==
  \A r \in Role : /\ Injective(waiters[r])
                  /\ \A t \in Thread :
                       InList(waiters[r], t) <=> role[t] = r /\ Unsignalled(t)

\* The while condition a thread has found true is still true when it links
\* itself in cond_wait.
WaitStillValid ==
  \A t \in Thread : pc[t] = "wait" =>
    /\ role[t] = "write" => AR + AW > 0
    /\ role[t] = "read" => AW + WW > 0

\* Some waiting writer is signalled while the lock is free, unless a thread
\* that has passed its test is about to take the lock.
WriterWakeup ==
  AR + AW = 0 /\ InWait("write") # {} =>
    \/ \E t \in InWait("write") : Signalled(t)
    \/ \E t \in Thread : pc[t] = "enter"

\* Every waiting reader is signalled while no writer is active or waiting,
\* unless a writer is between its test and the counter it increments next.
ReaderWakeup ==
  AW + WW = 0 =>
    \/ \A t \in InWait("read") : Signalled(t)
    \/ \E t \in Thread : role[t] = "write" /\ pc[t] \in {"enter", "wait"}

WakeInv == Linked /\ WaitStillValid /\ (kernel = "up" => WriterWakeup /\ ReaderWakeup)

\* Unlinking position i of a list without repetitions takes out q[i] alone.
LEMMA RemoveFacts ==
  ASSUME NEW q \in Seq(Thread), Injective(q), NEW i \in 1..Len(q)
  PROVE  /\ Injective(RemovePos(q, i))
         /\ \A t \in Thread : InList(RemovePos(q, i), t) <=> InList(q, t) /\ t # q[i]
<1> DEFINE p == RemovePos(q, i)
<1>1. /\ Len(p) = Len(q) - 1
      /\ \A j \in 1..Len(p) : p[j] = IF j < i THEN q[j] ELSE q[j + 1]
  <2> DEFINE a == SubSeq(q, 1, i - 1)
             b == SubSeq(q, i + 1, Len(q))
  <2>1. a \in Seq(Thread) /\ Len(a) = i - 1 /\ \A j \in 1..(i - 1) : a[j] = q[j]
    BY SMT
  <2>2. /\ b \in Seq(Thread) /\ Len(b) = Len(q) - i
        /\ \A j \in 1..(Len(q) - i) : b[j] = q[i + j]
    BY SMT
  <2> HIDE DEF a, b
  <2>3. /\ Len(a \o b) = Len(q) - 1
        /\ \A j \in 1..(Len(q) - 1) :
             (a \o b)[j] = IF j < i THEN a[j] ELSE b[j - (i - 1)]
    <3>1. /\ Len(a \o b) = Len(a) + Len(b)
          /\ \A j \in 1..(Len(a) + Len(b)) :
               (a \o b)[j] = IF j <= Len(a) THEN a[j] ELSE b[j - Len(a)]
      BY <2>1, <2>2, ConcatProperties
    <3>2. Len(a) + Len(b) = Len(q) - 1 /\ \A j \in Nat : j <= Len(a) <=> j < i
      BY SMT, <2>1, <2>2
    <3> QED
      BY SMT, <2>1, <3>1, <3>2
  <2>4. \A j \in 1..(Len(q) - 1) : (a \o b)[j] = IF j < i THEN q[j] ELSE q[j + 1]
    <3> SUFFICES ASSUME NEW j \in 1..(Len(q) - 1)
                 PROVE  (a \o b)[j] = IF j < i THEN q[j] ELSE q[j + 1]
      OBVIOUS
    <3>1. CASE j < i
      <4>1. j \in 1..(i - 1)
        BY SMT, <3>1
      <4> QED
        BY <2>1, <2>3, <3>1, <4>1
    <3>2. CASE ~(j < i)
      <4>1. j - (i - 1) \in 1..(Len(q) - i) /\ i + (j - (i - 1)) = j + 1
        BY SMT, <3>2
      <4> QED
        BY <2>2, <2>3, <3>2, <4>1
    <3> QED
      BY <3>1, <3>2
  <2> QED
    BY <2>3, <2>4 DEF RemovePos, a, b
<1> HIDE DEF p
<1>2. Injective(p)
  BY SMT, <1>1 DEF Injective
<1>3. ASSUME NEW t \in Thread
      PROVE  InList(p, t) <=> InList(q, t) /\ t # q[i]
  <2>1. ASSUME NEW j \in 1..Len(p) PROVE InList(q, p[j]) /\ p[j] # q[i]
    BY SMT, <1>1 DEF InList, Injective
  <2>2. ASSUME NEW j \in 1..Len(q), q[j] # q[i] PROVE InList(p, q[j])
    <3>1. CASE j < i
      BY SMT, <1>1, <3>1 DEF InList
    <3>2. CASE j > i
      <4>1. j - 1 \in 1..Len(p) /\ p[j - 1] = q[j]
        BY SMT, <1>1, <3>2
      <4> QED
        BY <4>1 DEF InList
    <3> QED
      BY SMT, <2>2, <3>1, <3>2
  <2> QED
    BY <2>1, <2>2 DEF InList
<1> QED
  BY <1>2, <1>3 DEF p

\* Signalling ups the semaphores of the waiters it unlinks and no other, so
\* the lists still hold exactly the unsignalled waiters.
LEMMA SignalLinked ==
  ASSUME TypeOK, Linked, NEW r \in Role, cond_signal(r) \/ cond_broadcast(r)
  PROVE  /\ \A u \in Thread : sem'[u] >= sem[u]
         /\ \A s \in Role : /\ Injective(waiters'[s])
                            /\ \A u \in Thread :
                                 InList(waiters'[s], u) <=>
                                   /\ role[u] = s /\ sem'[u] = 0
                                   /\ pc[u] \in {"released", "asleep"}
<1> DEFINE q == waiters[r]
<1>0. /\ q \in Seq(Thread) /\ Injective(q)
      /\ sem \in [Thread -> Nat] /\ waiters \in [Role -> Seq(Thread)]
      /\ \A s \in Role : \A u \in Thread :
           InList(waiters[s], u) <=> /\ role[u] = s /\ sem[u] = 0
                                     /\ pc[u] \in {"released", "asleep"}
      /\ \A s \in Role : Injective(waiters[s])
  BY DEF TypeOK, Linked, Unsignalled
<1>1. CASE UNCHANGED <<waiters, sem>>
  BY SMT, <1>0, <1>1
<1>2. ASSUME NEW i \in 1..Len(q),
             waiters' = [waiters EXCEPT ![r] = RemovePos(q, i)],
             sem' = [sem EXCEPT ![q[i]] = @ + 1]
      PROVE  /\ \A u \in Thread : sem'[u] >= sem[u]
             /\ \A s \in Role : /\ Injective(waiters'[s])
                                /\ \A u \in Thread :
                                     InList(waiters'[s], u) <=>
                                       /\ role[u] = s /\ sem'[u] = 0
                                       /\ pc[u] \in {"released", "asleep"}
  <2>1. q[i] \in Thread /\ InList(q, q[i])
    BY SMT, <1>0 DEF InList
  <2>2. /\ Injective(RemovePos(q, i))
        /\ \A u \in Thread : InList(RemovePos(q, i), u) <=> InList(q, u) /\ u # q[i]
    BY <1>0, RemoveFacts
  <2>3. /\ waiters'[r] = RemovePos(q, i)
        /\ \A s \in Role : s # r => waiters'[s] = waiters[s]
    BY <1>0, <1>2
  <2>4. \A u \in Thread : sem'[u] = IF u = q[i] THEN sem[u] + 1 ELSE sem[u]
    BY <1>0, <1>2, <2>1
  <2>5. role[q[i]] = r
    BY <1>0, <2>1
  <2> HIDE DEF q
  <2>6. \A u \in Thread : sem'[u] >= sem[u] /\ (sem'[u] = 0 <=> sem[u] = 0 /\ u # q[i])
    BY SMT, <1>0, <2>4
  <2>7. \A u \in Thread :
          InList(waiters'[r], u) <=> /\ role[u] = r /\ sem'[u] = 0
                                     /\ pc[u] \in {"released", "asleep"}
    BY SMT, <1>0, <2>2, <2>3, <2>6 DEF q
  <2>8. \A s \in Role : s # r => \A u \in Thread :
          InList(waiters'[s], u) <=> /\ role[u] = s /\ sem'[u] = 0
                                     /\ pc[u] \in {"released", "asleep"}
    BY SMT, <1>0, <2>3, <2>5, <2>6
  <2> QED
    BY <1>0, <2>2, <2>3, <2>6, <2>7, <2>8
<1>3. CASE /\ waiters' = [waiters EXCEPT ![r] = << >>]
           /\ sem' = [u \in Thread |->
                        IF \E i \in 1..Len(q) : q[i] = u THEN sem[u] + 1 ELSE sem[u]]
  <2>1. /\ waiters'[r] = << >>
        /\ \A s \in Role : s # r => waiters'[s] = waiters[s]
    BY <1>0, <1>3
  <2>2. \A u \in Thread : sem'[u] = IF InList(q, u) THEN sem[u] + 1 ELSE sem[u]
    BY <1>3 DEF InList
  <2>3. Injective(waiters'[r]) /\ \A u \in Thread : ~InList(waiters'[r], u)
    BY SMT, <2>1 DEF Injective, InList
  <2>4. \A u \in Thread : sem'[u] >= sem[u] /\ (sem'[u] = 0 <=> sem[u] = 0 /\ ~InList(q, u))
    BY SMT, <1>0, <2>2
  <2> QED
    BY SMT, <1>0, <2>1, <2>3, <2>4
<1> QED
  BY <1>1, <1>2, <1>3 DEF cond_signal, cond_broadcast

\* If anyone waits in role r, then after cond_signal some waiter of that
\* role is signalled: if the list was empty all of them were already.
LEMMA SignalWakes ==
  ASSUME TypeOK, Linked, NEW r \in Role, cond_signal(r), kernel' = "up",
         InWait(r) # {}
  PROVE  \E u \in InWait(r) : sem'[u] > 0 \/ pc[u] \in {"rewait", "woken"}
<1> DEFINE q == waiters[r]
<1>0. /\ q \in Seq(Thread) /\ sem \in [Thread -> Nat]
      /\ \A u \in Thread : InList(q, u) <=> role[u] = r /\ Unsignalled(u)
  BY DEF TypeOK, Linked
<1>1. CASE q = << >> /\ UNCHANGED sem
  <2>1. \A u \in Thread : ~(role[u] = r /\ Unsignalled(u))
    BY SMT, <1>0, <1>1 DEF InList
  <2> QED
    BY SMT, <1>0, <1>1, <2>1 DEF InWait, Unsignalled
<1>2. ASSUME NEW i \in 1..Len(q), sem' = [sem EXCEPT ![q[i]] = @ + 1]
      PROVE  \E u \in InWait(r) : sem'[u] > 0
  <2>1. q[i] \in Thread /\ InList(q, q[i])
    BY SMT, <1>0 DEF InList
  <2>2. q[i] \in InWait(r)
    BY <1>0, <2>1 DEF InWait, Unsignalled
  <2>3. sem'[q[i]] = sem[q[i]] + 1 /\ sem[q[i]] \in Nat
    BY <1>0, <1>2, <2>1
  <2> QED
    BY SMT, <2>2, <2>3
<1> QED
  BY <1>1, <1>2 DEF cond_signal

\* After cond_broadcast every waiter of the role is signalled.
LEMMA BroadcastWakes ==
  ASSUME TypeOK, Linked, NEW r \in Role, cond_broadcast(r), kernel' = "up",
         kernel = "up"
  PROVE  \A u \in InWait(r) : sem'[u] > 0 \/ pc[u] \in {"rewait", "woken"}
<1> DEFINE q == waiters[r]
<1>0. /\ sem \in [Thread -> Nat]
      /\ \A u \in Thread : InList(q, u) <=> role[u] = r /\ Unsignalled(u)
  BY DEF TypeOK, Linked
<1>1. \A u \in Thread : sem'[u] = IF InList(q, u) THEN sem[u] + 1 ELSE sem[u]
  BY DEF cond_broadcast, InList
<1> HIDE DEF q
<1> QED
  BY SMT, <1>0, <1>1 DEF InWait, Unsignalled

\* Every step keeps the lists exact.
LEMMA LinkedStep ==
  ASSUME IInv, Linked, NEW t \in Thread, Step(t)
  PROVE  Linked'
<1>t. TypeOK
  BY DEF IInv
<1> USE <1>t DEF TypeOK
<1>0. role[t] \in Role /\ \A r \in Role : waiters[r] \in Seq(Thread)
  OBVIOUS
<1>f. ASSUME waiters' = waiters,
             \A u \in Thread : /\ Unsignalled(u)' = Unsignalled(u)
                               /\ Unsignalled(u) => role'[u] = role[u]
      PROVE  Linked'
  <2>1. ASSUME NEW r \in Role, NEW u \in Thread
        PROVE  InList(waiters[r], u) <=> role'[u] = r /\ Unsignalled(u)'
    BY <1>f, <2>1 DEF Linked
  <2> QED
    BY <1>f, <2>1 DEF Linked
<1>1. CASE Call(t) \/ TakeGuard(t) \/ Sleep(t) \/ Test(t) \/ Enter(t)
  <2>1. waiters' = waiters /\ sem' = sem
    BY <1>1 DEF Call, TakeGuard, Sleep, Test, TestWith, Enter
  <2>2. \A u \in Thread : pc'[u] \in {"released", "asleep"} <=> pc[u] \in {"released", "asleep"}
    <3>1. CASE Call(t) \/ Sleep(t)
      BY <3>1 DEF Call, Sleep
    <3>2. CASE TakeGuard(t)
      BY <3>2 DEF TakeGuard
    <3>3. CASE Test(t) \/ Enter(t)
      BY <3>3 DEF Test, TestWith, Enter
    <3> QED
      BY <1>1, <3>1, <3>2, <3>3
  <2>3. \A u \in Thread : pc[u] \in {"released", "asleep"} => role'[u] = role[u]
    <3>1. CASE Call(t)
      BY <3>1 DEF Call
    <3>2. CASE TakeGuard(t) \/ Sleep(t) \/ Test(t) \/ Enter(t)
      BY <3>2 DEF TakeGuard, Sleep, Test, TestWith, Enter
    <3> QED
      BY <1>1, <3>1, <3>2
  <2> QED
    BY <1>f, <2>1, <2>2, <2>3 DEF Unsignalled
<1>4. CASE Wake(t)
  <2>1. /\ UNCHANGED <<waiters, role>> /\ sem[t] # 0 /\ pc'[t] = "rewait"
        /\ \A u \in Thread : u # t => pc'[u] = pc[u] /\ sem'[u] = sem[u]
    BY SMT, <1>4 DEF Wake
  <2> QED
    BY <1>f, <2>1 DEF Unsignalled
<1>6. CASE Wait(t)
  <2> DEFINE q == waiters[role[t]]
  <2>1. /\ waiters'[role[t]] = Append(q, t) /\ UNCHANGED role
        /\ \A r \in Role : r # role[t] => waiters'[r] = waiters[r]
    BY <1>0, <1>6 DEF Wait
  <2>2. /\ ~Unsignalled(t) /\ Unsignalled(t)'
        /\ \A u \in Thread : u # t => Unsignalled(u)' = Unsignalled(u)
    BY <1>6 DEF Wait, Unsignalled
  <2>3. /\ Len(Append(q, t)) = Len(q) + 1
        /\ \A i \in 1..Len(q) : Append(q, t)[i] = q[i]
        /\ Append(q, t)[Len(q) + 1] = t
    BY SMT, <1>0
  <2>4. /\ Injective(q) /\ ~InList(q, t)
        /\ \A u \in Thread : InList(q, u) <=> role[u] = role[t] /\ Unsignalled(u)
    BY <1>0, <2>2 DEF Linked
  <2>5. Len(q) \in Nat
    BY SMT, <1>0
  <2> HIDE DEF q
  <2> DEFINE p == Append(q, t)  n == Len(q)
  <2>a. /\ Len(p) = n + 1 /\ n \in Nat /\ p[n + 1] = t
        /\ \A i \in 1..n : p[i] = q[i]
    BY <2>3, <2>5
  <2>b. \A i \in 1..n : q[i] # t
    BY <2>4 DEF InList
  <2>c. \A i, j \in 1..n : q[i] = q[j] => i = j
    BY <2>4 DEF Injective
  <2>d. \A u \in Thread : InList(q, u) <=> \E i \in 1..n : q[i] = u
    BY DEF InList
  <2> HIDE DEF p, n
  <2>e. \A i \in 1..(n + 1) : i \in 1..n \/ i = n + 1
    BY SMT, <2>a
  <2>6. Injective(p)
    <3>1. ASSUME NEW i \in 1..(n + 1), NEW j \in 1..(n + 1), p[i] = p[j]  PROVE  i = j
      BY <2>a, <2>b, <2>c, <2>e, <3>1
    <3> QED
      BY <2>a, <3>1 DEF Injective
  <2>7. ASSUME NEW u \in Thread  PROVE  InList(p, u) <=> InList(q, u) \/ u = t
    <3>1. (\E i \in 1..(n + 1) : p[i] = u) <=> (\E i \in 1..n : q[i] = u) \/ u = t
      <4>1. n + 1 \in 1..(n + 1) /\ \A i \in 1..n : i \in 1..(n + 1)
        BY SMT, <2>a
      <4> QED
        BY <2>a, <2>e, <4>1
    <3> QED
      BY <2>a, <2>d, <3>1 DEF InList
  <2>8. /\ Injective(waiters'[role[t]])
        /\ \A u \in Thread :
             InList(waiters'[role[t]], u) <=> role'[u] = role[t] /\ Unsignalled(u)'
    BY <2>1, <2>2, <2>4, <2>6, <2>7 DEF p
  <2>9. ASSUME NEW r \in Role, r # role[t]
        PROVE  /\ Injective(waiters'[r])
               /\ \A u \in Thread :
                    InList(waiters'[r], u) <=> role'[u] = r /\ Unsignalled(u)'
    BY <2>1, <2>2, <2>9 DEF Linked
  <2> QED
    BY <2>8, <2>9 DEF Linked
<1>8. CASE ReaderRelease(t) \/ WriterRelease(t)
  <2>1. /\ UNCHANGED role /\ pc[t] = "releasing" /\ pc' = [pc EXCEPT ![t] = "idle"]
        /\ \/ UNCHANGED <<waiters, sem>>
           \/ cond_signal("write") \/ cond_broadcast("read")
    BY <1>8 DEF ReaderRelease, WriterRelease
  <2>2. \A u \in Thread : pc'[u] \in {"released", "asleep"} <=> pc[u] \in {"released", "asleep"}
    BY <2>1
  <2>3. CASE UNCHANGED <<waiters, sem>>
    BY <1>f, <2>1, <2>2, <2>3 DEF Unsignalled
  <2>4. CASE cond_signal("write") \/ cond_broadcast("read")
    <3>0. PICK r \in Role : cond_signal(r) \/ cond_broadcast(r)
      BY <2>4 DEF Role
    <3>1. \A s \in Role : /\ Injective(waiters'[s])
                          /\ \A u \in Thread :
                               InList(waiters'[s], u) <=>
                                 /\ role[u] = s /\ sem'[u] = 0
                                 /\ pc[u] \in {"released", "asleep"}
      <4> HIDE DEF TypeOK
      <4> QED
        BY <1>t, <3>0, SignalLinked
    <3>2. ASSUME NEW s \in Role, NEW u \in Thread
          PROVE  (role[u] = s /\ sem'[u] = 0 /\ pc[u] \in {"released", "asleep"})
                 <=> (role'[u] = s /\ Unsignalled(u)')
      BY <2>1, <2>2 DEF Unsignalled
    <3>3. ASSUME NEW s \in Role, NEW u \in Thread
          PROVE  InList(waiters'[s], u) <=> role'[u] = s /\ Unsignalled(u)'
      <4>1. InList(waiters'[s], u) <=>
              (role[u] = s /\ sem'[u] = 0 /\ pc[u] \in {"released", "asleep"})
        BY <3>1
      <4> QED
        BY <3>2, <4>1
    <3> QED
      BY <3>1, <3>3 DEF Linked
  <2> QED
    BY <2>1, <2>3, <2>4
<1> QED
  BY <1>1, <1>4, <1>6, <1>8 DEF Step

\* Only the thread with the guard changes the counters, so what made a
\* thread go to sleep still holds when it links itself.
LEMMA WaitValidStep ==
  ASSUME IInv, WaitStillValid, NEW t \in Thread, Step(t)
  PROVE  WaitStillValid'
<1> USE DEF IInv, TypeOK, WaitStillValid, AR, AW, WW, Role
<1>1. CASE Call(t)
  BY <1>1 DEF Call
<1>2. CASE TakeGuard(t)
  BY <1>2 DEF TakeGuard
<1>3. CASE Sleep(t)
  BY <1>3 DEF Sleep
<1>4. CASE Wake(t)
  BY <1>4 DEF Wake
<1>5. CASE Test(t)
  <2>1. \A u \in Thread : u # t => pc'[u] # "wait"
    BY <1>5, RwAssumption DEF Test, TestWith, GuardHeld, Guarded
  <2>2. pc'[t] = "wait" => IF role[t] = "read" THEN ReaderBlocked(active, waiting')
                                               ELSE WriterBlocked(active)
    BY <1>5 DEF Test, TestWith
  <2>3. UNCHANGED <<active, role>>
    BY <1>5 DEF Test, TestWith
  <2> QED
    BY <2>1, <2>2, <2>3 DEF ReaderBlocked, WriterBlocked
<1>6. CASE Wait(t) \/ Enter(t) \/ ReaderRelease(t) \/ WriterRelease(t)
  <2>1. /\ pc[t] \in Guarded
        /\ \E x \in {"released", "in", "idle"} : pc' = [pc EXCEPT ![t] = x]
    BY <1>6 DEF Wait, Enter, ReaderRelease, WriterRelease, Guarded
  <2>2. \A u \in Thread : pc'[u] # "wait"
    BY <2>1, RwAssumption DEF GuardHeld, Guarded
  <2> QED
    BY <2>2
<1> QED
  BY <1>1, <1>2, <1>3, <1>4, <1>5, <1>6 DEF Step

\* A count is zero exactly when nobody waits.
LEMMA NobodyWaits ==
  ASSUME IInv, NEW r \in Role
  PROVE  InWait(r) = {} <=> waiting[r] = 0
<1>1. waiting[r] = Cardinality(InWait(r))
  BY CountersByRole DEF IInv
<1> QED
  BY <1>1, SetsFinite, FS_EmptySet

\* What the threads outside the monitor do keeps both claims: they move no
\* thread in or out of a waiting set and take no signal away.
LEMMA QuietWakeup ==
  ASSUME IInv, WriterWakeup, ReaderWakeup, NEW t \in Thread,
         Call(t) \/ TakeGuard(t) \/ Sleep(t) \/ Wake(t)
  PROVE  WriterWakeup' /\ ReaderWakeup'
<1>1. \A r \in Role : InWait(r)' = InWait(r)
  BY QuietSteps DEF IInv
<1>2. UNCHANGED <<active, waiting>>
  BY DEF Call, TakeGuard, Sleep, Wake
<1>3. \A r \in Role : \A u \in InWait(r) : Signalled(u) => Signalled(u)'
  BY DEF IInv, TypeOK, PC, Call, TakeGuard, Sleep, Wake, InWait, Signalled
<1>4. \A u \in Thread : pc[u] \in {"enter", "wait"} => pc'[u] = pc[u] /\ role'[u] = role[u]
  BY DEF IInv, TypeOK, Call, TakeGuard, Sleep, Wake
<1>5. "read" \in Role /\ "write" \in Role
  BY DEF Role
<1>6. WriterWakeup'
  BY <1>1, <1>2, <1>3, <1>4, <1>5 DEF WriterWakeup, AR, AW
<1>7. ReaderWakeup'
  BY <1>1, <1>2, <1>3, <1>4, <1>5 DEF ReaderWakeup, AW, WW
<1> QED
  BY <1>6, <1>7

\* The thread in the monitor restores both claims before it leaves.
LEMMA MonitorWakeup ==
  ASSUME IInv, WaitStillValid, WriterWakeup, ReaderWakeup, NEW t \in Thread,
         Test(t) \/ Wait(t) \/ Enter(t)
  PROVE  WriterWakeup' /\ ReaderWakeup'
<1>t. /\ TypeOK /\ GuardHeld
  BY DEF IInv
<1>r. "read" \in Role /\ "write" \in Role /\ role[t] \in Role
  BY <1>t DEF Role, TypeOK
<1>1. \A u \in Thread : u # t => pc[u] \notin {"enter", "wait"} /\ pc'[u] = pc[u]
  BY <1>t, RwAssumption DEF TypeOK, GuardHeld, Guarded, Test, TestWith, Wait, Enter
<1>2. /\ UNCHANGED role /\ pc[t] \in {"test", "woken", "wait", "enter"}
      /\ \A u \in Thread : u # t => sem'[u] = sem[u]
  BY <1>t DEF TypeOK, Test, TestWith, Wait, Enter
<1>3. \A u \in Thread : u # t => /\ Signalled(u)' = Signalled(u)
                                 /\ \A r \in Role : u \in InWait(r)' <=> u \in InWait(r)
  BY <1>1, <1>2 DEF Signalled, InWait
<1>4. \A r \in Role : r # role[t] => InWait(r)' = InWait(r) /\ t \notin InWait(r)
  BY SMT, <1>2, <1>3 DEF InWait
<1>5. CASE Test(t)
  <2>1. /\ UNCHANGED active /\ pc'[t] \in {"enter", "wait"}
        /\ role[t] = "write" /\ AR + AW = 0 => pc'[t] = "enter"
        /\ role[t] = "read" => WW' = WW
    <3>1. /\ active' = active
          /\ pc'[t] = IF IF role[t] = "read" THEN ReaderBlocked(active, waiting')
                                             ELSE WriterBlocked(active)
                        THEN "wait" ELSE "enter"
      BY <1>t, <1>5 DEF TypeOK, Test, TestWith
    <3>2. role[t] = "read" => waiting'["write"] = waiting["write"]
      BY <1>t, <1>5, <1>r DEF TypeOK, Test, TestWith
    <3>3. role[t] = "write" /\ AR + AW = 0 => ~WriterBlocked(active)
      BY SMT DEF WriterBlocked, AR, AW
    <3> QED
      BY <3>1, <3>2, <3>3 DEF WW
  <2>2. \A r \in Role : t \notin InWait(r)'
    BY <2>1 DEF InWait
  <2>3. pc[t] \notin {"enter", "wait"}
    BY <1>5 DEF Test, TestWith
  <2>4. WriterWakeup'
    <3>1. CASE role[t] = "write"
      BY <2>1, <3>1 DEF WriterWakeup, AR, AW
    <3>2. CASE role[t] = "read"
      <4>1. InWait("write")' = InWait("write") /\ t \notin InWait("write")
        BY <1>4, <1>r, <3>2
      <4>2. AR' = AR /\ AW' = AW
        BY <2>1 DEF AR, AW
      <4>3. ~ \E u \in Thread : pc[u] = "enter"
        BY <1>1, <2>3
      <4>4. InWait("write") \subseteq Thread
        BY DEF InWait
      <4> QED
        BY <1>3, <4>1, <4>2, <4>3, <4>4 DEF WriterWakeup
    <3> QED
      BY <1>r, <3>1, <3>2 DEF Role
  <2>5. ReaderWakeup'
    <3>1. CASE role[t] = "write"
      BY <1>2, <2>1, <3>1 DEF ReaderWakeup
    <3>2. CASE role[t] = "read"
      <4>1. AW' = AW /\ WW' = WW
        BY <2>1, <3>2 DEF AW
      <4>2. ~ \E u \in Thread : role[u] = "write" /\ pc[u] \in {"enter", "wait"}
        BY <1>1, <2>3
      <4>3. \A u \in InWait("read")' : u \in Thread /\ u # t
        BY <2>2, <1>r DEF InWait
      <4> QED
        BY <1>3, <1>r, <4>1, <4>2, <4>3 DEF ReaderWakeup
    <3> QED
      BY <1>r, <3>1, <3>2 DEF Role
  <2> QED
    BY <2>4, <2>5
<1>6. CASE Wait(t)
  <2>1. /\ UNCHANGED active /\ pc[t] = "wait" /\ pc'[t] = "released"
        /\ waiting'[role[t]] > 0
        /\ role[t] = "read" => WW' = WW
        /\ AR \in Nat /\ AW \in Nat /\ WW \in Nat /\ AW' = AW /\ AR' = AR
    <3>1. waiting' = [waiting EXCEPT ![role[t]] = @ + 1] /\ waiting[role[t]] \in Nat
      BY <1>t, <1>6, <1>r DEF TypeOK, Wait
    <3>2. waiting'[role[t]] = waiting[role[t]] + 1
      BY <1>t, <1>r, <3>1 DEF TypeOK
    <3>3. role[t] = "read" => waiting'["write"] = waiting["write"]
      BY <1>t, <1>r, <3>1 DEF TypeOK
    <3>4. UNCHANGED active /\ pc[t] = "wait" /\ pc'[t] = "released"
      BY <1>t, <1>6 DEF TypeOK, Wait
    <3>5. AR \in Nat /\ AW \in Nat /\ WW \in Nat
      BY <1>t, <1>r DEF TypeOK, AR, AW, WW
    <3> QED
      BY SMT, <3>1, <3>2, <3>3, <3>4, <3>5 DEF AW, AR, WW
  <2>2. CASE role[t] = "write"
    <3>1. AR' + AW' # 0 /\ AW' + WW' # 0
      <4>1. AR + AW > 0
        BY <2>1, <2>2 DEF WaitStillValid
      <4>2. WW' > 0
        BY <2>1, <2>2 DEF WW
      <4>3. AW' \in Nat /\ WW' \in Nat
        <5>1. waiting \in [Role -> Nat] /\ waiting' = [waiting EXCEPT ![role[t]] = @ + 1]
          BY <1>t, <1>6 DEF TypeOK, Wait
        <5>2. waiting' \in [Role -> Nat]
          BY SMT, <1>r, <5>1
        <5> QED
          BY <2>1, <5>2, <1>r DEF WW
      <4>4. AR' = AR /\ AW' = AW /\ AR \in Nat /\ AW \in Nat
        BY <2>1
      <4>5. AR' + AW' # 0
        BY SMT, <4>1, <4>4
      <4>6. \A i, j \in Nat : j > 0 => i + j # 0
        BY SMT
      <4>7. AW' + WW' # 0
        BY <4>2, <4>3, <4>6
      <4> QED
        BY <4>5, <4>7
    <3> QED
      BY <3>1 DEF WriterWakeup, ReaderWakeup
  <2>3. CASE role[t] = "read"
    <3>1. AW' + WW' # 0
      BY SMT, <2>1, <2>3 DEF WaitStillValid
    <3>2. ReaderWakeup'
      BY <3>1 DEF ReaderWakeup
    <3>3. InWait("write")' = InWait("write") /\ t \notin InWait("write")
      BY <1>4, <1>r, <2>3
    <3>4. ~ \E u \in Thread : pc[u] = "enter"
      BY <1>1, <2>1
    <3>5. InWait("write") \subseteq Thread
      BY DEF InWait
    <3>6. WriterWakeup'
      BY <1>3, <2>1, <3>3, <3>4, <3>5 DEF WriterWakeup
    <3> QED
      BY <3>2, <3>6
  <2> QED
    BY <1>r, <2>2, <2>3 DEF Role
<1>7. CASE Enter(t)
  <2>1. /\ UNCHANGED waiting /\ pc[t] = "enter" /\ pc'[t] = "in"
        /\ AR' + AW' > 0
        /\ role[t] = "write" => AW' + WW' > 0
        /\ role[t] = "read" => AW' = AW /\ WW' = WW
    <3>1. /\ active' = [active EXCEPT ![role[t]] = @ + 1] /\ UNCHANGED waiting
          /\ pc[t] = "enter" /\ pc'[t] = "in"
      BY <1>t, <1>7 DEF TypeOK, Enter
    <3>2. AR \in Nat /\ AW \in Nat /\ WW \in Nat
      BY <1>t, <1>r DEF TypeOK, AR, AW, WW
    <3>3. CASE role[t] = "read"
      <4>1. AR' = AR + 1 /\ AW' = AW
        BY <1>t, <1>r, <3>1, <3>3 DEF TypeOK, AR, AW
      <4> QED
        BY SMT, <3>1, <3>2, <3>3, <4>1 DEF WW
    <3>4. CASE role[t] = "write"
      <4>1. AR' = AR /\ AW' = AW + 1
        BY <1>t, <1>r, <3>1, <3>4 DEF TypeOK, AR, AW
      <4> QED
        BY SMT, <3>1, <3>2, <3>4, <4>1 DEF WW
    <3> QED
      BY <1>r, <3>3, <3>4 DEF Role
  <2>2. WriterWakeup'
    BY SMT, <2>1 DEF WriterWakeup
  <2>3. ReaderWakeup'
    <3>1. CASE role[t] = "write"
      BY SMT, <2>1, <3>1 DEF ReaderWakeup
    <3>2. CASE role[t] = "read"
      <4>1. ~ \E u \in Thread : role[u] = "write" /\ pc[u] \in {"enter", "wait"}
        BY <1>1, <3>2
      <4>2. \A u \in InWait("read")' : u \in Thread /\ u # t
        BY <2>1 DEF InWait
      <4> QED
        BY <1>3, <1>r, <2>1, <3>2, <4>1, <4>2 DEF ReaderWakeup
    <3> QED
      BY <1>r, <3>1, <3>2 DEF Role
  <2> QED
    BY <2>2, <2>3
<1> QED
  BY <1>5, <1>6, <1>7

\* A release hands the lock on: the last one out signals a waiting writer,
\* or every waiting reader when no writer waits.
LEMMA ReleaseWakeup ==
  ASSUME IInv, Linked, WriterWakeup, ReaderWakeup, NEW t \in Thread,
         kernel = "up", kernel' = "up",
         ReaderRelease(t) \/ WriterRelease(t)
  PROVE  WriterWakeup' /\ ReaderWakeup'
<1>t. TypeOK /\ GuardHeld
  BY DEF IInv
<1>r. "read" \in Role /\ "write" \in Role
  BY DEF Role
<1>n. AR \in Nat /\ AW \in Nat /\ WW \in Nat /\ WR \in Nat
  BY <1>t, <1>r DEF TypeOK, AR, AW, WW, WR
<1>z. \A i, j \in Nat : i + j = 0 => i = 0 /\ j = 0
  BY SMT
<1>p. AR' \in Nat /\ AW' \in Nat
  <2>1. TypeOK'
    BY TypeStep DEF Step
  <2> QED
    BY <1>r, <2>1 DEF TypeOK, AR, AW
<1>1. /\ UNCHANGED <<role, waiting>> /\ pc[t] = "releasing"
      /\ pc' = [pc EXCEPT ![t] = "idle"]
  BY DEF ReaderRelease, WriterRelease
<1>2. \A u \in Thread : pc[u] \notin {"enter", "wait"}
  BY <1>t, <1>1, RwAssumption DEF GuardHeld, Guarded
<1>3. \A r \in Role : InWait(r)' = InWait(r) /\ InWait(r) \subseteq Thread
  BY <1>t, <1>1 DEF TypeOK, InWait
<1>4. \A r \in Role : \A u \in InWait(r) :
        Signalled(u)' <=> sem'[u] > 0 \/ pc[u] \in {"rewait", "woken"}
  BY <1>t, <1>1 DEF TypeOK, InWait, Signalled
<1>5. \A u \in Thread : sem'[u] >= sem[u] /\ sem[u] \in Nat /\ sem'[u] \in Nat
  <2>1. CASE UNCHANGED sem
    BY SMT, <1>t, <2>1 DEF TypeOK
  <2>2. ASSUME NEW r \in Role, cond_signal(r) \/ cond_broadcast(r)
        PROVE  \A u \in Thread : sem'[u] >= sem[u]
    BY <1>t, <2>2, SignalLinked
  <2>3. ASSUME NEW r \in Role, cond_signal(r) \/ cond_broadcast(r)
        PROVE  \A u \in Thread : sem'[u] \in Nat /\ sem[u] \in Nat
    BY <1>t, <2>3, SignalTypes DEF TypeOK
  <2>4. UNCHANGED sem \/ \E r \in Role : cond_signal(r) \/ cond_broadcast(r)
    BY <1>r DEF ReaderRelease, WriterRelease
  <2> QED
    BY <2>1, <2>2, <2>3, <2>4
<1>6. \A r \in Role : \A u \in InWait(r) : Signalled(u) => Signalled(u)'
  BY SMT, <1>3, <1>4, <1>5 DEF Signalled
<1>7. \A r \in Role : InWait(r) = {} <=> waiting[r] = 0
  BY NobodyWaits
<1>8. WW' = WW
  BY <1>1 DEF WW
<1>9. CASE ReaderRelease(t)
  <2>1. AW' = AW /\ AR' = active'["read"]
    BY <1>t, <1>9, <1>r DEF TypeOK, ReaderRelease, AW, AR
  <2>2. ReaderWakeup'
    BY <1>2, <1>3, <1>6, <1>8, <1>r, <2>1 DEF ReaderWakeup
  <2>3. ASSUME AR' + AW' = 0, InWait("write") # {}
        PROVE  \E u \in InWait("write") : Signalled(u)'
    <3>1. waiting["write"] # 0 /\ WW > 0
      BY SMT, <1>7, <1>n, <1>r, <2>3 DEF WW
    <3>2. AR' = 0
      BY <1>p, <1>z, <2>3
    <3>3. cond_signal("write")
      BY <1>9, <2>1, <3>1, <3>2 DEF ReaderRelease
    <3> QED
      BY <1>4, <1>t, <1>r, <2>3, <3>3, SignalWakes
  <2>4. WriterWakeup'
    BY <1>3, <1>r, <2>3 DEF WriterWakeup
  <2> QED
    BY <2>2, <2>4
<1>10. CASE WriterRelease(t)
  <2>1. WriterWakeup'
    <3>1. ASSUME InWait("write") # {}
          PROVE  \E u \in InWait("write") : Signalled(u)'
      <4>1. WW > 0
        BY SMT, <1>7, <1>n, <1>r, <3>1 DEF WW
      <4>2. cond_signal("write")
        BY <1>10, <4>1 DEF WriterRelease
      <4> QED
        BY <1>4, <1>t, <1>r, <3>1, <4>2, SignalWakes
    <3> QED
      BY <1>3, <1>r, <3>1 DEF WriterWakeup
  <2>2. ReaderWakeup'
    <3>1. ASSUME WW = 0, InWait("read") # {}
          PROVE  \A u \in InWait("read") : Signalled(u)'
      <4>1. WR > 0
        BY SMT, <1>7, <1>n, <1>r, <3>1 DEF WR
      <4>2. cond_broadcast("read")
        BY SMT, <1>10, <1>n, <3>1, <4>1 DEF WriterRelease
      <4> QED
        BY <1>4, <1>t, <1>r, <4>2, BroadcastWakes
    <3>2. AW' + WW' = 0 => WW = 0
      BY <1>8, <1>n, <1>p, <1>z
    <3> QED
      BY <1>3, <1>r, <3>1, <3>2 DEF ReaderWakeup
  <2> QED
    BY <2>1, <2>2
<1> QED
  BY <1>9, <1>10

\* A fresh lock has empty lists and no waiter.
LEMMA InitWake == Init => WakeInv
<1> SUFFICES ASSUME Init PROVE WakeInv
  OBVIOUS
<1>1. \A r \in Role : waiters[r] = << >>
  BY DEF Init
<1>2. \A t \in Thread : pc[t] = "idle"
  BY DEF Init
<1>3. \A r \in Role : InWait(r) = {}
  BY <1>2 DEF InWait
<1>4. Linked
  BY SMT, <1>1, <1>2 DEF Linked, Injective, InList, Unsignalled
<1>5. WaitStillValid
  BY <1>2 DEF WaitStillValid
<1>6. WriterWakeup /\ ReaderWakeup
  BY <1>3 DEF WriterWakeup, ReaderWakeup, Role
<1> QED
  BY <1>4, <1>5, <1>6 DEF WakeInv

\* The invariant about wake-ups holds in every reachable state.
LEMMA WakeInvariant == Spec => [](IInv /\ WakeInv)
<1>1. IInv /\ WakeInv /\ [Next]_vars => WakeInv'
  <2> SUFFICES ASSUME IInv, WakeInv, [Next]_vars PROVE WakeInv'
    OBVIOUS
  <2>1. ASSUME NEW t \in Thread, Step(t) PROVE WakeInv'
    <3>1. Linked'
      BY <2>1, LinkedStep DEF WakeInv
    <3>2. WaitStillValid'
      BY <2>1, WaitValidStep DEF WakeInv
    <3>3. ASSUME kernel' = "up" PROVE WriterWakeup' /\ ReaderWakeup'
      <4>1. kernel = "up" /\ WriterWakeup /\ ReaderWakeup /\ Linked /\ WaitStillValid
        BY <2>1 DEF Step, WakeInv
      <4>2. CASE Call(t) \/ TakeGuard(t) \/ Sleep(t) \/ Wake(t)
        BY <4>1, <4>2, QuietWakeup
      <4>3. CASE Test(t) \/ Wait(t) \/ Enter(t)
        BY <4>1, <4>3, MonitorWakeup
      <4>4. CASE ReaderRelease(t) \/ WriterRelease(t)
        BY <3>3, <4>1, <4>4, ReleaseWakeup
      <4> QED
        BY <2>1, <4>2, <4>3, <4>4 DEF Step
    <3> QED
      BY <3>1, <3>2, <3>3 DEF WakeInv
  <2>2. CASE UNCHANGED vars
    BY <2>2 DEF vars, WakeInv, Linked, WaitStillValid, WriterWakeup, ReaderWakeup,
                Unsignalled, Signalled, AR, AW, WW, InWait
  <2> QED
    BY <2>1, <2>2 DEF Next, Halted
<1> QED
  BY <1>1, InitWake, Invariant, PTL DEF Spec

\* Every variable keeps its type; in particular no counter of the lock is
\* ever decremented below zero.
THEOREM TypeCorrect == Spec => []TypeOK
BY Invariant, PTL DEF IInv

\* AR, AW, WR and WW always equal the number of threads they stand for.
THEOREM CountersCorrect == Spec => []CountersExact
BY Invariant, PTL DEF IInv

\* Writers exclude readers and each other, whatever the number of threads,
\* their priorities and the order in which cond_signal picks waiters.
THEOREM MutualExclusion == Spec => []Exclusion
<1>1. IInv => Exclusion
  <2> SUFFICES ASSUME IInv, NEW w \in Holding("write")
               PROVE  Holding("read") = {} /\ Holding("write") = {w}
    BY DEF Exclusion
  <2>1. "read" \in Role /\ "write" \in Role
    BY DEF Role
  <2>2. Cardinality(Holding("write")) # 0
    BY <2>1, SetsFinite, FS_EmptySet
  <2>3. Cardinality(Holding("write")) = 1 /\ Cardinality(Holding("read")) = 0
    BY SMT, <2>1, <2>2, SetsFinite DEF IInv, CountersExact, CountsExclusive
  <2>4. Holding("read") = {}
    BY <2>1, <2>3, SetsFinite, FS_EmptySet
  <2>5. \E x : Holding("write") = {x}
    BY <2>1, <2>3, SetsFinite, FS_Singleton
  <2> QED
    BY <2>4, <2>5
<1> QED
  BY <1>1, Invariant, PTL

\* No wake-up is lost: whenever the guard is free, a waiting writer of a free
\* lock and every reader that no writer keeps out has its signal, although
\* cond_wait releases the guard before it downs the semaphore and a signalled
\* writer can lose the lock to a newcomer.
THEOREM WakeupsKept == Spec => []NoLostWakeup
<1>1. IInv /\ WakeInv => NoLostWakeup
  <2> SUFFICES ASSUME IInv, WakeInv, kernel = "up", guard = None
               PROVE  /\ AR + AW = 0 /\ InWait("write") # {} =>
                           \E t \in InWait("write") : Signalled(t)
                      /\ AW + WW = 0 => \A t \in InWait("read") : Signalled(t)
    BY DEF NoLostWakeup
  <2>1. \A t \in Thread : pc[t] \notin {"enter", "wait"}
    BY RwAssumption DEF IInv, GuardHeld, Guarded
  <2> QED
    BY <2>1 DEF WakeInv, WriterWakeup, ReaderWakeup
<1> QED
  BY <1>1, WakeInvariant, PTL
=============================================================================
