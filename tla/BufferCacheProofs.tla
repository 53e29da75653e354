------------------------- MODULE BufferCacheProofs -------------------------
(***************************************************************************)
(* The locks and the types of the buffer cache, for any number of slots,   *)
(* sectors and threads and with late waiters: no sector is ever cached     *)
(* twice.                                                                  *)
(*                                                                         *)
(* The decision that a sector is not cached is made by cache_lookup and    *)
(* used by the reservation, with an eviction in between that may block on  *)
(* an entry lock.  The invariant says what carries it across: the thread   *)
(* still holds the global lock, and the sector is still not cached.  A     *)
(* slot that a thread is loading is never INVALID, so that making it VALID *)
(* adds no sector.                                                         *)
(***************************************************************************)
EXTENDS BufferCache, TLAPS

\* First-order steps: leaves that compute or rewrite functions cite SMT.
USE Zenon

\* Where a thread holds the global lock, and where it has found a miss.
GlobalPC == {"retest", "hit", "join", "evict", "scan", "victim", "reserve", "flush"}
MissPC == {"evict", "scan", "victim", "reserve"}

Shapes ==
  /\ pc \in [Thread -> PC]
  /\ state \in [Slot -> {"INVALID", "LOADING", "VALID"}]
  /\ DOMAIN sector = Slot /\ sector = [i \in Slot |-> sector[i]]
  /\ DOMAIN op = Thread /\ op = [t \in Thread |-> op[t]]
  /\ DOMAIN slot = Thread /\ slot = [t \in Thread |-> slot[t]]

\* cache_global_lock is held where the code says.
GlobalHeld == \A t \in Thread : pc[t] \in GlobalPC => global = t

\* A sector found missing stays so until its slot is reserved.
MissKnown ==
  \A t \in Thread : pc[t] \in MissPC =>
    \A i \in Slot : state[i] # "INVALID" => sector[i] # op[t].sector

\* The slot a thread loads is in use.
LoadReserved ==
  \A t \in Thread : pc[t] \in {"load", "finish"} => state[slot[t]] # "INVALID"

\* A victim is one of the slots.
SlotChosen ==
  hand \in Slot /\ \A t \in Thread : pc[t] \in {"victim", "reserve"} => slot[t] \in Slot

CacheInv == Shapes /\ GlobalHeld /\ MissKnown /\ LoadReserved /\ SlotChosen /\ UniqueSector

\* Steps that only move one thread, without entering a section that assumes
\* something.
Quiet(t) ==
  /\ UNCHANGED <<state, sector>>
  /\ op' = op \/ \E o : op' = [op EXCEPT ![t] = o]
  /\ slot' = slot \/ \E i : slot' = [slot EXCEPT ![t] = i]
  /\ pc' \in [Thread -> PC] /\ \A u \in Thread : u # t => pc'[u] = pc[u] \/ pc'[u] = "woken"

\* What such a step preserves.
LEMMA QuietStep ==
  ASSUME CacheInv, NEW t \in Thread, Quiet(t),
         pc'[t] \in GlobalPC => global' = t /\ (global = None \/ global = t),
         pc'[t] \notin GlobalPC => global' = global \/ pc[t] \in GlobalPC,
         pc'[t] \in MissPC =>
           \A i \in Slot : state[i] # "INVALID" => sector[i] # op'[t].sector,
         pc'[t] \in {"load", "finish"} => pc[t] \in {"load", "finish"} /\ slot' = slot,
         hand' \in Slot, pc'[t] \in {"victim", "reserve"} => slot'[t] \in Slot
  PROVE  CacheInv'
<1> USE DEF CacheInv, Quiet
<1>1. Shapes'
  BY SMT DEF Shapes
<1>2. \A u \in Thread : u # t /\ pc'[u] \in GlobalPC => pc[u] \in GlobalPC /\ pc'[u] = pc[u]
  BY DEF GlobalPC
<1>3. GlobalHeld'
  BY <1>2, CacheAssumption DEF GlobalHeld
<1>4. MissKnown'
  <2> SUFFICES ASSUME NEW u \in Thread, pc'[u] \in MissPC, NEW i \in Slot, state'[i] # "INVALID"
               PROVE  sector'[i] # op'[u].sector
    BY DEF MissKnown
  <2>1. CASE u = t
    BY <2>1
  <2>2. CASE u # t
    <3>1. pc[u] \in MissPC /\ op'[u] = op[u]
      BY <2>2 DEF MissPC, Shapes
    <3> QED
      BY <3>1 DEF MissKnown
  <2> QED
    BY <2>1, <2>2
<1>5. LoadReserved'
  <2> SUFFICES ASSUME NEW u \in Thread, pc'[u] \in {"load", "finish"}
               PROVE  state'[slot'[u]] # "INVALID"
    BY DEF LoadReserved
  <2>1. pc[u] \in {"load", "finish"} /\ slot'[u] = slot[u]
    BY DEF Shapes
  <2> QED
    BY <2>1 DEF LoadReserved
<1>6. UniqueSector'
  BY DEF UniqueSector
<1>7. SlotChosen'
  BY DEF SlotChosen, Shapes
<1> QED
  BY <1>1, <1>3, <1>4, <1>5, <1>6, <1>7

\* A step that moves one thread to a place that assumes at most the global
\* lock, and a step that leaves everything the invariant reads alone.
LEMMA MoveStep ==
  ASSUME CacheInv, NEW t \in Thread, NEW w \in PC \ (MissPC \cup {"load", "finish"}),
         pc' = [pc EXCEPT ![t] = w], UNCHANGED <<state, sector, hand>>,
         op' = op \/ \E o : op' = [op EXCEPT ![t] = o],
         slot' = slot \/ \E i : slot' = [slot EXCEPT ![t] = i],
         w \in GlobalPC => global' = t /\ (global = None \/ global = t),
         w \notin GlobalPC => global' = global \/ pc[t] \in GlobalPC
  PROVE  CacheInv'
<1>1. pc \in [Thread -> PC] /\ hand \in Slot
  BY DEF CacheInv, Shapes, SlotChosen
<1>2. pc' \in [Thread -> PC] /\ pc'[t] = w /\ \A u \in Thread : u # t => pc'[u] = pc[u]
  BY <1>1
<1>3. Quiet(t)
  BY <1>2 DEF Quiet
<1>4. w \notin MissPC /\ w \notin {"load", "finish"} /\ w \notin {"victim", "reserve"}
  BY DEF MissPC
<1> QED
  BY <1>1, <1>2, <1>3, <1>4, QuietStep

LEMMA UnchangedStep ==
  ASSUME CacheInv, UNCHANGED <<pc, state, sector, op, slot, global, hand>>
  PROVE  CacheInv'
BY SMT DEF CacheInv, Shapes, GlobalHeld, MissKnown, LoadReserved, SlotChosen, UniqueSector

\* The clock hand stays on the clock.
LEMMA NextHand == \A h \in Slot : (h + 1) % CACHE_SIZE \in Slot
<1> SUFFICES ASSUME NEW h \in Slot PROVE (h + 1) % CACHE_SIZE \in Slot
  OBVIOUS
<1>1. CACHE_SIZE \in Nat /\ CACHE_SIZE > 0 /\ h + 1 \in Nat
  BY SMT, CacheAssumption DEF Slot
<1>2. (h + 1) % CACHE_SIZE \in 0..(CACHE_SIZE - 1)
  BY SMT, <1>1
<1> QED
  BY <1>2 DEF Slot

\* Everything but the reservation and the end of a load is such a step.
LEMMA OtherSteps ==
  ASSUME CacheInv, NEW t \in Thread,
         \/ Begin(t) \/ Dequeue(t) \/ Request(t) \/ Lookup(t) \/ Retest(t) \/ Hit(t)
         \/ Join(t) \/ Rejoin(t) \/ Use(t) \/ Evict(t) \/ Scan(t) \/ WriteBack(t)
         \/ Load(t) \/ Settle(t) \/ FlushBegin(t) \/ FlushSlot(t) \/ FlushEnd(t)
  PROVE  CacheInv'
<1> USE DEF slotVars, Goto, Quiet, GlobalPC, MissPC, PC
<1>0. pc \in [Thread -> PC] /\ CacheInv /\ hand \in Slot
  BY DEF CacheInv, Shapes, SlotChosen
<1>1. CASE Begin(t)
  BY <1>0, <1>1, QuietStep DEF Begin
<1>2. CASE Dequeue(t)
  BY <1>0, <1>2, QuietStep DEF Dequeue
<1>3. CASE Request(t)
  BY <1>0, <1>3, QuietStep DEF Request
<1>4. CASE Lookup(t)
  <2>1. CASE Cached(op[t].sector) = {}
    <3>1. \A i \in Slot : state[i] # "INVALID" => sector[i] # op[t].sector
      BY <2>1, SMTT(30) DEF Cached
    <3>2. /\ pc' = [pc EXCEPT ![t] = "evict"] /\ global = None /\ global' = t
          /\ UNCHANGED <<state, sector, op, slot, hand>>
      BY <1>4, <2>1, SMTT(30) DEF Lookup
    <3> QED
      BY <1>0, <3>1, <3>2, QuietStep
  <2>2. CASE Cached(op[t].sector) # {}
    <3>1. /\ \E w \in {"request", "idle", "hit", "retest"} :
               /\ pc' = [pc EXCEPT ![t] = w]
               /\ w \in {"hit", "retest"} => global = None /\ global' = t
               /\ w \notin {"hit", "retest"} => global' = global
          /\ op' = op \/ \E o : op' = [op EXCEPT ![t] = o]
          /\ slot' = slot \/ \E i : slot' = [slot EXCEPT ![t] = i]
          /\ UNCHANGED <<state, sector, hand>>
      BY <1>4, <2>2, ZenonT(60) DEF Lookup, Return
    <3> QED
      BY SMT, <1>0, <3>1, QuietStep
  <2> QED
    BY <2>1, <2>2
<1>5. CASE Retest(t)
  <2>1. CASE state[slot[t]] = "LOADING"
    <3>1. pc[t] = "retest" /\ pc' = [pc EXCEPT ![t] = "join"]
          /\ UNCHANGED <<state, sector, global, hand, op, slot>>
      BY <1>5, <2>1 DEF Retest
    <3>2. global = t
      BY <1>0, <3>1 DEF CacheInv, GlobalHeld
    <3> QED
      BY <1>0, <3>1, <3>2, MoveStep
  <2>2. CASE state[slot[t]] # "LOADING"
    BY <1>0, <1>5, <2>2, UnchangedStep DEF Retest, Panic
  <2> QED
    BY <2>1, <2>2
<1>6. CASE Hit(t)
  <2>1. /\ pc[t] = "hit" /\ pc' = [pc EXCEPT ![t] = "use"]
        /\ UNCHANGED <<state, sector, hand, op, slot>>
    BY <1>6 DEF Hit
  <2> QED
    BY <1>0, <2>1, MoveStep
<1>7. CASE Join(t)
  <2>1. CASE state[slot[t]] = "LOADING"
    <3>1. pc[t] = "join" /\ pc' = [pc EXCEPT ![t] = "waiting"]
          /\ UNCHANGED <<state, sector, hand, op, slot>>
      BY <1>7, <2>1 DEF Join
    <3> QED
      BY <1>0, <3>1, MoveStep, ZenonT(60)
  <2>2. CASE state[slot[t]] # "LOADING"
    BY <1>0, <1>7, <2>2, UnchangedStep DEF Join, Panic
  <2> QED
    BY <2>1, <2>2
<1>8. CASE Rejoin(t)
  <2>1. /\ \E w \in {"waiting", "use"} : pc' = [pc EXCEPT ![t] = w]
        /\ UNCHANGED <<state, sector, global, hand, op, slot>>
    BY <1>8 DEF Rejoin
  <2> QED
    BY <1>0, <2>1, MoveStep
<1>9. CASE Use(t)
  <2>1. /\ \E w \in {"request", "idle"} : pc' = [pc EXCEPT ![t] = w]
        /\ op' = op \/ \E o : op' = [op EXCEPT ![t] = o]
        /\ slot' = slot \/ \E i : slot' = [slot EXCEPT ![t] = i]
        /\ UNCHANGED <<state, sector, global, hand>>
    BY <1>9, ZenonT(60) DEF Use, Return
  <2> QED
    BY <1>0, <2>1, MoveStep
<1>10. CASE Evict(t)
  BY SMT, <1>0, <1>10, QuietStep DEF Evict, CacheInv, GlobalHeld, MissKnown, Shapes
<1>11. CASE Scan(t)
  <2>1. hand' \in Slot
    BY <1>0, <1>11, NextHand DEF Scan
  <2>2. /\ pc[t] = "scan" /\ UNCHANGED <<state, sector, global, op>>
        /\ \/ pc' = pc /\ slot' = slot
           \/ pc' = [pc EXCEPT ![t] = "victim"] /\ slot' = [slot EXCEPT ![t] = hand]
    BY <1>11, ZenonT(60) DEF Scan
  <2>3. global = t /\ \A i \in Slot : state[i] # "INVALID" => sector[i] # op[t].sector
    BY <1>0, <2>2, ZenonT(60) DEF CacheInv, GlobalHeld, MissKnown
  <2> QED
    BY SMT, <1>0, <2>1, <2>2, <2>3, QuietStep DEF CacheInv, Shapes
<1>12. CASE WriteBack(t)
  BY <1>0, <1>12, QuietStep, ZenonT(60) DEF WriteBack, CacheInv, GlobalHeld, MissKnown, SlotChosen
<1>13. CASE Load(t)
  BY <1>0, <1>13, QuietStep, ZenonT(60) DEF Load
<1>14. CASE Settle(t)
  <2>1. /\ pc[t] = "settle" /\ UNCHANGED <<state, sector, global, hand>>
        /\ op' = op \/ op' = [op EXCEPT ![t] = NoCall]
        /\ slot' = slot \/ slot' = [slot EXCEPT ![t] = 0]
    BY <1>14, ZenonT(60) DEF Settle
  <2>2. pc' = [u \in Thread |->
                 IF u = t THEN IF op[t].kind = "read" THEN "request" ELSE "idle"
                 ELSE IF pc[u] = "waiting" /\ slot[u] = slot[t] THEN "woken" ELSE pc[u]]
    BY <1>14, ZenonT(60) DEF Settle
  <2>3. /\ pc' \in [Thread -> PC] /\ pc'[t] \in {"request", "idle"}
        /\ \A u \in Thread : u # t => pc'[u] = pc[u] \/ pc'[u] = "woken"
    BY <1>0, <2>2
  <2> QED
    BY <1>0, <2>1, <2>3, QuietStep, ZenonT(60)
<1>15. CASE FlushBegin(t)
  <2>1. /\ pc' = [pc EXCEPT ![t] = "flush"] /\ global = None /\ global' = t
        /\ UNCHANGED <<state, sector, hand, op, slot>>
    BY <1>15 DEF FlushBegin
  <2> QED
    BY <1>0, <2>1, MoveStep
<1>16. CASE FlushSlot(t)
  BY <1>0, <1>16, QuietStep, ZenonT(60) DEF FlushSlot, CacheInv, GlobalHeld
<1>17. CASE FlushEnd(t)
  <2>1. /\ pc[t] = "flush"
        /\ \E w \in {"request", "idle"} : pc' = [pc EXCEPT ![t] = w]
        /\ op' = op \/ \E o : op' = [op EXCEPT ![t] = o]
        /\ slot' = slot \/ \E i : slot' = [slot EXCEPT ![t] = i]
        /\ UNCHANGED <<state, sector, hand>>
    BY <1>17 DEF FlushEnd, Return
  <2> QED
    BY <1>0, <2>1, MoveStep
<1> QED
  BY <1>1, <1>2, <1>3, <1>4, <1>5, <1>6, <1>7, <1>8, <1>9, <1>10, <1>11, <1>12, <1>13,
     <1>14, <1>15, <1>16, <1>17

\* The reservation: the new sector is in no other slot, and no other thread
\* is between its lookup and its reservation.
LEMMA ReserveStep ==
  ASSUME CacheInv, NEW t \in Thread, Reserve(t)
  PROVE  CacheInv'
<1> USE DEF slotVars, Goto, CacheInv
<1>0. /\ pc[t] = "reserve" /\ pc' = [pc EXCEPT ![t] = "load"] /\ global' = None
      /\ state' = [state EXCEPT ![slot[t]] = "LOADING"]
      /\ sector' = [sector EXCEPT ![slot[t]] = op[t].sector]
      /\ op' = op /\ slot' = slot
  BY DEF Reserve
<1>1. Shapes'
  BY <1>0 DEF Shapes, PC
<1>2. \A u \in Thread : u # t => pc'[u] = pc[u] /\ pc[u] \notin GlobalPC
  BY <1>0, CacheAssumption DEF GlobalHeld, GlobalPC, Shapes
<1>3. pc'[t] = "load"
  BY <1>0 DEF Shapes
<1>4. GlobalHeld' /\ MissKnown'
  BY <1>2, <1>3 DEF GlobalHeld, MissKnown, GlobalPC, MissPC
<1>5. \A i \in Slot : state[i] # "INVALID" => sector[i] # op[t].sector
  BY <1>0 DEF MissKnown, MissPC
<1>6. UniqueSector'
  BY SMT, <1>0, <1>5 DEF UniqueSector, Shapes
<1>7. LoadReserved'
  BY SMT, <1>0, <1>3 DEF LoadReserved, SlotChosen, Shapes
<1>8. SlotChosen'
  BY <1>0, <1>2, <1>3 DEF SlotChosen, GlobalPC, Reserve
<1> QED
  BY <1>1, <1>4, <1>6, <1>7, <1>8

\* The end of a load: a slot in use stays in use with the same sector.
LEMMA FinishStep ==
  ASSUME CacheInv, NEW t \in Thread, Finish(t)
  PROVE  CacheInv'
<1> USE DEF slotVars, Goto, CacheInv
<1>0. /\ pc[t] = "finish" /\ pc' = [pc EXCEPT ![t] = "settle"] /\ global' = global
      /\ state' = [state EXCEPT ![slot[t]] = "VALID"] /\ sector' = sector
      /\ op' = op /\ slot' = slot
  BY DEF Finish
<1>1. Shapes'
  BY <1>0 DEF Shapes, PC
<1>2. \A i \in Slot : state'[i] = "INVALID" <=> state[i] = "INVALID"
  BY <1>0 DEF LoadReserved, Shapes
<1>3. \A u \in Thread : pc'[u] \in GlobalPC \cup {"load", "finish"} => pc'[u] = pc[u] /\ u # t
  BY <1>0 DEF Shapes, GlobalPC
<1>4. GlobalHeld'
  BY <1>0, <1>3 DEF GlobalHeld
<1>5. MissKnown'
  BY <1>0, <1>2, <1>3 DEF MissKnown, MissPC, GlobalPC
<1>6. LoadReserved'
  BY SMT, <1>0, <1>3 DEF LoadReserved, Shapes
<1>7. UniqueSector'
  BY <1>0, <1>2 DEF UniqueSector
<1>8. SlotChosen'
  BY <1>0, <1>3 DEF SlotChosen, GlobalPC, Finish
<1> QED
  BY <1>1, <1>4, <1>5, <1>6, <1>7, <1>8

\* The invariant holds in every reachable state.
LEMMA CacheInvariant == Spec => []CacheInv
<1>1. Init => CacheInv
  BY SMT, CacheAssumption DEF Init, CacheInv, Shapes, GlobalHeld, MissKnown, LoadReserved,
         SlotChosen, UniqueSector, PC, GlobalPC, MissPC, Slot
<1>2. CacheInv /\ [Next]_vars => CacheInv'
  <2> SUFFICES ASSUME CacheInv, [Next]_vars PROVE CacheInv'
    OBVIOUS
  <2>1. ASSUME NEW t \in Thread, Begin(t) \/ Work(t) PROVE CacheInv'
    BY <2>1, OtherSteps, ReserveStep, FinishStep DEF Work
  <2>2. CASE UNCHANGED vars
    BY SMT, <2>2 DEF vars, slotVars, CacheInv, Shapes, GlobalHeld, MissKnown, LoadReserved,
                SlotChosen, UniqueSector
  <2> QED
    BY <2>1, <2>2 DEF Next, Halted
<1> QED
  BY <1>1, <1>2, PTL DEF Spec

\* No two slots in use ever hold the same sector.
THEOREM SectorsUnique == Spec => []UniqueSector
BY CacheInvariant, PTL DEF CacheInv

-----------------------------------------------------------------------------
(* Types. *)

\* Where a thread relies on its slot: as one that found the sector cached, or
\* as the one that loads it.
ServedPC == {"retest", "hit", "join", "waiting", "woken", "use"}
LoaderPC == {"load", "finish", "settle"}

\* What a thread is doing fits its call.
CallFits(t) ==
  /\ op[t].kind \in {"read", "write"} => t \in Client /\ op[t] \in Atomic!Request
  /\ pc[t] = "idle" <=> op[t].kind = "none"
  /\ pc[t] \in {"idle", "lock"} => slot[t] = 0
  /\ pc[t] \in ServedPC => op[t].kind \in {"read", "write"}
  /\ pc[t] \in MissPC \cup LoaderPC => op[t].kind \in {"read", "write", "prefetch"}
  /\ pc[t] = "request" => op[t].kind = "read"
  /\ pc[t] = "flush" => op[t].kind = "flush"

CallsFit == \A t \in Thread : CallFits(t)

\* evict_clock panics on the first scan over its limit.
ScansBounded == kernel = "up" => scans <= MaxScans

TypeInv == TypeOK /\ CallsFit /\ ScansBounded

\* Only the thread that moves has to be looked at.
LEMMA OthersFit ==
  ASSUME CallsFit, NEW t \in Thread,
         \A u \in Thread : u # t =>
           /\ op'[u] = op[u] /\ slot'[u] = slot[u]
           /\ pc'[u] = pc[u] \/ (pc[u] = "waiting" /\ pc'[u] = "woken"),
         CallFits(t)'
  PROVE  CallsFit'
<1> SUFFICES ASSUME NEW u \in Thread, u # t PROVE CallFits(u)'
  BY DEF CallsFit
<1>1. CallFits(u)
  BY DEF CallsFit
<1> QED
  BY <1>1 DEF CallFits, ServedPC, MissPC, LoaderPC

\* The calls of clients are those of AtomicDisk.
LEMMA CallTypes ==
  /\ NoCall \in Call
  /\ Atomic!Request \subseteq Call
  /\ [NoCall EXCEPT !.kind = "flush"] \in Call
  /\ \A s \in 1..SectorCount : [NoCall EXCEPT !.kind = "prefetch", !.sector = s] \in Call
<1>1. Sector \subseteq 0..SectorCount /\ 1..SectorCount \subseteq 0..SectorCount
      /\ 0 \in 0..SectorCount /\ Chunk \subseteq SUBSET Cell
  BY SMT, CacheAssumption DEF Sector
<1> QED
  BY <1>1 DEF NoCall, Call, Atomic!Request

\* A write changes a block into a block.
LEMMA WrittenType ==
  ASSUME NEW b \in Block, NEW o \in Call, o.value \in Value
  PROVE  Written(b, o) \in Block
BY DEF Written, Block

\* The end of a call, or the part of a read that remains.
LEMMA ReturnFits ==
  ASSUME TypeOK, CallsFit, NEW t \in Thread, Return(t), pc[t] # "idle",
         op[t].kind # "none"
  PROVE  /\ CallsFit' /\ pc' \in [Thread -> PC] /\ op' \in [Thread -> Call]
         /\ slot' \in [Thread -> 0..CACHE_SIZE]
         /\ \A u \in Thread : u # t => pc'[u] = pc[u] /\ op'[u] = op[u] /\ slot'[u] = slot[u]
         /\ \/ op[t].kind = "read" /\ pc'[t] = "request" /\ op'[t] = op[t]
            \/ op[t].kind # "read" /\ pc'[t] = "idle" /\ op'[t] = NoCall
<1>p. pc \in [Thread -> PC] /\ op \in [Thread -> Call] /\ slot \in [Thread -> 0..CACHE_SIZE]
      /\ CallFits(t)
  BY DEF TypeOK, CallsFit
<1>s. 0 \in 0..CACHE_SIZE
  BY SMT, CacheAssumption
<1>1. CASE op[t].kind = "read"
  <2>1. pc' = [pc EXCEPT ![t] = "request"] /\ UNCHANGED <<op, slot>>
    BY <1>1 DEF Return, Goto
  <2>2. pc' \in [Thread -> PC] /\ pc'[t] = "request"
    BY <1>p, <2>1 DEF PC
  <2>3. CallFits(t)'
    BY <1>p, <1>1, <2>1, <2>2 DEF CallFits, ServedPC, MissPC, LoaderPC
  <2> QED
    BY <1>p, <1>1, <2>1, <2>2, <2>3, OthersFit
<1>2. CASE op[t].kind # "read"
  <2>1. /\ pc' = [pc EXCEPT ![t] = "idle"] /\ op' = [op EXCEPT ![t] = NoCall]
        /\ slot' = [slot EXCEPT ![t] = 0]
    BY <1>2 DEF Return, Goto
  <2>2. pc' \in [Thread -> PC] /\ pc'[t] = "idle" /\ op' \in [Thread -> Call] /\ op'[t] = NoCall
        /\ slot' \in [Thread -> 0..CACHE_SIZE] /\ slot'[t] = 0
    BY <1>p, <1>s, <2>1, CallTypes DEF PC
  <2>3. CallFits(t)'
    BY SMT, <2>2 DEF CallFits, ServedPC, MissPC, LoaderPC, NoCall
  <2> QED
    BY <1>p, <1>2, <2>1, <2>2, <2>3, OthersFit
<1> QED
  BY <1>1, <1>2

\* One step of a thread keeps the types.
LEMMA TypeStep ==
  ASSUME TypeInv, CacheInv, kernel = "up", NEW t \in Thread, Begin(t) \/ Work(t)
  PROVE  TypeInv'
<1>0. TypeOK /\ CallsFit /\ scans <= MaxScans /\ CallFits(t)
  BY DEF TypeInv, CallsFit, ScansBounded
<1>p. pc \in [Thread -> PC] /\ op \in [Thread -> Call] /\ slot \in [Thread -> 0..CACHE_SIZE]
  BY <1>0 DEF TypeOK
<1>s. CACHE_SIZE \in Nat /\ 0 \in 0..CACHE_SIZE /\ Slot \subseteq 0..CACHE_SIZE /\ MaxScans \in Nat
      /\ MaxScans = 2 * CACHE_SIZE
  BY SMT, CacheAssumption DEF Slot, MaxScans
<1>q. QueueSize \in Nat
  BY CacheAssumption
<1> USE DEF Goto, slotVars
<1>1. ASSUME Begin(t) PROVE TypeInv'
  <2>1. op'[t] \in Call /\ CallFits(t)' /\ op' = [op EXCEPT ![t] = op'[t]]
    <3>1. CASE t \in Client /\ \E s \in Sector, c \in Chunk, v \in Value \cup {None} :
             op' = [op EXCEPT ![t] = [kind |-> IF v = None THEN "read" ELSE "write",
                                      sector |-> s, cells |-> c, value |-> v]]
      <4>1. PICK s \in Sector, c \in Chunk, v \in Value \cup {None} :
               op' = [op EXCEPT ![t] = [kind |-> IF v = None THEN "read" ELSE "write",
                                        sector |-> s, cells |-> c, value |-> v]]
        BY <3>1
      <4>2. op'[t] \in Atomic!Request
        BY <1>p, <4>1, CacheAssumption DEF Atomic!Request
      <4> QED
        BY <1>p, <1>1, <1>0, <3>1, <4>1, <4>2, CallTypes
           DEF Begin, CallFits, ServedPC, MissPC, LoaderPC
    <3>2. CASE op' = [op EXCEPT ![t] = [NoCall EXCEPT !.kind = "flush"]]
      <4>1. op'[t] = [NoCall EXCEPT !.kind = "flush"] /\ op'[t].kind = "flush"
        BY <1>p, <3>2 DEF NoCall
      <4> QED
        BY <1>p, <1>1, <1>0, <3>2, <4>1, CallTypes
           DEF Begin, CallFits, ServedPC, MissPC, LoaderPC
    <3> QED
      BY <1>1, <3>1, <3>2 DEF Begin
  <2>2. CallsFit'
    BY <1>0, <1>p, <1>1, <2>1, OthersFit DEF Begin
  <2>3. pc' \in [Thread -> PC] /\ op' \in [Thread -> Call]
    BY <1>1, <1>p, <2>1 DEF Begin, PC
  <2>4. TypeOK'
    BY <1>0, <1>1, <2>3 DEF Begin, TypeOK
  <2> QED
    BY <1>0, <1>1, <2>2, <2>4 DEF Begin, TypeInv, ScansBounded, MaxScans
<1>2. ASSUME Dequeue(t) PROVE TypeInv'
  <2> DEFINE o == [NoCall EXCEPT !.kind = "prefetch", !.sector = Head(queue)]
  <2>0. queue \in Seq(1..SectorCount) /\ Head(queue) \in 1..SectorCount /\ Len(queue) < QueueSize
        /\ Tail(queue) \in Seq(1..SectorCount) /\ Len(Tail(queue)) < QueueSize
    <3>1. queue \in Seq(1..SectorCount) /\ Len(queue) < QueueSize /\ queue # << >>
      BY <1>0, <1>2 DEF Dequeue, TypeOK
    <3>2. Head(queue) \in 1..SectorCount /\ Tail(queue) \in Seq(1..SectorCount)
          /\ Len(Tail(queue)) = Len(queue) - 1 /\ Len(queue) \in Nat
      <4> DEFINE S == 1..SectorCount
      <4>1. queue \in Seq(S) /\ queue # << >>
        BY <3>1
      <4> HIDE DEF S
      <4>2. Head(queue) \in S /\ Tail(queue) \in Seq(S)
            /\ Len(Tail(queue)) = Len(queue) - 1 /\ Len(queue) \in Nat
        BY SMT, <4>1
      <4> QED
        BY <4>2 DEF S
    <3> QED
      BY SMT, <1>q, <3>1, <3>2
  <2>1. o \in Call /\ o.kind = "prefetch" /\ op' = [op EXCEPT ![t] = o]
    BY <1>2, <2>0, CallTypes DEF Dequeue, NoCall
  <2> HIDE DEF o
  <2>2. op' \in [Thread -> Call] /\ op'[t] = o /\ pc' \in [Thread -> PC] /\ pc'[t] = "lock"
    BY <1>2, <1>p, <2>1 DEF Dequeue, PC
  <2>3. CallsFit'
    BY <1>0, <1>p, <1>2, <2>1, <2>2, OthersFit
       DEF Dequeue, CallFits, ServedPC, MissPC, LoaderPC
  <2>4. TypeOK'
    BY <1>0, <1>2, <2>0, <2>2 DEF Dequeue, TypeOK
  <2> QED
    BY <1>0, <1>2, <2>3, <2>4 DEF Dequeue, TypeInv, ScansBounded, MaxScans
<1>3. ASSUME Request(t) PROVE TypeInv'
  <2>1. queue' \in Seq(1..SectorCount) /\ Len(queue') < QueueSize
    <3>1. op[t].sector \in Sector /\ op[t].sector + 1 \in 1..SectorCount
      BY SMT, <1>0, <1>3, CacheAssumption DEF Request, CallFits, Atomic!Request, Sector
    <3>2. queue \in Seq(1..SectorCount) /\ Len(queue) < QueueSize /\ Len(queue) \in Nat
      BY SMT, <1>0 DEF TypeOK
    <3>3. queue' = queue \/ (Len(queue) < QueueSize - 1 /\ queue' = Append(queue, op[t].sector + 1))
      BY <1>3 DEF Request
    <3>4. CASE queue' = queue
      BY <3>2, <3>4
    <3>5. CASE Len(queue) < QueueSize - 1 /\ queue' = Append(queue, op[t].sector + 1)
      <4>1. queue' \in Seq(1..SectorCount) /\ Len(queue') = Len(queue) + 1
        BY SMT, <3>1, <3>2, <3>5
      <4> QED
        BY SMT, <1>q, <3>2, <3>5, <4>1
    <3> QED
      BY <3>3, <3>4, <3>5
  <2>2. op' \in [Thread -> Call] /\ op'[t] = NoCall /\ pc' \in [Thread -> PC] /\ pc'[t] = "idle"
        /\ slot' \in [Thread -> 0..CACHE_SIZE] /\ slot'[t] = 0
    BY <1>3, <1>p, <1>s, CallTypes DEF Request, PC
  <2>3. CallsFit'
    BY <1>0, <1>p, <1>3, <2>2, OthersFit
       DEF Request, CallFits, ServedPC, MissPC, LoaderPC, NoCall
  <2>4. TypeOK'
    BY <1>0, <1>3, <2>1, <2>2 DEF Request, TypeOK
  <2> QED
    BY <1>0, <1>3, <2>3, <2>4 DEF Request, TypeInv, ScansBounded, MaxScans
<1>4. ASSUME Lookup(t) PROVE TypeInv'
  <2>1. pc[t] = "lock" /\ op[t].kind # "flush" /\ op[t].kind # "none"
        /\ op[t].kind \in {"read", "write", "prefetch"}
    BY <1>0, <1>4, <1>p DEF Lookup, Call, CallFits
  <2>2. CallsFit' /\ pc' \in [Thread -> PC] /\ op' \in [Thread -> Call]
        /\ slot' \in [Thread -> 0..CACHE_SIZE] /\ global' \in Thread \cup {None}
    <3>1. CASE op[t].kind = "prefetch" /\ Return(t) /\ UNCHANGED global
      BY <1>0, <2>1, <3>1, ReturnFits DEF TypeOK
    <3>2. CASE \E i \in Slot, w \in {"hit", "retest"} :
                 /\ op[t].kind # "prefetch" /\ Goto(t, w)
                 /\ slot' = [slot EXCEPT ![t] = i] /\ global' = t /\ UNCHANGED op
      <4>1. pc' \in [Thread -> PC] /\ pc'[t] \in {"hit", "retest"} /\ op' = op
            /\ slot' \in [Thread -> 0..CACHE_SIZE] /\ global' \in Thread \cup {None}
        BY SMT, <1>p, <1>s, <3>2 DEF PC
      <4>2. CallFits(t)'
        BY <1>0, <2>1, <3>2, <4>1 DEF CallFits, ServedPC, MissPC, LoaderPC
      <4> QED
        BY <1>0, <1>p, <3>2, <4>1, <4>2, OthersFit
    <3>3. CASE Goto(t, "evict") /\ global' = t /\ UNCHANGED <<op, slot>>
      <4>1. pc' \in [Thread -> PC] /\ pc'[t] = "evict" /\ op' = op
            /\ slot' \in [Thread -> 0..CACHE_SIZE] /\ global' \in Thread \cup {None}
        BY <1>p, <1>s, <3>3 DEF PC
      <4>2. CallFits(t)'
        BY <1>0, <2>1, <3>3, <4>1 DEF CallFits, ServedPC, MissPC, LoaderPC
      <4> QED
        BY <1>0, <1>p, <3>3, <4>1, <4>2, OthersFit
    <3> QED
      BY <1>4, <3>1, <3>2, <3>3 DEF Lookup, Cached
  <2>3. UNCHANGED <<slotVars, entry, hand, scans, disk, queue, out, owed, kernel>>
    BY <1>4 DEF Lookup
  <2>4. TypeOK'
    BY <1>0, <2>2, <2>3 DEF TypeOK
  <2> QED
    BY <1>0, <2>2, <2>3, <2>4 DEF TypeInv, ScansBounded, MaxScans
<1>5. ASSUME Retest(t) \/ Join(t) PROVE TypeInv'
  <2>1. CASE \E why : Panic(why) /\ kernel' \in {"assert"}
    BY <1>0, <2>1 DEF Panic, TypeInv, TypeOK, CallsFit, CallFits, ScansBounded
  <2>2. CASE \E w \in {"join", "waiting"} :
               Goto(t, w) /\ pc[t] \in {"retest", "join"} /\ (UNCHANGED global \/ global' = None)
               /\ UNCHANGED <<slotVars, entry, hand, scans, disk, queue, op, slot, out, owed, kernel>>
    <3>1. pc' \in [Thread -> PC] /\ pc'[t] \in {"join", "waiting"} /\ pc[t] \in {"retest", "join"}
          /\ global' \in Thread \cup {None}
      BY SMT, <1>0, <1>p, <2>2 DEF PC, TypeOK
    <3>2. CallsFit'
      BY <1>0, <1>p, <2>2, <3>1, OthersFit DEF CallFits, ServedPC, MissPC, LoaderPC
    <3>3. TypeOK'
      BY <1>0, <2>2, <3>1 DEF TypeOK
    <3> QED
      BY <1>0, <2>2, <3>2, <3>3 DEF TypeInv, ScansBounded, MaxScans
  <2> QED
    BY <1>5, <2>1, <2>2 DEF Retest, Join, Panic
<1>6. ASSUME Hit(t) \/ Rejoin(t) PROVE TypeInv'
  <2>1. \E w \in {"use", "waiting"} : Goto(t, w) /\ pc[t] \in {"hit", "woken"}
    BY <1>6 DEF Hit, Rejoin
  <2>2. pc' \in [Thread -> PC] /\ pc'[t] \in {"use", "waiting"} /\ pc[t] \in {"hit", "woken"}
    BY <1>p, <2>1 DEF PC
  <2>3. entry' \in [Slot -> Thread \cup {None}] /\ global' \in Thread \cup {None}
    BY <1>0, <1>6 DEF TypeOK, Hit, Rejoin
  <2>4. UNCHANGED <<slotVars, hand, scans, disk, queue, op, slot, out, owed, kernel>>
    BY <1>6 DEF Hit, Rejoin
  <2>5. CallsFit'
    BY <1>0, <1>p, <2>1, <2>2, <2>4, OthersFit DEF CallFits, ServedPC, MissPC, LoaderPC
  <2>6. TypeOK'
    BY <1>0, <2>2, <2>3, <2>4 DEF TypeOK
  <2> QED
    BY <1>0, <2>4, <2>5, <2>6 DEF TypeInv, ScansBounded, MaxScans
<1>7. ASSUME Use(t) PROVE TypeInv'
  <2>1. op[t].kind \in {"read", "write"} /\ op[t] \in Atomic!Request /\ slot[t] \in 0..CACHE_SIZE
        /\ op[t] \in Call
    <3>1. pc[t] = "use"
      BY <1>7 DEF Use
    <3>2. op[t].kind \in {"read", "write"}
      BY <1>0, <3>1 DEF CallFits, ServedPC
    <3> QED
      BY <1>0, <1>p, <3>2 DEF CallFits
  <2>2. CallsFit' /\ pc' \in [Thread -> PC] /\ op' \in [Thread -> Call]
        /\ slot' \in [Thread -> 0..CACHE_SIZE]
    BY <1>0, <1>7, <2>1, ReturnFits DEF Use
  <2>3. data' \in [Slot -> Block] /\ dirty' \in [Slot -> BOOLEAN] /\ owed' \subseteq Sector
    <3>1. CASE op[t].kind = "read"
      BY <1>0, <1>7, <3>1 DEF Use, TypeOK
    <3>2. CASE op[t].kind = "write"
      <4>1. op[t].value \in Value
        BY <2>1, <3>2 DEF Atomic!Request
      <4>2. data \in [Slot -> Block] /\ \A i \in Slot : Written(data[i], op[t]) \in Block
        BY <1>0, <2>1, <4>1, WrittenType DEF TypeOK
      <4>3. data' = [data EXCEPT ![slot[t]] = Written(data[slot[t]], op[t])]
        BY <1>7, <3>2 DEF Use
      <4>4. data' \in [Slot -> Block]
        BY <4>2, <4>3
      <4> QED
        BY <1>0, <1>7, <3>2, <4>4 DEF Use, TypeOK
    <3> QED
      BY <2>1, <3>1, <3>2
  <2>4. accessed' \in [Slot -> BOOLEAN] /\ entry' \in [Slot -> Thread \cup {None}]
    BY <1>0, <1>7 DEF Use, TypeOK
  <2>5. TypeOK'
    BY <1>0, <1>7, <2>2, <2>3, <2>4 DEF Use, TypeOK
  <2> QED
    BY <1>0, <1>7, <2>2, <2>5 DEF Use, TypeInv, ScansBounded, MaxScans
<1>8. ASSUME Evict(t) PROVE TypeInv'
  <2>1. pc' \in [Thread -> PC] /\ pc'[t] \in {"reserve", "scan"} /\ pc[t] = "evict"
    BY <1>8, <1>p DEF Evict, PC
  <2>2. slot' \in [Thread -> 0..CACHE_SIZE] /\ \A u \in Thread : u # t => slot'[u] = slot[u]
    BY <1>8, <1>p, <1>s DEF Evict
  <2>3. UNCHANGED <<slotVars, entry, global, hand, scans, disk, queue, op, out, owed, kernel>>
    BY <1>8 DEF Evict
  <2>4. \A u \in Thread : u # t => pc'[u] = pc[u]
    BY <1>8, <1>p DEF Evict
  <2>5. CallsFit'
    BY <1>0, <1>p, <2>1, <2>2, <2>3, <2>4, OthersFit DEF CallFits, ServedPC, MissPC, LoaderPC
  <2>6. TypeOK'
    BY <1>0, <2>1, <2>2, <2>3 DEF TypeOK
  <2> QED
    BY <1>0, <2>3, <2>5, <2>6 DEF TypeInv, ScansBounded, MaxScans
<1>9. ASSUME Scan(t) PROVE TypeInv'
  <2>1. hand \in Slot /\ hand' \in Slot
    BY <1>0, <1>9, NextHand DEF TypeOK, Scan
  <2>2. scans \in Nat /\ scans' \in 0..(2 * CACHE_SIZE + 1) /\ (kernel' = "up" => scans' <= MaxScans)
        /\ kernel' \in {"up", "no victim"}
    <3>1. scans \in Nat /\ scans <= MaxScans
      BY SMT, <1>0 DEF TypeOK
    <3>2. CASE scans' = 0 /\ kernel' = kernel
      BY SMT, <1>s, <3>1, <3>2
    <3>3. CASE scans' = scans + 1 /\ kernel' = IF scans + 1 > MaxScans THEN "no victim" ELSE kernel
      <4>1. scans + 1 \in 0..(2 * CACHE_SIZE + 1)
        BY SMT, <1>s, <3>1
      <4>2. CASE scans + 1 > MaxScans
        BY <3>1, <3>3, <4>1, <4>2
      <4>3. CASE ~(scans + 1 > MaxScans)
        <5>1. scans + 1 <= MaxScans
          BY SMT, <1>s, <3>1, <4>3
        <5> QED
          BY <3>1, <3>3, <4>1, <4>3, <5>1
      <4> QED
        BY <4>2, <4>3
    <3>4. \/ scans' = 0 /\ kernel' = kernel
          \/ /\ scans' = scans + 1
             /\ kernel' = IF scans + 1 > MaxScans THEN "no victim" ELSE kernel
      BY <1>9 DEF Scan
    <3> QED
      BY <3>2, <3>3, <3>4
  <2>3. pc' \in [Thread -> PC] /\ pc'[t] \in {"scan", "victim"} /\ pc[t] = "scan"
        /\ slot' \in [Thread -> 0..CACHE_SIZE]
        /\ \A u \in Thread : u # t => slot'[u] = slot[u] /\ pc'[u] = pc[u]
    BY <1>9, <1>p, <1>s, <2>1 DEF Scan, PC
  <2>4. accessed' \in [Slot -> BOOLEAN]
    BY <1>0, <1>9 DEF Scan, TypeOK
  <2>5. UNCHANGED <<state, sector, dirty, data, entry, global, disk, queue, op, out, owed>>
    BY <1>9 DEF Scan
  <2>6. CallsFit'
    BY <1>0, <1>p, <2>3, <2>5, OthersFit DEF CallFits, ServedPC, MissPC, LoaderPC
  <2>7. TypeOK'
    BY <1>0, <2>1, <2>2, <2>3, <2>4, <2>5 DEF TypeOK
  <2> QED
    BY <2>2, <2>6, <2>7 DEF TypeInv, ScansBounded
<1>10. ASSUME WriteBack(t) PROVE TypeInv'
  <2>1. pc' \in [Thread -> PC] /\ pc'[t] = "reserve" /\ pc[t] = "victim"
        /\ \A u \in Thread : u # t => pc'[u] = pc[u]
    BY <1>10, <1>p DEF WriteBack, PC
  <2>2. disk' \in [Sector -> Block] /\ dirty' \in [Slot -> BOOLEAN]
    <3>1. slot[t] \in Slot
      BY <1>10 DEF WriteBack, CacheInv, SlotChosen
    <3> QED
      BY <1>0, <1>10, <3>1 DEF WriteBack, TypeOK
  <2>3. UNCHANGED <<state, sector, accessed, data, entry, global, hand, scans, queue, op, slot, out,
                    owed, kernel>>
    BY <1>10 DEF WriteBack
  <2>4. CallsFit'
    BY <1>0, <1>p, <2>1, <2>3, OthersFit DEF CallFits, ServedPC, MissPC, LoaderPC
  <2>5. TypeOK'
    BY <1>0, <2>1, <2>2, <2>3 DEF TypeOK
  <2> QED
    BY <1>0, <2>3, <2>4, <2>5 DEF TypeInv, ScansBounded, MaxScans
<1>11. ASSUME Reserve(t) PROVE TypeInv'
  <2>1. pc' \in [Thread -> PC] /\ pc'[t] = "load" /\ pc[t] = "reserve"
        /\ \A u \in Thread : u # t => pc'[u] = pc[u]
    BY <1>11, <1>p DEF Reserve, PC
  <2>2. op[t].sector \in 0..SectorCount
    BY <1>p DEF Call
  <2>3. state' \in [Slot -> {"INVALID", "LOADING", "VALID"}] /\ sector' \in [Slot -> 0..SectorCount]
        /\ dirty' \in [Slot -> BOOLEAN]
    BY <1>0, <1>11, <2>2 DEF Reserve, TypeOK
  <2>4. /\ UNCHANGED <<accessed, data, entry, hand, scans, disk, queue, op, slot, out, owed, kernel>>
        /\ global' = None
    BY <1>11 DEF Reserve
  <2>5. CallsFit'
    BY <1>0, <1>p, <2>1, <2>4, OthersFit DEF CallFits, ServedPC, MissPC, LoaderPC
  <2>6. TypeOK'
    BY <1>0, <2>1, <2>3, <2>4 DEF TypeOK
  <2> QED
    BY <1>0, <2>4, <2>5, <2>6 DEF TypeInv, ScansBounded, MaxScans
<1>12. ASSUME Load(t) PROVE TypeInv'
  <2>1. /\ UNCHANGED <<state, sector, dirty, accessed, entry, global, hand, scans, disk, queue, op,
                       slot, out, owed>>
        /\ pc[t] = "load"
    BY <1>12 DEF Load
  <2>2. CASE kernel' = "past end" /\ UNCHANGED <<data, pc>>
    <3>1. TypeOK'
      BY <1>0, <2>1, <2>2 DEF TypeOK
    <3>2. CallsFit'
      BY <1>0, <2>1, <2>2 DEF CallsFit, CallFits
    <3> QED
      BY <2>2, <3>1, <3>2 DEF TypeInv, ScansBounded
  <2>3. CASE Goto(t, "finish") /\ UNCHANGED kernel /\ data' \in [Slot -> Block]
    <3>1. pc' \in [Thread -> PC] /\ pc'[t] = "finish"
          /\ \A u \in Thread : u # t => pc'[u] = pc[u]
      BY <1>p, <2>3 DEF PC
    <3>2. TypeOK'
      BY <1>0, <2>1, <2>3, <3>1 DEF TypeOK
    <3>3. CallsFit'
      BY <1>0, <1>p, <2>1, <3>1, OthersFit DEF CallFits, ServedPC, MissPC, LoaderPC
    <3> QED
      BY <1>0, <2>1, <2>3, <3>2, <3>3 DEF TypeInv, ScansBounded, MaxScans
  <2>4. data' = data \/ (op[t].sector \in Sector
                         /\ data' = [data EXCEPT ![slot[t]] = disk[op[t].sector]])
    BY <1>12 DEF Load
  <2>5. data' \in [Slot -> Block]
    BY <1>0, <2>4 DEF TypeOK
  <2> QED
    BY <1>12, <2>2, <2>3, <2>5 DEF Load
<1>13. ASSUME Finish(t) PROVE TypeInv'
  <2>1. pc' \in [Thread -> PC] /\ pc'[t] = "settle" /\ pc[t] = "finish"
        /\ \A u \in Thread : u # t => pc'[u] = pc[u]
    BY <1>13, <1>p DEF Finish, PC
  <2>2. UNCHANGED <<sector, dirty, accessed, global, hand, scans, disk, queue, op, slot, out, kernel>>
    BY <1>13 DEF Finish
  <2>3. state' \in [Slot -> {"INVALID", "LOADING", "VALID"}]
        /\ entry' \in [Slot -> Thread \cup {None}]
    BY <1>0, <1>13 DEF Finish, TypeOK
  <2>4. data' \in [Slot -> Block] /\ owed' \subseteq Sector
    <3>1. CASE op[t].kind # "write"
      BY <1>0, <1>13, <3>1 DEF Finish, TypeOK
    <3>2. CASE op[t].kind = "write"
      <4>1. op[t].value \in Value /\ op[t] \in Call
        BY <1>0, <1>p, <3>2 DEF CallFits, Atomic!Request
      <4>2. data \in [Slot -> Block] /\ \A i \in Slot : Written(data[i], op[t]) \in Block
        BY <1>0, <4>1, WrittenType DEF TypeOK
      <4>3. data' = [data EXCEPT ![slot[t]] = Written(data[slot[t]], op[t])]
        BY <1>13, <3>2 DEF Finish
      <4>4. data' \in [Slot -> Block]
        BY <4>2, <4>3
      <4> QED
        BY <1>0, <1>13, <3>2, <4>4 DEF Finish, TypeOK
    <3> QED
      BY <3>1, <3>2
  <2>5. CallsFit'
    BY <1>0, <1>p, <2>1, <2>2, OthersFit DEF CallFits, ServedPC, MissPC, LoaderPC
  <2>6. TypeOK'
    BY <1>0, <2>1, <2>2, <2>3, <2>4 DEF TypeOK
  <2> QED
    BY <1>0, <2>2, <2>5, <2>6 DEF TypeInv, ScansBounded, MaxScans
<1>14. ASSUME Settle(t) PROVE TypeInv'
  <2>1. pc[t] = "settle" /\ op[t].kind \in {"read", "write", "prefetch"}
    BY <1>0, <1>14 DEF Settle, CallFits, LoaderPC
  <2>2. /\ pc' \in [Thread -> PC]
        /\ pc'[t] = IF op[t].kind = "read" THEN "request" ELSE "idle"
        /\ \A u \in Thread : u # t => pc'[u] = pc[u] \/ (pc[u] = "waiting" /\ pc'[u] = "woken")
    BY <1>14, <1>p DEF Settle, PC
  <2>3. /\ op' \in [Thread -> Call] /\ slot' \in [Thread -> 0..CACHE_SIZE]
        /\ \A u \in Thread : u # t => op'[u] = op[u] /\ slot'[u] = slot[u]
        /\ IF op[t].kind = "read" THEN op'[t] = op[t] /\ slot'[t] = slot[t]
           ELSE op'[t] = NoCall /\ slot'[t] = 0
    <3>1. CASE op[t].kind = "read"
      BY <1>14, <1>p, <3>1 DEF Settle
    <3>2. CASE op[t].kind # "read"
      BY <1>14, <1>p, <1>s, <3>2, CallTypes DEF Settle
    <3> QED
      BY <3>1, <3>2
  <2>4. CallFits(t)'
    <3>1. CASE op[t].kind = "read"
      BY <1>0, <2>1, <2>2, <2>3, <3>1 DEF CallFits, ServedPC, MissPC, LoaderPC
    <3>2. CASE op[t].kind # "read"
      BY SMT, <2>2, <2>3, <3>2 DEF CallFits, ServedPC, MissPC, LoaderPC, NoCall
    <3> QED
      BY <3>1, <3>2
  <2>5. CallsFit'
    BY <1>0, <2>2, <2>3, <2>4, OthersFit
  <2>6. /\ UNCHANGED <<state, sector, data, global, hand, scans, disk, queue, owed, kernel>>
        /\ accessed' \in [Slot -> BOOLEAN] /\ dirty' \in [Slot -> BOOLEAN]
        /\ entry' \in [Slot -> Thread \cup {None}]
    BY <1>0, <1>14 DEF Settle, TypeOK
  <2>7. TypeOK'
    BY <1>0, <2>2, <2>3, <2>6 DEF TypeOK
  <2> QED
    BY <1>0, <2>5, <2>6, <2>7 DEF TypeInv, ScansBounded, MaxScans
<1>15. ASSUME FlushBegin(t) PROVE TypeInv'
  <2>1. /\ pc[t] = "lock" /\ op[t].kind = "flush" /\ global' = t /\ owed' \subseteq Sector
        /\ UNCHANGED <<slotVars, entry, hand, scans, disk, queue, op, slot, out, kernel>>
    BY <1>15 DEF FlushBegin
  <2>2. pc' \in [Thread -> PC] /\ pc'[t] = "flush" /\ \A u \in Thread : u # t => pc'[u] = pc[u]
    BY <1>15, <1>p DEF FlushBegin, PC
  <2>3. CallsFit'
    BY <1>0, <2>1, <2>2, OthersFit DEF CallFits, ServedPC, MissPC, LoaderPC
  <2>4. TypeOK'
    BY <1>0, <2>1, <2>2 DEF TypeOK
  <2> QED
    BY <1>0, <2>1, <2>3, <2>4 DEF TypeInv, ScansBounded, MaxScans
<1>16. ASSUME FlushSlot(t) PROVE TypeInv'
  <2>1. /\ pc[t] = "flush" /\ slot[t] < CACHE_SIZE /\ slot' = [slot EXCEPT ![t] = slot[t] + 1]
        /\ UNCHANGED <<state, sector, accessed, data, entry, global, hand, scans, queue, pc, op, out,
                       owed, kernel>>
    BY <1>16 DEF FlushSlot
  <2>2. slot[t] \in Slot /\ slot[t] + 1 \in 0..CACHE_SIZE
    BY SMT, <1>p, <1>s, <2>1 DEF Slot
  <2>3. slot' \in [Thread -> 0..CACHE_SIZE] /\ \A u \in Thread : u # t => slot'[u] = slot[u]
    BY <1>p, <2>1, <2>2
  <2>4. disk' \in [Sector -> Block] /\ dirty' \in [Slot -> BOOLEAN]
    BY <1>0, <1>16, <2>2 DEF FlushSlot, TypeOK
  <2>5. CallsFit'
    BY <1>0, <2>1, <2>3, OthersFit DEF CallFits, ServedPC, MissPC, LoaderPC
  <2>6. TypeOK'
    BY <1>0, <2>1, <2>3, <2>4 DEF TypeOK
  <2> QED
    BY <1>0, <2>1, <2>5, <2>6 DEF TypeInv, ScansBounded, MaxScans
<1>17. ASSUME FlushEnd(t) PROVE TypeInv'
  <2>1. /\ pc[t] = "flush" /\ op[t].kind = "flush" /\ Return(t) /\ global' = None /\ owed' = {}
        /\ UNCHANGED <<slotVars, entry, hand, scans, disk, queue, out, kernel>>
    BY <1>0, <1>17 DEF FlushEnd, CallFits
  <2>2. CallsFit' /\ pc' \in [Thread -> PC] /\ op' \in [Thread -> Call]
        /\ slot' \in [Thread -> 0..CACHE_SIZE]
    BY <1>0, <2>1, ReturnFits
  <2>3. TypeOK'
    BY <1>0, <2>1, <2>2 DEF TypeOK
  <2> QED
    BY <1>0, <2>1, <2>2, <2>3 DEF TypeInv, ScansBounded, MaxScans
<1> QED
  BY <1>1, <1>2, <1>3, <1>4, <1>5, <1>6, <1>7, <1>8, <1>9, <1>10, <1>11, <1>12, <1>13, <1>14,
     <1>15, <1>16, <1>17 DEF Work

\* An empty cache is well typed.
LEMMA InitTypes == Init => TypeInv
<1> SUFFICES ASSUME Init PROVE TypeInv
  OBVIOUS
<1>1. 0 \in Slot /\ 0 \in Sector /\ 0 \in 0..SectorCount /\ 0 \in 0..CACHE_SIZE
      /\ 0 \in 0..(2 * CACHE_SIZE + 1) /\ 0 <= MaxScans
  BY SMT, CacheAssumption DEF Slot, Sector, MaxScans
<1>2. << >> \in Seq(1..SectorCount) /\ Len(<< >>) < QueueSize
  BY SMT, CacheAssumption
<1>3. Contents0[0] \in Block
  BY <1>1, CacheAssumption
<1>4. TypeOK
  BY <1>1, <1>2, <1>3, CallTypes, CacheAssumption DEF Init, TypeOK, PC
<1>5. CallsFit
  BY DEF Init, CallsFit, CallFits, NoCall, ServedPC, MissPC, LoaderPC
<1>6. ScansBounded
  BY <1>1 DEF Init, ScansBounded
<1> QED
  BY <1>4, <1>5, <1>6 DEF TypeInv

\* Types hold in every reachable state.
LEMMA TypeInvariant == Spec => [](CacheInv /\ TypeInv)
<1>1. CacheInv /\ TypeInv /\ [Next]_vars => TypeInv'
  <2> SUFFICES ASSUME CacheInv, TypeInv, [Next]_vars PROVE TypeInv'
    OBVIOUS
  <2>1. ASSUME NEW t \in Thread, kernel = "up", Begin(t) \/ Work(t) PROVE TypeInv'
    BY <2>1, TypeStep
  <2>2. CASE UNCHANGED vars
    BY <2>2 DEF vars, slotVars, TypeInv, TypeOK, CallsFit, CallFits, ScansBounded
  <2> QED
    BY <2>1, <2>2 DEF Next, Halted
<1> QED
  BY <1>1, InitTypes, CacheInvariant, PTL DEF Spec

\* The slots, locks, calls and the prefetch queue of the cache are well formed
\* in every behaviour: in particular cache_request_prefetch keeps the ring
\* below PREFETCH_QUEUE_SIZE, evict_clock's scans stay within two turns and
\* one, and clock_hand within the slots.
THEOREM CacheTypes == Spec => []TypeOK
<1>1. CacheInv /\ TypeInv => TypeOK
  BY DEF TypeInv
<1> QED
  BY <1>1, TypeInvariant, PTL
=============================================================================
