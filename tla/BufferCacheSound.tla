------------------------- MODULE BufferCacheSound --------------------------
(***************************************************************************)
(* What the buffer cache keeps while threads share its slots, for any      *)
(* number of slots, sectors, cells and threads, when the threads a         *)
(* cond_broadcast wakes run before their slot is evicted; and that         *)
(* cache_flush leaves on disk what it owes.                                *)
(*                                                                         *)
(* Three facts are maintained by different locks: a thread's slot keeps    *)
(* the sector the thread asked for (the entry lock, or the wait for its    *)
(* load), at most one slot has it (the global lock), and a slot that is    *)
(* not dirty, and not about to be, agrees with the disk.                   *)
(***************************************************************************)
EXTENDS BufferCacheProofs

\* First-order steps: leaves that compute or rewrite functions cite SMT.
USE Zenon

\* The state of the slot a thread relies on; it holds the thread's sector.
SlotKept(t) ==
  /\ pc[t] \in ServedPC \cup LoaderPC =>
       /\ slot[t] \in Slot /\ state[slot[t]] # "INVALID"
       /\ sector[slot[t]] = op[t].sector
  /\ pc[t] \in {"hit", "use", "settle", "victim"} => state[slot[t]] = "VALID"
  /\ pc[t] \in {"load", "finish"} => state[slot[t]] = "LOADING"

\* A slot has one loader.
LoadersApart ==
  \A t, u \in Thread :
    pc[t] \in {"load", "finish"} /\ pc[u] \in {"load", "finish"} /\ slot[t] = slot[u] => t = u

\* Copies are made under the entry lock.
EntryHeld(t) == pc[t] \in {"use", "settle"} => entry[slot[t]] = t

\* A slot about to be reserved is clean and nobody relies on it.
ReserveFree(t) ==
  pc[t] = "reserve" =>
    /\ state[slot[t]] # "LOADING" /\ ~dirty[slot[t]]
    /\ \A u \in Thread : pc[u] \in ServedPC \cup LoaderPC => slot[u] # slot[t]

\* A write has been copied into slot i and the slot is not yet marked dirty.
Settling(i) ==
  \E t \in Thread : pc[t] = "settle" /\ op[t].kind = "write" /\ slot[t] = i

\* Clean slots agree with the disk.
Coherent(i) ==
  /\ dirty[i] => state[i] = "VALID"
  /\ state[i] = "VALID" =>
       /\ sector[i] \in Sector
       /\ ~dirty[i] /\ ~Settling(i) => data[i] = disk[sector[i]]

\* A loaded slot has the sector's contents, unless a write will replace all
\* of it.
Loaded(t) ==
  pc[t] = "finish" =>
    /\ op[t].sector \in Sector
    /\ (op[t].kind = "write" /\ op[t].cells = Cell) \/ data[slot[t]] = disk[op[t].sector]

\* Of the sectors a running cache_flush owes, those in slots it has passed and
\* those in clean slots are on disk.
FlushedSoFar(t) ==
  pc[t] = "flush" =>
    \A i \in Slot : /\ state[i] = "VALID" /\ sector[i] \in owed
                    /\ i < slot[t] \/ ~dirty[i]
                    => data[i] = disk[sector[i]]

\* A client has a result only between its copy and its return.
OutFits ==
  /\ DOMAIN out = Client /\ out = [t \in Client |-> out[t]]
  /\ \A t \in Client : pc[t] # "request" => out[t] = None

SoundInv ==
  /\ \A t \in Thread : SlotKept(t) /\ EntryHeld(t) /\ ReserveFree(t) /\ Loaded(t) /\ FlushedSoFar(t)
  /\ LoadersApart
  /\ \A i \in Slot : Coherent(i)

-----------------------------------------------------------------------------
(* Steps that touch no slot. *)

\* What a step keeps that leaves slots and disk alone and moves one thread
\* outside a load.
LEMMA MoveSound ==
  ASSUME TypeInv, CacheInv, SoundInv, NEW t \in Thread,
         UNCHANGED <<state, sector, dirty, data, disk>>,
         \A u \in Thread : u # t => pc'[u] = pc[u] /\ op'[u] = op[u] /\ slot'[u] = slot[u],
         pc[t] \notin LoaderPC, pc'[t] \notin LoaderPC,
         SlotKept(t)', EntryHeld(t)', ReserveFree(t)', FlushedSoFar(t)',
         \/ UNCHANGED entry
         \/ entry[slot[t]] = None /\ entry' = [entry EXCEPT ![slot[t]] = t],
         pc'[t] \in ServedPC =>
           (pc[t] \in ServedPC /\ slot'[t] = slot[t]) \/ global \in {t, None},
         \A u \in Thread : u # t /\ pc[u] = "flush" => owed' \subseteq owed
  PROVE  SoundInv'
<1>0. /\ pc[t] \notin {"load", "finish", "settle"} /\ pc'[t] \notin {"load", "finish", "settle"}
  BY DEF LoaderPC
<1>t. entry \in [Slot -> Thread \cup {None}] /\ None \notin Thread
  BY CacheAssumption DEF TypeInv, TypeOK
<1>1. ASSUME NEW u \in Thread PROVE SlotKept(u)'
  <2>1. CASE u # t
    BY SMT, <2>1 DEF SoundInv, SlotKept
  <2> QED
    BY <2>1
<1>2. ASSUME NEW u \in Thread PROVE EntryHeld(u)'
  <2>1. CASE u # t
    <3>1. EntryHeld(u) /\ SlotKept(u)
      BY DEF SoundInv
    <3> QED
      BY SMT, <1>t, <2>1, <3>1 DEF EntryHeld, SlotKept, ServedPC, LoaderPC
  <2> QED
    BY <2>1
<1>3. ASSUME NEW u \in Thread PROVE ReserveFree(u)'
  <2>1. CASE u # t
    <3> SUFFICES ASSUME pc[u] = "reserve" PROVE ReserveFree(u)'
      BY <2>1 DEF ReserveFree
    <3>1. ReserveFree(u) /\ global = u
      BY DEF SoundInv, CacheInv, GlobalHeld, GlobalPC
    <3>2. \A v \in Thread : pc'[v] \in ServedPC \cup LoaderPC =>
            pc[v] \in ServedPC \cup LoaderPC /\ slot'[v] = slot[v]
      BY <1>t, <2>1, <3>1
    <3> QED
      BY <2>1, <3>1, <3>2 DEF ReserveFree
  <2> QED
    BY <2>1
<1>4. ASSUME NEW u \in Thread PROVE Loaded(u)'
  <2>1. CASE u # t
    BY SMT, <2>1 DEF SoundInv, Loaded
  <2> QED
    BY <1>0, <2>1 DEF Loaded
<1>5. ASSUME NEW u \in Thread PROVE FlushedSoFar(u)'
  <2>1. CASE u # t
    BY SMT, <2>1 DEF SoundInv, FlushedSoFar
  <2> QED
    BY <2>1
<1>6. LoadersApart'
  <2>1. LoadersApart
    BY DEF SoundInv
  <2> QED
    BY SMT, <1>0, <2>1 DEF LoadersApart
<1>7. ASSUME NEW i \in Slot PROVE Coherent(i)'
  <2>1. Settling(i)' <=> Settling(i)
    BY <1>0 DEF Settling
  <2> QED
    BY <2>1 DEF SoundInv, Coherent
<1> QED
  BY <1>1, <1>2, <1>3, <1>4, <1>5, <1>6, <1>7 DEF SoundInv

\* The steps of that kind.
LEMMA MoverSteps ==
  ASSUME TypeInv, CacheInv, SoundInv, NEW t \in Thread,
         \/ Begin(t) \/ Dequeue(t) \/ Request(t) \/ Lookup(t) \/ Retest(t) \/ Hit(t)
         \/ Join(t) \/ Rejoin(t) \/ Evict(t) \/ Scan(t) \/ FlushBegin(t) \/ FlushEnd(t)
  PROVE  SoundInv'
<1>p. pc \in [Thread -> PC] /\ op \in [Thread -> Call] /\ slot \in [Thread -> 0..CACHE_SIZE]
  BY DEF TypeInv, TypeOK
<1>s. SlotKept(t) /\ EntryHeld(t) /\ CallFits(t) /\ None \notin Thread
  BY CacheAssumption DEF SoundInv, TypeInv, CallsFit
<1>g. pc[t] \in GlobalPC => global = t
  BY DEF CacheInv, GlobalHeld
<1> USE DEF Goto, slotVars
<1>a. ASSUME UNCHANGED <<state, sector, dirty, data, disk, entry, owed>>,
             \A u \in Thread : u # t => pc'[u] = pc[u] /\ op'[u] = op[u] /\ slot'[u] = slot[u],
             pc[t] \notin LoaderPC,
             pc'[t] \in {"idle", "lock", "request", "evict", "scan"}
      PROVE  SoundInv'
  <2>1. pc'[t] \notin LoaderPC \cup ServedPC /\ pc'[t] \notin {"victim", "reserve", "flush"}
    BY <1>a DEF LoaderPC, ServedPC
  <2>2. SlotKept(t)' /\ EntryHeld(t)' /\ ReserveFree(t)' /\ FlushedSoFar(t)'
    BY <2>1 DEF SlotKept, EntryHeld, ReserveFree, FlushedSoFar, LoaderPC, ServedPC
  <2> QED
    BY <1>a, <2>1, <2>2, MoveSound
<1>1. CASE Begin(t)
  <2>1. \A u \in Thread : u # t => pc'[u] = pc[u] /\ op'[u] = op[u] /\ slot'[u] = slot[u]
    BY <1>p, <1>1 DEF Begin
  <2> QED
    BY <1>1, <1>p, <1>a, <2>1 DEF Begin, LoaderPC
<1>2. CASE Dequeue(t)
  <2>1. \A u \in Thread : u # t => pc'[u] = pc[u] /\ op'[u] = op[u] /\ slot'[u] = slot[u]
    BY <1>p, <1>2 DEF Dequeue
  <2> QED
    BY <1>2, <1>p, <1>a, <2>1 DEF Dequeue, LoaderPC
<1>3. CASE Request(t)
  <2>1. \A u \in Thread : u # t => pc'[u] = pc[u] /\ op'[u] = op[u] /\ slot'[u] = slot[u]
    BY <1>p, <1>3 DEF Request
  <2> QED
    BY <1>3, <1>p, <1>a, <2>1 DEF Request, LoaderPC
<1>4. CASE Retest(t) \/ Join(t)
  <2>1. CASE kernel' = "assert" /\ UNCHANGED <<slotVars, entry, disk, pc, op, slot, owed>>
    BY SMT, <2>1 DEF SoundInv, SlotKept, EntryHeld, ReserveFree, Loaded, FlushedSoFar, LoadersApart,
                Coherent, Settling
  <2>2. CASE /\ pc[t] \in {"retest", "join"} /\ \E w \in {"join", "waiting"} : Goto(t, w)
             /\ UNCHANGED <<slotVars, entry, disk, op, slot, owed>>
    <3>1. /\ pc'[t] \in {"join", "waiting"} /\ global = t
          /\ \A u \in Thread : u # t => pc'[u] = pc[u]
      BY <1>p, <1>g, <2>2 DEF GlobalPC
    <3>2. SlotKept(t)' /\ EntryHeld(t)' /\ ReserveFree(t)' /\ FlushedSoFar(t)'
      BY <1>s, <2>2, <3>1 DEF SlotKept, EntryHeld, ReserveFree, FlushedSoFar, LoaderPC, ServedPC
    <3>3. pc[t] \notin LoaderPC /\ pc'[t] \notin LoaderPC
      BY <2>2, <3>1 DEF LoaderPC
    <3> QED
      BY <2>2, <3>1, <3>2, <3>3, MoveSound
  <2> QED
    BY <1>4, <2>1, <2>2 DEF Retest, Join, Panic
<1>5. CASE Hit(t) \/ Rejoin(t)
  <2>0. pc[t] \in {"hit", "woken"} /\ slot[t] \in Slot /\ state[slot[t]] # "INVALID"
        /\ sector[slot[t]] = op[t].sector
    BY <1>5, <1>s DEF Hit, Rejoin, SlotKept, ServedPC
  <2>1. /\ UNCHANGED <<slotVars, disk, op, slot, owed>>
        /\ pc'[t] \in {"use", "waiting"}
        /\ \A u \in Thread : u # t => pc'[u] = pc[u]
    BY <1>5, <1>p DEF Hit, Rejoin
  <2>2. /\ pc'[t] = "use" => entry' = [entry EXCEPT ![slot[t]] = t]
        /\ pc'[t] = "waiting" => entry' = entry
        /\ entry[slot[t]] = None
    BY <1>5, <1>p DEF Hit, Rejoin
  <2>3. pc'[t] = "use" => state[slot[t]] = "VALID"
    <3>1. CASE Hit(t)
      BY <1>s, <3>1 DEF Hit, SlotKept
    <3>2. CASE Rejoin(t)
      <4>1. state[slot[t]] \in {"INVALID", "LOADING", "VALID"}
        BY <2>0 DEF TypeInv, TypeOK
      <4> QED
        BY <1>p, <2>0, <3>2, <4>1 DEF Rejoin
    <3> QED
      BY <1>5, <3>1, <3>2
  <2>4. entry \in [Slot -> Thread \cup {None}]
    BY DEF TypeInv, TypeOK
  <2>5. SlotKept(t)' /\ EntryHeld(t)' /\ ReserveFree(t)' /\ FlushedSoFar(t)'
    BY <2>0, <2>1, <2>2, <2>3, <2>4
       DEF SlotKept, EntryHeld, ReserveFree, FlushedSoFar, LoaderPC, ServedPC
  <2>6. pc[t] \notin LoaderPC /\ pc'[t] \notin LoaderPC /\ pc[t] \in ServedPC
    BY <2>0, <2>1 DEF LoaderPC, ServedPC
  <2> QED
    BY <2>1, <2>2, <2>5, <2>6, MoveSound
<1>6. CASE Lookup(t)
  <2>1. pc[t] = "lock" /\ global = None /\ op[t].kind # "none" /\ pc[t] \notin LoaderPC
        /\ UNCHANGED <<slotVars, entry, disk, owed>>
    BY <1>6, <1>s DEF Lookup, CallFits, LoaderPC
  <2>2. CASE op[t].kind = "prefetch" /\ Return(t)
    <3>1. \A u \in Thread : u # t => pc'[u] = pc[u] /\ op'[u] = op[u] /\ slot'[u] = slot[u]
      BY <2>1, <2>2, ReturnFits DEF TypeInv
    <3>2. pc'[t] = "idle"
      BY <1>p, <2>2 DEF Return
    <3> QED
      BY <1>a, <2>1, <3>1, <3>2
  <2>3. CASE \E i \in Cached(op[t].sector) :
               /\ Goto(t, IF state[i] = "VALID" THEN "hit" ELSE "retest")
               /\ slot' = [slot EXCEPT ![t] = i] /\ global' = t /\ UNCHANGED op
    <3>1. PICK i \in Cached(op[t].sector) :
               /\ Goto(t, IF state[i] = "VALID" THEN "hit" ELSE "retest")
               /\ slot' = [slot EXCEPT ![t] = i] /\ global' = t /\ UNCHANGED op
      BY <2>3
    <3>2. i \in Slot /\ state[i] # "INVALID" /\ sector[i] = op[t].sector
      BY DEF Cached
    <3>3. /\ pc'[t] \in {"hit", "retest"} /\ (pc'[t] = "hit" => state[i] = "VALID") /\ slot'[t] = i
          /\ \A u \in Thread : u # t => pc'[u] = pc[u] /\ slot'[u] = slot[u]
      BY <1>p, <3>1
    <3>4. SlotKept(t)' /\ EntryHeld(t)' /\ ReserveFree(t)' /\ FlushedSoFar(t)'
      BY <2>1, <3>1, <3>2, <3>3
         DEF SlotKept, EntryHeld, ReserveFree, FlushedSoFar, LoaderPC, ServedPC
    <3>5. pc'[t] \notin LoaderPC
      BY <3>3 DEF LoaderPC
    <3> QED
      BY <2>1, <3>1, <3>3, <3>4, <3>5, MoveSound
  <2>4. CASE Goto(t, "evict") /\ UNCHANGED <<op, slot>>
    <3>1. pc'[t] = "evict" /\ \A u \in Thread : u # t => pc'[u] = pc[u]
      BY <1>p, <2>4
    <3> QED
      BY <1>a, <2>1, <2>4, <3>1
  <2> QED
    BY <1>6, <2>2, <2>3, <2>4 DEF Lookup
<1>7. CASE Evict(t)
  <2>1. pc[t] = "evict" /\ UNCHANGED <<slotVars, entry, disk, op, owed>> /\ pc[t] \notin LoaderPC
    BY <1>7 DEF Evict, LoaderPC
  <2>2. CASE Goto(t, "scan") /\ UNCHANGED slot
    <3>1. pc'[t] = "scan" /\ \A u \in Thread : u # t => pc'[u] = pc[u]
      BY <1>p, <2>2
    <3> QED
      BY <1>a, <2>1, <2>2, <3>1
  <2>3. CASE \E i \in Slot : /\ state[i] = "INVALID"
                             /\ slot' = [slot EXCEPT ![t] = i] /\ Goto(t, "reserve")
    <3>1. PICK i \in Slot : /\ state[i] = "INVALID"
                            /\ slot' = [slot EXCEPT ![t] = i] /\ Goto(t, "reserve")
      BY <2>3
    <3>2. /\ pc'[t] = "reserve" /\ slot'[t] = i
          /\ \A u \in Thread : u # t => pc'[u] = pc[u] /\ slot'[u] = slot[u]
      BY <1>p, <3>1
    <3>3. ~dirty[i]
      BY <3>1 DEF SoundInv, Coherent
    <3>4. \A u \in Thread : pc[u] \in ServedPC \cup LoaderPC => slot[u] # i
      BY <3>1 DEF SoundInv, SlotKept
    <3>5. pc'[t] \notin ServedPC \cup LoaderPC
      BY <3>2 DEF ServedPC, LoaderPC
    <3>6. ReserveFree(t)'
      BY <2>1, <3>1, <3>2, <3>3, <3>4, <3>5 DEF ReserveFree
    <3>7. SlotKept(t)' /\ EntryHeld(t)' /\ FlushedSoFar(t)'
      BY <3>2, <3>5 DEF SlotKept, EntryHeld, FlushedSoFar
    <3> QED
      BY <2>1, <3>2, <3>5, <3>6, <3>7, MoveSound
  <2> QED
    BY <1>7, <2>2, <2>3 DEF Evict
<1>8. CASE Scan(t)
  <2>1. pc[t] = "scan" /\ UNCHANGED <<state, sector, dirty, data, entry, disk, op, owed>>
        /\ pc[t] \notin LoaderPC
    BY <1>8 DEF Scan, LoaderPC
  <2>2. CASE UNCHANGED <<slot, pc>>
    BY <1>a, <2>1, <2>2
  <2>3. CASE /\ state[hand] = "VALID" /\ slot' = [slot EXCEPT ![t] = hand] /\ Goto(t, "victim")
    <3>1. /\ pc'[t] = "victim" /\ slot'[t] = hand
          /\ \A u \in Thread : u # t => pc'[u] = pc[u] /\ slot'[u] = slot[u]
      BY <1>p, <2>3
    <3>2. pc'[t] \notin ServedPC \cup LoaderPC
      BY <3>1 DEF ServedPC, LoaderPC
    <3>3. SlotKept(t)' /\ EntryHeld(t)' /\ ReserveFree(t)' /\ FlushedSoFar(t)'
      BY <2>1, <2>3, <3>1, <3>2 DEF SlotKept, EntryHeld, ReserveFree, FlushedSoFar
    <3> QED
      BY <2>1, <3>1, <3>2, <3>3, MoveSound
  <2> QED
    BY <1>8, <2>2, <2>3 DEF Scan
<1>9. CASE FlushBegin(t)
  <2>1. /\ pc[t] = "lock" /\ global = None /\ slot[t] = 0 /\ pc[t] \notin LoaderPC
        /\ UNCHANGED <<slotVars, entry, disk, op, slot>>
    BY <1>9, <1>s DEF FlushBegin, CallFits, LoaderPC
  <2>2. pc'[t] = "flush" /\ \A u \in Thread : u # t => pc'[u] = pc[u]
    BY <1>9, <1>p DEF FlushBegin
  <2>3. \A u \in Thread : pc[u] # "flush"
    BY <1>s, <2>1 DEF CacheInv, GlobalHeld, GlobalPC
  <2>4. pc'[t] \notin ServedPC \cup LoaderPC
    BY <2>2 DEF ServedPC, LoaderPC
  <2>5. FlushedSoFar(t)'
    <3> SUFFICES ASSUME NEW i \in Slot, state[i] = "VALID", sector[i] \in owed',
                        i < 0 \/ ~dirty[i]
                 PROVE  data[i] = disk[sector[i]]
      BY <2>1 DEF FlushedSoFar
    <3>1. ~dirty[i]
      BY SMT, CacheAssumption DEF Slot
    <3>2. ~Settling(i)
      <4> SUFFICES ASSUME NEW u \in Thread, pc[u] = "settle", op[u].kind = "write", slot[u] = i
                   PROVE  FALSE
        BY DEF Settling
      <4>1. sector[i] = op[u].sector
        BY DEF SoundInv, SlotKept, LoaderPC
      <4> QED
        BY <1>9, <4>1 DEF FlushBegin
    <3> QED
      BY <3>1, <3>2 DEF SoundInv, Coherent
  <2>6. SlotKept(t)' /\ EntryHeld(t)' /\ ReserveFree(t)'
    BY <2>2, <2>4 DEF SlotKept, EntryHeld, ReserveFree
  <2> QED
    BY <2>1, <2>2, <2>3, <2>4, <2>5, <2>6, MoveSound
<1>10. CASE FlushEnd(t)
  <2>1. /\ pc[t] = "flush" /\ op[t].kind = "flush" /\ pc[t] \notin LoaderPC
        /\ UNCHANGED <<slotVars, entry, disk>> /\ owed' = {} /\ Return(t)
    BY <1>10, <1>s DEF FlushEnd, CallFits, LoaderPC
  <2>2. \A u \in Thread : u # t => pc'[u] = pc[u] /\ op'[u] = op[u] /\ slot'[u] = slot[u]
    BY <2>1, ReturnFits DEF TypeInv
  <2>3. pc'[t] = "idle"
    BY <1>p, <2>1 DEF Return
  <2>4. pc'[t] \notin ServedPC \cup LoaderPC
    BY <2>3 DEF ServedPC, LoaderPC
  <2>5. SlotKept(t)' /\ EntryHeld(t)' /\ ReserveFree(t)' /\ FlushedSoFar(t)'
    BY <2>3, <2>4 DEF SlotKept, EntryHeld, ReserveFree, FlushedSoFar
  <2> QED
    BY <2>1, <2>2, <2>4, <2>5, MoveSound
<1> QED
  BY <1>1, <1>2, <1>3, <1>4, <1>5, <1>6, <1>7, <1>8, <1>9, <1>10

-----------------------------------------------------------------------------
(* Steps that change a slot or the disk. *)

\* What the proofs below take from the invariants.
LEMMA SoundFacts ==
  ASSUME TypeInv, CacheInv, SoundInv
  PROVE  /\ \A t \in Thread : /\ SlotKept(t) /\ EntryHeld(t) /\ ReserveFree(t) /\ Loaded(t)
                              /\ FlushedSoFar(t) /\ CallFits(t)
                              /\ (pc[t] \in GlobalPC => global = t)
         /\ LoadersApart /\ UniqueSector
         /\ \A i \in Slot : Coherent(i)
         /\ pc \in [Thread -> PC] /\ op \in [Thread -> Call]
         /\ slot \in [Thread -> 0..CACHE_SIZE]
         /\ state \in [Slot -> {"INVALID", "LOADING", "VALID"}]
         /\ sector \in [Slot -> 0..SectorCount] /\ dirty \in [Slot -> BOOLEAN]
         /\ data \in [Slot -> Block] /\ disk \in [Sector -> Block]
         /\ entry \in [Slot -> Thread \cup {None}] /\ None \notin Thread
BY CacheAssumption DEF TypeInv, TypeOK, CallsFit, CacheInv, GlobalHeld, SoundInv

\* A copy into or out of a slot that was found.
LEMMA UseSound ==
  ASSUME TypeInv, CacheInv, SoundInv, NEW t \in Thread, Use(t)
  PROVE  SoundInv'
<1> DEFINE i == slot[t]
<1>f. /\ \A u \in Thread : /\ SlotKept(u) /\ EntryHeld(u) /\ ReserveFree(u) /\ Loaded(u)
                           /\ FlushedSoFar(u)
      /\ LoadersApart /\ \A j \in Slot : Coherent(j)
      /\ dirty \in [Slot -> BOOLEAN] /\ data \in [Slot -> Block]
      /\ entry \in [Slot -> Thread \cup {None}] /\ None \notin Thread
  BY SoundFacts
<1>1. /\ pc[t] = "use" /\ i \in Slot /\ state[i] = "VALID" /\ sector[i] = op[t].sector
      /\ entry[i] = t /\ t \in Thread
  BY <1>f DEF Use, SlotKept, EntryHeld, ServedPC
<1>2. /\ UNCHANGED <<state, sector, disk>> /\ entry' = [entry EXCEPT ![i] = None] /\ Return(t)
  BY DEF Use
<1>3. /\ \A u \in Thread : u # t => pc'[u] = pc[u] /\ op'[u] = op[u] /\ slot'[u] = slot[u]
      /\ pc'[t] \in {"request", "idle"}
  <2>1. op[t].kind # "none" /\ pc[t] # "idle"
    BY DEF Use
  <2> QED
    BY <1>2, <2>1, ReturnFits DEF TypeInv
<1>4. pc'[t] \notin ServedPC \cup LoaderPC /\ pc'[t] \notin {"victim", "reserve", "flush"}
  BY <1>3 DEF ServedPC, LoaderPC
<1>5. \/ UNCHANGED <<data, dirty, owed>>
      \/ /\ dirty' = [dirty EXCEPT ![i] = TRUE] /\ owed' = owed \ {sector[i]}
         /\ \A j \in Slot : j # i => data'[j] = data[j]
  BY <1>1, <1>f DEF Use
<1>6. \A j \in Slot : j # i => data'[j] = data[j] /\ dirty'[j] = dirty[j]
  BY <1>5, <1>f
<1> HIDE DEF i
<1>7. ASSUME NEW u \in Thread PROVE SlotKept(u)'
  BY <1>f, <1>2, <1>3, <1>4 DEF SlotKept, LoaderPC, ServedPC
<1>8. ASSUME NEW u \in Thread PROVE EntryHeld(u)'
  <2>1. CASE u # t
    <3> SUFFICES ASSUME pc[u] \in {"use", "settle"} PROVE entry'[slot[u]] = u
      BY <1>3, <2>1 DEF EntryHeld
    <3>1. slot[u] \in Slot /\ entry[slot[u]] = u
      BY <1>f DEF EntryHeld, SlotKept, ServedPC, LoaderPC
    <3> QED
      BY <1>f, <1>1, <1>2, <2>1, <3>1
  <2> QED
    BY <1>3, <2>1 DEF EntryHeld
<1>9. ASSUME NEW u \in Thread PROVE ReserveFree(u)'
  <2> SUFFICES ASSUME u # t, pc[u] = "reserve" PROVE ReserveFree(u)'
    BY <1>3 DEF ReserveFree
  <2>1. slot[u] # i /\ slot[u] \in Slot
    BY <1>1, <1>f DEF ReserveFree, ServedPC, i, CacheInv, SlotChosen
  <2>2. \A v \in Thread : pc'[v] \in ServedPC \cup LoaderPC =>
          pc[v] \in ServedPC \cup LoaderPC /\ slot'[v] = slot[v]
    BY <1>3, <1>4
  <2> QED
    BY SMT, <1>2, <1>3, <1>6, <1>f, <2>1, <2>2 DEF ReserveFree
<1>10. ASSUME NEW u \in Thread PROVE Loaded(u)'
  <2> SUFFICES ASSUME u # t, pc[u] = "finish" PROVE Loaded(u)'
    BY <1>3 DEF Loaded
  <2>1. slot[u] # i /\ slot[u] \in Slot
    BY <1>1, <1>f DEF SlotKept, LoaderPC
  <2> QED
    BY SMT, <1>2, <1>3, <1>6, <1>f, <2>1 DEF Loaded
<1>11. ASSUME NEW u \in Thread PROVE FlushedSoFar(u)'
  <2> SUFFICES ASSUME u # t, pc[u] = "flush" PROVE FlushedSoFar(u)'
    BY <1>3 DEF FlushedSoFar
  <2> SUFFICES ASSUME NEW j \in Slot, state[j] = "VALID", sector[j] \in owed',
                      j < slot[u] \/ ~dirty'[j]
               PROVE  data'[j] = disk[sector[j]]
    BY <1>2, <1>3 DEF FlushedSoFar
  <2>1. FlushedSoFar(u)
    BY <1>f
  <2>2. CASE UNCHANGED <<data, dirty, owed>>
    BY <2>1, <2>2 DEF FlushedSoFar
  <2>3. CASE owed' = owed \ {sector[i]}
    <3>1. j # i
      BY <2>3
    <3> QED
      BY <1>6, <2>1, <2>3, <3>1 DEF FlushedSoFar
  <2> QED
    BY <1>5, <2>2, <2>3
<1>12. LoadersApart'
  BY SMT, <1>3, <1>f DEF LoadersApart
<1>13. ASSUME NEW j \in Slot PROVE Coherent(j)'
  <2>1. Settling(j)' <=> Settling(j)
    BY <1>1, <1>3 DEF Settling
  <2>2. Coherent(j)
    BY <1>f
  <2>3. CASE UNCHANGED <<data, dirty>>
    BY <1>2, <2>1, <2>2, <2>3 DEF Coherent
  <2>4. CASE dirty' = [dirty EXCEPT ![i] = TRUE] /\ j = i
    BY <1>1, <1>2, <1>f, <2>2, <2>4 DEF Coherent
  <2>5. CASE j # i
    BY <1>2, <1>6, <2>1, <2>2, <2>5 DEF Coherent
  <2> QED
    BY <1>5, <2>3, <2>4, <2>5
<1> QED
  BY <1>7, <1>8, <1>9, <1>10, <1>11, <1>12, <1>13 DEF SoundInv

\* A victim is written back.  No other slot has its sector, and nobody relies
\* on it once the threads woken for it have run.
LEMMA WriteBackSound ==
  ASSUME TypeInv, CacheInv, SoundInv, NEW t \in Thread, WriteBack(t), Prompt
  PROVE  SoundInv'
<1> DEFINE i == slot[t]
<1>f. /\ \A u \in Thread : /\ SlotKept(u) /\ EntryHeld(u) /\ ReserveFree(u) /\ Loaded(u)
                           /\ FlushedSoFar(u) /\ (pc[u] \in GlobalPC => global = u)
      /\ LoadersApart /\ UniqueSector /\ \A j \in Slot : Coherent(j)
      /\ dirty \in [Slot -> BOOLEAN] /\ disk \in [Sector -> Block] /\ pc \in [Thread -> PC]
      /\ entry \in [Slot -> Thread \cup {None}] /\ None \notin Thread
  BY SoundFacts
<1>1. /\ pc[t] = "victim" /\ i \in Slot /\ state[i] = "VALID" /\ entry[i] = None /\ global = t
      /\ sector[i] \in Sector
  <2>1. pc[t] = "victim" /\ i \in Slot /\ state[i] = "VALID" /\ entry[i] = None
    BY <1>f DEF WriteBack, SlotKept, CacheInv, SlotChosen
  <2> QED
    BY <1>f, <2>1 DEF GlobalPC, Coherent
<1>2. UNCHANGED <<state, sector, data, entry, op, slot, owed>>
  BY DEF WriteBack
<1>3. pc'[t] = "reserve" /\ \A u \in Thread : u # t => pc'[u] = pc[u]
  BY <1>f DEF WriteBack, Goto
<1>4. pc'[t] \notin ServedPC \cup LoaderPC
  BY <1>3 DEF ServedPC, LoaderPC
<1>5. ~dirty'[i] /\ \A j \in Slot : j # i => dirty'[j] = dirty[j]
  BY <1>1, <1>f DEF WriteBack
<1>6. \/ UNCHANGED <<disk, dirty>>
      \/ disk' = [disk EXCEPT ![sector[i]] = data[i]]
  BY <1>1 DEF WriteBack
<1>7. \A j \in Slot : j # i /\ state[j] # "INVALID" /\ sector[j] \in Sector =>
        disk'[sector[j]] = disk[sector[j]]
  <2> SUFFICES ASSUME NEW j \in Slot, j # i, state[j] # "INVALID"
               PROVE  sector[j] # sector[i]
    BY <1>6, <1>1, <1>f
  <2> QED
    BY <1>1, <1>f DEF UniqueSector
<1>8. ASSUME NEW u \in Thread, pc[u] \in ServedPC \cup LoaderPC PROVE slot[u] # i
  <2>1. CASE pc[u] \in {"retest", "hit", "join"}
    BY <1>1, <1>f, <2>1 DEF GlobalPC
  <2>2. CASE pc[u] \in {"waiting", "woken"}
    BY <1>1, <1>3, <2>2 DEF Prompt
  <2>3. CASE pc[u] \in {"use", "settle"}
    BY <1>1, <1>f, <2>3 DEF EntryHeld
  <2>4. CASE pc[u] \in {"load", "finish"}
    BY <1>1, <1>f, <2>4 DEF SlotKept
  <2> QED
    BY <1>8, <2>1, <2>2, <2>3, <2>4 DEF ServedPC, LoaderPC
<1> HIDE DEF i
<1>9. ASSUME NEW u \in Thread PROVE SlotKept(u)' /\ EntryHeld(u)'
  BY <1>f, <1>2, <1>3, <1>4 DEF SlotKept, EntryHeld, LoaderPC, ServedPC
<1>10. ASSUME NEW u \in Thread PROVE ReserveFree(u)'
  <2>1. CASE u = t
    <3>1. \A v \in Thread : pc'[v] \in ServedPC \cup LoaderPC => slot'[v] # i
      BY <1>2, <1>3, <1>4, <1>8
    <3> QED
      BY <1>1, <1>2, <1>5, <2>1, <3>1 DEF ReserveFree, i
  <2>2. CASE u # t
    BY <1>1, <1>3, <1>f, <2>2 DEF ReserveFree, GlobalPC
  <2> QED
    BY <2>1, <2>2
<1>11. ASSUME NEW u \in Thread PROVE Loaded(u)'
  <2> SUFFICES ASSUME u # t, pc[u] = "finish" PROVE Loaded(u)'
    BY <1>3 DEF Loaded
  <2>1. /\ slot[u] # i /\ slot[u] \in Slot /\ state[slot[u]] # "INVALID"
        /\ sector[slot[u]] = op[u].sector /\ op[u].sector \in Sector
    BY <1>8, <1>f DEF SlotKept, LoaderPC, Loaded
  <2>2. disk'[op[u].sector] = disk[op[u].sector]
    BY <1>7, <2>1
  <2> QED
    BY <1>2, <1>3, <1>f, <2>2 DEF Loaded
<1>12. ASSUME NEW u \in Thread PROVE FlushedSoFar(u)'
  BY <1>1, <1>3, <1>f DEF FlushedSoFar, GlobalPC
<1>13. LoadersApart'
  BY <1>2, <1>3, <1>f DEF LoadersApart
<1>14. ASSUME NEW j \in Slot PROVE Coherent(j)'
  <2>1. Settling(j)' <=> Settling(j)
    BY <1>1, <1>2, <1>3 DEF Settling
  <2>2. Coherent(j)
    BY <1>f
  <2>3. CASE UNCHANGED <<disk, dirty>>
    BY <1>2, <2>1, <2>2, <2>3 DEF Coherent
  <2>4. CASE disk' = [disk EXCEPT ![sector[i]] = data[i]] /\ j = i
    <3>1. disk'[sector[i]] = data[i]
      BY <1>1, <1>f, <2>4
    <3> QED
      BY <1>1, <1>2, <1>5, <2>4, <3>1 DEF Coherent
  <2>5. CASE j # i
    BY <1>2, <1>5, <1>7, <2>1, <2>2, <2>5 DEF Coherent
  <2> QED
    BY <1>6, <2>3, <2>4, <2>5
<1> QED
  BY <1>9, <1>10, <1>11, <1>12, <1>13, <1>14 DEF SoundInv

\* A free slot is taken for a sector.
LEMMA ReserveSound ==
  ASSUME TypeInv, CacheInv, SoundInv, NEW t \in Thread, Reserve(t)
  PROVE  SoundInv'
<1> DEFINE i == slot[t]
<1>f. /\ \A u \in Thread : /\ SlotKept(u) /\ EntryHeld(u) /\ ReserveFree(u) /\ Loaded(u)
                           /\ FlushedSoFar(u) /\ (pc[u] \in GlobalPC => global = u)
      /\ LoadersApart /\ \A j \in Slot : Coherent(j)
      /\ dirty \in [Slot -> BOOLEAN] /\ pc \in [Thread -> PC]
      /\ state \in [Slot -> {"INVALID", "LOADING", "VALID"}]
      /\ sector \in [Slot -> 0..SectorCount]
  BY SoundFacts
<1>1. /\ pc[t] = "reserve" /\ i \in Slot /\ global = t /\ ~dirty[i]
      /\ \A u \in Thread : pc[u] \in ServedPC \cup LoaderPC => slot[u] # i
  <2>1. pc[t] = "reserve" /\ i \in Slot
    BY DEF Reserve, CacheInv, SlotChosen
  <2> QED
    BY <1>f, <2>1 DEF GlobalPC, ReserveFree
<1>2. UNCHANGED <<data, entry, disk, op, slot, owed>>
  BY DEF Reserve
<1>3. pc'[t] = "load" /\ \A u \in Thread : u # t => pc'[u] = pc[u]
  BY <1>f DEF Reserve, Goto
<1>4. \A u \in Thread : u # t => pc[u] \notin GlobalPC
  BY <1>1, <1>f
<1>5. /\ state'[i] = "LOADING" /\ sector'[i] = op[t].sector
      /\ \A j \in Slot : j # i => state'[j] = state[j] /\ sector'[j] = sector[j]
  BY <1>1, <1>f DEF Reserve
<1>6. \A j \in Slot : dirty'[j] = dirty[j]
  BY <1>1, <1>f DEF Reserve
<1> HIDE DEF i
<1>7. ASSUME NEW u \in Thread PROVE SlotKept(u)'
  <2>1. CASE u = t
    BY <1>1, <1>2, <1>3, <1>5, <2>1 DEF SlotKept, i
  <2>2. CASE u # t
    <3>1. pc[u] # "victim"
      BY <1>4, <2>2 DEF GlobalPC
    <3>2. SlotKept(u)
      BY <1>f
    <3> QED
      BY <1>1, <1>2, <1>3, <1>5, <2>2, <3>1, <3>2 DEF SlotKept, LoaderPC, ServedPC
  <2> QED
    BY <2>1, <2>2
<1>8. ASSUME NEW u \in Thread PROVE EntryHeld(u)' /\ Loaded(u)'
  BY <1>f, <1>2, <1>3 DEF EntryHeld, Loaded
<1>9. ASSUME NEW u \in Thread PROVE ReserveFree(u)' /\ FlushedSoFar(u)'
  BY <1>3, <1>4 DEF ReserveFree, FlushedSoFar, GlobalPC
<1>10. LoadersApart'
  <2> SUFFICES ASSUME NEW u \in Thread, NEW v \in Thread, pc'[u] \in {"load", "finish"},
                      pc'[v] \in {"load", "finish"}, slot[u] = slot[v], u # v
               PROVE  FALSE
    BY <1>2 DEF LoadersApart
  <2>1. CASE u # t /\ v # t
    BY <1>3, <1>f, <2>1 DEF LoadersApart
  <2>2. CASE u = t \/ v = t
    BY SMT, <1>1, <1>3, <2>2 DEF LoaderPC, i
  <2> QED
    BY <2>1, <2>2
<1>11. ASSUME NEW j \in Slot PROVE Coherent(j)'
  <2>1. Settling(j)' <=> Settling(j)
    BY <1>1, <1>2, <1>3 DEF Settling
  <2> QED
    BY <1>1, <1>2, <1>5, <1>6, <1>f, <2>1 DEF Coherent
<1> QED
  BY <1>7, <1>8, <1>9, <1>10, <1>11 DEF SoundInv

\* block_read into a reserved slot, by its only loader.
LEMMA LoadSound ==
  ASSUME TypeInv, CacheInv, SoundInv, NEW t \in Thread, Load(t)
  PROVE  SoundInv'
<1> DEFINE i == slot[t]
<1>f. /\ \A u \in Thread : /\ SlotKept(u) /\ EntryHeld(u) /\ ReserveFree(u) /\ Loaded(u)
                           /\ FlushedSoFar(u) /\ CallFits(u)
      /\ LoadersApart /\ \A j \in Slot : Coherent(j)
      /\ data \in [Slot -> Block] /\ pc \in [Thread -> PC]
  BY SoundFacts
<1>1. pc[t] = "load" /\ i \in Slot /\ state[i] = "LOADING"
  BY <1>f DEF Load, SlotKept, LoaderPC
<1>2. UNCHANGED <<state, sector, dirty, entry, disk, op, slot, owed>>
  BY DEF Load
<1>3. CASE UNCHANGED <<data, pc>>
  BY SMT, <1>2, <1>3, <1>f
     DEF SoundInv, SlotKept, EntryHeld, ReserveFree, Loaded, FlushedSoFar, LoadersApart, Coherent,
         Settling
<1>4. CASE Goto(t, "finish")
  <2>1. pc'[t] = "finish" /\ \A u \in Thread : u # t => pc'[u] = pc[u]
    BY <1>4, <1>f DEF Goto
  <2>2. \A j \in Slot : j # i => data'[j] = data[j]
    BY <1>f DEF Load
  <2>3. ASSUME NEW u \in Thread PROVE Loaded(u)'
    <3>1. CASE u = t
      <4>1. CASE op[t].kind = "write" /\ op[t].cells = Cell
        <5>1. op[t].sector \in Sector
          BY <1>f, <4>1 DEF CallFits, Atomic!Request
        <5> QED
          BY <1>2, <3>1, <4>1, <5>1 DEF Loaded
      <4>2. CASE op[t].sector \in Sector /\ data' = [data EXCEPT ![i] = disk[op[t].sector]]
        <5>1. data'[i] = disk[op[t].sector]
          BY <1>1, <1>f, <4>2
        <5> QED
          BY <1>2, <3>1, <4>2, <5>1 DEF Loaded
      <4>3. CASE UNCHANGED pc
        BY <1>1, <2>1, <4>3
      <4> QED
        BY <4>1, <4>2, <4>3 DEF Load
    <3>2. CASE u # t
      <4> SUFFICES ASSUME pc[u] = "finish" PROVE Loaded(u)'
        BY <2>1, <3>2 DEF Loaded
      <4>1. slot[u] # i /\ slot[u] \in Slot
        BY <1>1, <1>f, <3>2 DEF LoadersApart, SlotKept, LoaderPC
      <4> QED
        BY <1>2, <1>f, <2>1, <2>2, <3>2, <4>1 DEF Loaded
    <3> QED
      BY <3>1, <3>2
  <2> HIDE DEF i
  <2>4. ASSUME NEW u \in Thread PROVE SlotKept(u)' /\ EntryHeld(u)'
    BY <1>1, <1>2, <1>f, <2>1 DEF SlotKept, EntryHeld, LoaderPC
  <2>5. ASSUME NEW u \in Thread PROVE ReserveFree(u)'
    <3>1. \A v \in Thread : pc'[v] \in ServedPC \cup LoaderPC => pc[v] \in ServedPC \cup LoaderPC
      BY <1>1, <2>1 DEF LoaderPC
    <3> QED
      BY <1>2, <1>f, <2>1, <3>1 DEF ReserveFree
  <2>6. ASSUME NEW u \in Thread PROVE FlushedSoFar(u)'
    BY <1>1, <1>2, <1>f, <2>1, <2>2 DEF FlushedSoFar
  <2>7. LoadersApart'
    BY <1>1, <1>2, <1>f, <2>1 DEF LoadersApart
  <2>8. ASSUME NEW j \in Slot PROVE Coherent(j)'
    <3>1. Settling(j)' <=> Settling(j)
      BY <1>1, <1>2, <2>1 DEF Settling
    <3> QED
      BY <1>1, <1>2, <1>f, <2>2, <3>1 DEF Coherent
  <2> QED
    BY <2>3, <2>4, <2>5, <2>6, <2>7, <2>8 DEF SoundInv
<1> QED
  BY <1>3, <1>4 DEF Load

\* A loaded slot becomes VALID, with what a write copies into it.
LEMMA FinishSound ==
  ASSUME TypeInv, CacheInv, SoundInv, NEW t \in Thread, Finish(t)
  PROVE  SoundInv'
<1> DEFINE i == slot[t]
<1>f. /\ \A u \in Thread : /\ SlotKept(u) /\ EntryHeld(u) /\ ReserveFree(u) /\ Loaded(u)
                           /\ FlushedSoFar(u)
      /\ LoadersApart /\ \A j \in Slot : Coherent(j)
      /\ state \in [Slot -> {"INVALID", "LOADING", "VALID"}]
      /\ data \in [Slot -> Block] /\ pc \in [Thread -> PC]
      /\ entry \in [Slot -> Thread \cup {None}] /\ None \notin Thread
  BY SoundFacts
<1>1. /\ pc[t] = "finish" /\ i \in Slot /\ state[i] = "LOADING" /\ sector[i] = op[t].sector
      /\ entry[i] = None /\ sector[i] \in Sector
  BY <1>f DEF Finish, SlotKept, LoaderPC, Loaded
<1>2. UNCHANGED <<sector, dirty, disk, op, slot>>
  BY DEF Finish
<1>3. pc'[t] = "settle" /\ \A u \in Thread : u # t => pc'[u] = pc[u]
  BY <1>f DEF Finish, Goto
<1>4. /\ state'[i] = "VALID" /\ entry'[i] = t
      /\ \A j \in Slot : j # i => state'[j] = state[j] /\ entry'[j] = entry[j]
  BY <1>1, <1>f DEF Finish
<1>5. \/ op[t].kind = "write" /\ owed' = owed \ {sector[i]}
      \/ op[t].kind # "write" /\ UNCHANGED <<data, owed>> /\ data[i] = disk[sector[i]]
  BY <1>1, <1>f DEF Finish, Loaded
<1>6. \A j \in Slot : j # i => data'[j] = data[j]
  BY <1>f DEF Finish
<1>7. ASSUME NEW u \in Thread, u # t,
             pc[u] \in {"load", "finish", "use", "settle", "reserve"}
      PROVE  slot[u] \in Slot /\ slot[u] # i
  <2>1. CASE pc[u] \in {"load", "finish"}
    BY <1>1, <1>7, <1>f, <2>1 DEF SlotKept, LoaderPC, LoadersApart
  <2>2. CASE pc[u] \in {"use", "settle"}
    BY <1>1, <1>f, <2>2 DEF SlotKept, EntryHeld, LoaderPC, ServedPC
  <2>3. CASE pc[u] = "reserve"
    BY <1>1, <1>f, <2>3 DEF ReserveFree, LoaderPC, CacheInv, SlotChosen
  <2> QED
    BY <1>7, <2>1, <2>2, <2>3
<1> HIDE DEF i
<1>8. ASSUME NEW u \in Thread PROVE SlotKept(u)'
  <2>1. CASE u = t
    BY <1>1, <1>2, <1>3, <1>4, <2>1 DEF SlotKept, i
  <2>2. CASE u # t
    <3>1. SlotKept(u) /\ (pc[u] = "victim" => slot[u] \in Slot)
      BY <1>f DEF CacheInv, SlotChosen
    <3> QED
      BY <1>1, <1>2, <1>3, <1>4, <1>7, <2>2, <3>1 DEF SlotKept, LoaderPC, ServedPC
  <2> QED
    BY <2>1, <2>2
<1>9. ASSUME NEW u \in Thread PROVE EntryHeld(u)'
  <2>1. CASE u = t
    BY <1>2, <1>4, <2>1 DEF EntryHeld, i
  <2>2. CASE u # t
    BY <1>2, <1>3, <1>4, <1>7, <1>f, <2>2 DEF EntryHeld
  <2> QED
    BY <2>1, <2>2
<1>10. ASSUME NEW u \in Thread PROVE ReserveFree(u)'
  <2> SUFFICES ASSUME u # t, pc[u] = "reserve" PROVE ReserveFree(u)'
    BY <1>3 DEF ReserveFree
  <2>1. \A v \in Thread : pc'[v] \in ServedPC \cup LoaderPC => pc[v] \in ServedPC \cup LoaderPC
    BY <1>1, <1>3 DEF LoaderPC
  <2> QED
    BY <1>2, <1>4, <1>7, <1>f, <2>1 DEF ReserveFree
<1>11. ASSUME NEW u \in Thread PROVE Loaded(u)'
  <2> SUFFICES ASSUME u # t, pc[u] = "finish" PROVE Loaded(u)'
    BY <1>3 DEF Loaded
  <2> QED
    BY <1>2, <1>6, <1>7, <1>f DEF Loaded
<1>12. ASSUME NEW u \in Thread PROVE FlushedSoFar(u)'
  <2> SUFFICES ASSUME u # t, pc[u] = "flush", NEW j \in Slot, state'[j] = "VALID",
                      sector[j] \in owed', j < slot[u] \/ ~dirty[j]
               PROVE  data'[j] = disk[sector[j]]
    BY <1>2, <1>3 DEF FlushedSoFar
  <2>1. CASE j = i
    BY <1>5, <2>1
  <2>2. CASE j # i
    <3>1. FlushedSoFar(u) /\ sector[j] \in owed
      BY <1>5, <1>f
    <3> QED
      BY <1>4, <1>6, <2>2, <3>1 DEF FlushedSoFar
  <2> QED
    BY <2>1, <2>2
<1>13. LoadersApart'
  BY <1>2, <1>3, <1>f DEF LoadersApart
<1>14. ASSUME NEW j \in Slot PROVE Coherent(j)'
  <2>1. CASE j = i
    <3>1. ~Settling(j)' => op[t].kind # "write"
      BY <1>2, <1>3, <2>1 DEF Settling, i
    <3> QED
      BY <1>1, <1>2, <1>4, <1>5, <2>1, <3>1 DEF Coherent
  <2>2. CASE j # i
    <3>1. Settling(j)' <=> Settling(j)
      BY <1>1, <1>2, <1>3, <2>2 DEF Settling, i
    <3> QED
      BY <1>2, <1>4, <1>6, <1>f, <2>2, <3>1 DEF Coherent
  <2> QED
    BY <2>1, <2>2
<1> QED
  BY <1>8, <1>9, <1>10, <1>11, <1>12, <1>13, <1>14 DEF SoundInv

\* The end of a load: the slot's bits are set and its waiters woken.
LEMMA SettleSound ==
  ASSUME TypeInv, CacheInv, SoundInv, NEW t \in Thread, Settle(t)
  PROVE  SoundInv'
<1> DEFINE i == slot[t]
<1>f. /\ \A u \in Thread : /\ SlotKept(u) /\ EntryHeld(u) /\ ReserveFree(u) /\ Loaded(u)
                           /\ FlushedSoFar(u)
      /\ LoadersApart /\ \A j \in Slot : Coherent(j)
      /\ dirty \in [Slot -> BOOLEAN] /\ pc \in [Thread -> PC]
      /\ op \in [Thread -> Call] /\ slot \in [Thread -> 0..CACHE_SIZE]
      /\ entry \in [Slot -> Thread \cup {None}] /\ None \notin Thread
  BY SoundFacts
<1>1. pc[t] = "settle" /\ i \in Slot /\ state[i] = "VALID" /\ entry[i] = t
  BY <1>f DEF Settle, SlotKept, EntryHeld, LoaderPC
<1>2. UNCHANGED <<state, sector, data, disk, owed>> /\ entry' = [entry EXCEPT ![i] = None]
  BY DEF Settle
<1>3. /\ pc'[t] \in {"request", "idle"}
      /\ \A u \in Thread : u # t =>
           /\ op'[u] = op[u] /\ slot'[u] = slot[u]
           /\ pc'[u] = pc[u] \/ (pc[u] = "waiting" /\ pc'[u] = "woken")
  BY <1>f DEF Settle
<1>4. pc'[t] \notin ServedPC \cup LoaderPC /\ pc'[t] \notin {"victim", "reserve", "flush"}
  BY <1>3 DEF ServedPC, LoaderPC
<1>5. \/ op[t].kind # "write" /\ UNCHANGED dirty
      \/ op[t].kind = "write" /\ dirty' = [dirty EXCEPT ![i] = TRUE]
  BY DEF Settle
<1>6. \A j \in Slot : j # i => dirty'[j] = dirty[j]
  BY <1>5, <1>f
<1>7. \A j \in Slot : ~dirty'[j] => ~dirty[j]
  BY <1>1, <1>5, <1>f
<1> HIDE DEF i
<1>8. ASSUME NEW u \in Thread PROVE SlotKept(u)'
  BY SMT, <1>f, <1>2, <1>3, <1>4 DEF SlotKept, LoaderPC, ServedPC
<1>9. ASSUME NEW u \in Thread PROVE EntryHeld(u)'
  <2>1. CASE u # t
    <3> SUFFICES ASSUME pc[u] \in {"use", "settle"} PROVE entry'[slot[u]] = u
      BY <1>3, <2>1 DEF EntryHeld
    <3>1. slot[u] \in Slot /\ entry[slot[u]] = u
      BY <1>f DEF EntryHeld, SlotKept, ServedPC, LoaderPC
    <3> QED
      BY <1>f, <1>1, <1>2, <2>1, <3>1
  <2> QED
    BY <1>3, <2>1 DEF EntryHeld
<1>10. ASSUME NEW u \in Thread PROVE ReserveFree(u)'
  <2> SUFFICES ASSUME u # t, pc[u] = "reserve" PROVE ReserveFree(u)'
    BY <1>3 DEF ReserveFree
  <2>1. slot[u] # i /\ slot[u] \in Slot
    BY <1>1, <1>f DEF ReserveFree, LoaderPC, i, CacheInv, SlotChosen
  <2>2. \A v \in Thread : pc'[v] \in ServedPC \cup LoaderPC =>
          pc[v] \in ServedPC \cup LoaderPC /\ slot'[v] = slot[v]
    BY <1>3, <1>4 DEF ServedPC
  <2> QED
    BY SMT, <1>2, <1>3, <1>6, <1>f, <2>1, <2>2 DEF ReserveFree
<1>11. ASSUME NEW u \in Thread PROVE Loaded(u)'
  BY <1>2, <1>3, <1>f DEF Loaded
<1>12. ASSUME NEW u \in Thread PROVE FlushedSoFar(u)'
  BY SMT, <1>2, <1>3, <1>7, <1>f DEF FlushedSoFar
<1>13. LoadersApart'
  BY SMT, <1>3, <1>f DEF LoadersApart
<1>14. ASSUME NEW j \in Slot PROVE Coherent(j)'
  <2>1. CASE j = i /\ op[t].kind = "write"
    <3>1. dirty'[j] /\ state'[j] = "VALID" /\ sector'[j] \in Sector
      BY <1>1, <1>2, <1>5, <1>f, <2>1 DEF Coherent
    <3> QED
      BY <3>1 DEF Coherent
  <2>2. CASE ~(j = i /\ op[t].kind = "write")
    <3>1. Settling(j)' <=> Settling(j)
      BY SMT, <1>1, <1>3, <2>2 DEF Settling, i
    <3>2. dirty'[j] = dirty[j]
      BY <1>5, <1>6, <2>2
    <3> QED
      BY <1>2, <1>f, <3>1, <3>2 DEF Coherent
  <2> QED
    BY <2>1, <2>2
<1> QED
  BY <1>8, <1>9, <1>10, <1>11, <1>12, <1>13, <1>14 DEF SoundInv

\* One slot of cache_flush.
LEMMA FlushSlotSound ==
  ASSUME TypeInv, CacheInv, SoundInv, NEW t \in Thread, FlushSlot(t)
  PROVE  SoundInv'
<1> DEFINE i == slot[t]
<1>f. /\ \A u \in Thread : /\ SlotKept(u) /\ EntryHeld(u) /\ ReserveFree(u) /\ Loaded(u)
                           /\ FlushedSoFar(u) /\ (pc[u] \in GlobalPC => global = u)
      /\ LoadersApart /\ UniqueSector /\ \A j \in Slot : Coherent(j)
      /\ dirty \in [Slot -> BOOLEAN] /\ disk \in [Sector -> Block]
      /\ slot \in [Thread -> 0..CACHE_SIZE]
  BY SoundFacts
<1>1. pc[t] = "flush" /\ i \in Slot /\ global = t
  <2>1. pc[t] = "flush" /\ i \in 0..CACHE_SIZE /\ i < CACHE_SIZE
    BY <1>f DEF FlushSlot
  <2>2. i \in Slot
    BY SMT, <2>1, CacheAssumption DEF Slot
  <2> QED
    BY <1>f, <2>1, <2>2 DEF GlobalPC
<1>2. UNCHANGED <<state, sector, data, entry, pc, op, owed>>
  BY DEF FlushSlot
<1>3. slot'[t] = i + 1 /\ \A u \in Thread : u # t => slot'[u] = slot[u]
  BY <1>f DEF FlushSlot
<1>4. \A u \in Thread : u # t => pc[u] \notin GlobalPC
  BY <1>1, <1>f
<1>5. CASE UNCHANGED <<disk, dirty>> /\ (state[i] # "VALID" \/ ~dirty[i])
  <2> HIDE DEF i
  <2>1. ASSUME NEW u \in Thread PROVE SlotKept(u)' /\ EntryHeld(u)' /\ Loaded(u)'
    BY <1>1, <1>2, <1>3, <1>5, <1>f DEF SlotKept, EntryHeld, Loaded, ServedPC, LoaderPC
  <2>2. ASSUME NEW u \in Thread PROVE ReserveFree(u)'
    BY <1>1, <1>2, <1>4 DEF ReserveFree, GlobalPC
  <2>3. ASSUME NEW u \in Thread PROVE FlushedSoFar(u)'
    <3> SUFFICES ASSUME pc[t] = "flush", NEW j \in Slot, state[j] = "VALID", sector[j] \in owed,
                        j < i + 1 \/ ~dirty[j]
                 PROVE  data[j] = disk[sector[j]]
      BY <1>2, <1>3, <1>4, <1>5 DEF FlushedSoFar, GlobalPC
    <3>1. j < i \/ ~dirty[j]
      <4>1. j \in Int /\ i \in Int
        BY SMT, <1>1, CacheAssumption DEF Slot
      <4> QED
        BY SMT, <1>5, <4>1
    <3> QED
      BY <1>f, <3>1 DEF FlushedSoFar, i
  <2>4. LoadersApart'
    BY <1>1, <1>2, <1>3, <1>f DEF LoadersApart
  <2>5. ASSUME NEW j \in Slot PROVE Coherent(j)'
    <3>1. Settling(j)' <=> Settling(j)
      BY <1>1, <1>2, <1>3 DEF Settling
    <3> QED
      BY <1>2, <1>5, <1>f, <3>1 DEF Coherent
  <2> QED
    BY <2>1, <2>2, <2>3, <2>4, <2>5 DEF SoundInv
<1>6. CASE /\ state[i] = "VALID" /\ dirty[i]
           /\ disk' = [disk EXCEPT ![sector[i]] = data[i]]
           /\ dirty' = [dirty EXCEPT ![i] = FALSE]
  <2>1. sector[i] \in Sector /\ disk'[sector[i]] = data[i]
    <3>1. sector[i] \in Sector
      BY <1>1, <1>6, <1>f DEF Coherent
    <3> QED
      BY <1>6, <1>f, <3>1
  <2>2. \A j \in Slot : j # i /\ state[j] # "INVALID" /\ sector[j] \in Sector =>
          disk'[sector[j]] = disk[sector[j]]
    <3> SUFFICES ASSUME NEW j \in Slot, j # i, state[j] # "INVALID"
                 PROVE  sector[j] # sector[i]
      BY <1>6, <1>f
    <3> QED
      BY <1>1, <1>6, <1>f DEF UniqueSector
  <2>3. ~dirty'[i] /\ \A j \in Slot : j # i => dirty'[j] = dirty[j]
    BY <1>1, <1>6, <1>f
  <2> HIDE DEF i
  <2>4. ASSUME NEW u \in Thread PROVE SlotKept(u)' /\ EntryHeld(u)'
    BY <1>1, <1>2, <1>3, <1>f DEF SlotKept, EntryHeld, ServedPC, LoaderPC
  <2>5. ASSUME NEW u \in Thread PROVE ReserveFree(u)'
    BY <1>1, <1>2, <1>4 DEF ReserveFree, GlobalPC
  <2>6. ASSUME NEW u \in Thread PROVE Loaded(u)'
    <3> SUFFICES ASSUME u # t, pc[u] = "finish" PROVE Loaded(u)'
      BY <1>1, <1>2 DEF Loaded
    <3>1. /\ slot[u] # i /\ slot[u] \in Slot /\ state[slot[u]] # "INVALID"
          /\ sector[slot[u]] = op[u].sector /\ op[u].sector \in Sector
      BY <1>6, <1>f DEF SlotKept, LoaderPC, Loaded
    <3>2. disk'[op[u].sector] = disk[op[u].sector]
      BY <2>2, <3>1
    <3> QED
      BY <1>2, <1>3, <1>f, <3>2 DEF Loaded
  <2>7. ASSUME NEW u \in Thread PROVE FlushedSoFar(u)'
    <3> SUFFICES ASSUME pc[t] = "flush", NEW j \in Slot, state[j] = "VALID", sector[j] \in owed,
                        j < i + 1 \/ ~dirty'[j]
                 PROVE  data[j] = disk'[sector[j]]
      BY <1>2, <1>3, <1>4 DEF FlushedSoFar, GlobalPC
    <3>1. CASE j = i
      BY <2>1, <3>1
    <3>2. CASE j # i
      <4>1. j < i \/ ~dirty[j]
        <5>1. j \in Int /\ i \in Int
          BY SMT, <1>1, CacheAssumption DEF Slot
        <5> QED
          BY SMT, <2>3, <3>2, <5>1
      <4>2. sector[j] \in Sector /\ data[j] = disk[sector[j]]
        BY <1>f, <4>1 DEF FlushedSoFar, Coherent, i
      <4> QED
        BY <2>2, <3>2, <4>2
    <3> QED
      BY <3>1, <3>2
  <2>8. LoadersApart'
    BY <1>1, <1>2, <1>3, <1>f DEF LoadersApart
  <2>9. ASSUME NEW j \in Slot PROVE Coherent(j)'
    <3>1. Settling(j)' <=> Settling(j)
      BY <1>1, <1>2, <1>3 DEF Settling
    <3>2. CASE j = i
      BY <1>2, <1>6, <2>1, <2>3, <3>2 DEF Coherent
    <3>3. CASE j # i
      BY <1>2, <1>f, <2>2, <2>3, <3>1, <3>3 DEF Coherent
    <3> QED
      BY <3>2, <3>3
  <2> QED
    BY <2>4, <2>5, <2>6, <2>7, <2>8, <2>9 DEF SoundInv
<1> QED
  BY <1>5, <1>6 DEF FlushSlot

-----------------------------------------------------------------------------
(* The invariant. *)

\* A result is there only between the copy and the return of its read.
LEMMA OutStep ==
  ASSUME TypeInv, OutFits, NEW t \in Thread, Begin(t) \/ Work(t)
  PROVE  OutFits'
<1>p. pc \in [Thread -> PC] /\ CallFits(t)
  BY DEF TypeInv, TypeOK, CallsFit
<1>1. CASE Request(t)
  <2>1. t \in Client
    BY <1>1, <1>p DEF Request, CallFits
  <2>2. out' = [out EXCEPT ![t] = None] /\ \A u \in Thread : u # t => pc'[u] = pc[u]
    BY <1>1, <1>p DEF Request, Goto
  <2> QED
    BY <2>1, <2>2 DEF OutFits, Thread
<1>2. CASE Use(t) \/ Settle(t)
  <2>1. /\ \A u \in Thread : u # t => (pc'[u] # "request" => pc[u] # "request")
        /\ pc[t] # "request"
        /\ \/ out' = out
           \/ /\ t \in Client /\ pc'[t] = "request"
              /\ out' = [out EXCEPT ![t] = [c \in op[t].cells |-> data[slot[t]][c]]]
    <3>1. CASE Use(t)
      BY <3>1, <1>p DEF Use, Return, Goto, CallFits
    <3>2. CASE Settle(t)
      BY <3>2, <1>p DEF Settle, CallFits
    <3> QED
      BY <1>2, <3>1, <3>2
  <2> QED
    BY <2>1 DEF OutFits, Thread
<1>3. CASE ~(Request(t) \/ Use(t) \/ Settle(t))
  <2>1. out' = out /\ \A u \in Thread : pc'[u] # "request" => pc[u] # "request"
    <3>1. CASE Begin(t) \/ Dequeue(t) \/ Lookup(t) \/ Retest(t) \/ Hit(t) \/ Join(t) \/ Rejoin(t)
      BY <3>1, <1>p DEF Begin, Dequeue, Lookup, Retest, Hit, Join, Rejoin, Return, Panic, Goto
    <3>2. CASE \/ Evict(t) \/ Scan(t) \/ WriteBack(t) \/ Reserve(t) \/ Load(t) \/ Finish(t)
               \/ FlushBegin(t) \/ FlushSlot(t) \/ FlushEnd(t)
      BY <3>2, <1>p DEF Evict, Scan, WriteBack, Reserve, Load, Finish, FlushBegin, FlushSlot,
                       FlushEnd, Return, Goto
    <3> QED
      BY <1>3, <3>1, <3>2 DEF Work
  <2> QED
    BY <2>1 DEF OutFits, Thread
<1> QED
  BY <1>1, <1>2, <1>3

\* Everything the theorems below rest on.
Inv == CacheInv /\ TypeInv /\ SoundInv /\ OutFits

LEMMA InitSound == Init => SoundInv /\ OutFits
<1> SUFFICES ASSUME Init PROVE SoundInv /\ OutFits
  OBVIOUS
<1>1. \A t \in Thread : pc[t] = "idle"
  BY DEF Init
<1>2. \A i \in Slot : state[i] = "INVALID" /\ ~dirty[i]
  BY DEF Init
<1>3. \A t \in Thread : SlotKept(t) /\ EntryHeld(t) /\ ReserveFree(t) /\ Loaded(t) /\ FlushedSoFar(t)
  BY <1>1 DEF SlotKept, EntryHeld, ReserveFree, Loaded, FlushedSoFar, ServedPC, LoaderPC
<1>4. LoadersApart
  BY <1>1 DEF LoadersApart
<1>5. \A i \in Slot : Coherent(i)
  BY <1>2 DEF Coherent
<1>6. OutFits
  BY DEF Init, OutFits
<1> QED
  BY <1>3, <1>4, <1>5, <1>6 DEF SoundInv

LEMMA SoundStep == Inv /\ [Next /\ Prompt]_vars => SoundInv' /\ OutFits'
<1> SUFFICES ASSUME Inv, [Next /\ Prompt]_vars PROVE SoundInv' /\ OutFits'
  OBVIOUS
<1>0. CacheInv /\ TypeInv /\ SoundInv /\ OutFits
  BY DEF Inv
<1>1. CASE UNCHANGED vars
  <2>1. UNCHANGED <<state, sector, dirty, data, disk, entry, pc, op, slot, out, owed>>
    BY <1>1 DEF vars, slotVars
  <2>2. SoundInv'
    BY SMT, <1>0, <2>1
       DEF SoundInv, SlotKept, EntryHeld, ReserveFree, Loaded, FlushedSoFar, LoadersApart, Coherent,
           Settling
  <2>3. OutFits'
    BY <1>0, <2>1 DEF OutFits
  <2> QED
    BY <2>2, <2>3
<1>2. ASSUME NEW t \in Thread, Begin(t) \/ Work(t), Prompt PROVE SoundInv'
  <2>1. CASE \/ Begin(t) \/ Dequeue(t) \/ Request(t) \/ Lookup(t) \/ Retest(t) \/ Hit(t)
             \/ Join(t) \/ Rejoin(t) \/ Evict(t) \/ Scan(t) \/ FlushBegin(t) \/ FlushEnd(t)
    BY <1>0, <2>1, MoverSteps
  <2>2. CASE Use(t)
    BY <1>0, <2>2, UseSound
  <2>3. CASE WriteBack(t)
    BY <1>0, <1>2, <2>3, WriteBackSound
  <2>4. CASE Reserve(t)
    BY <1>0, <2>4, ReserveSound
  <2>5. CASE Load(t)
    BY <1>0, <2>5, LoadSound
  <2>6. CASE Finish(t)
    BY <1>0, <2>6, FinishSound
  <2>7. CASE Settle(t)
    BY <1>0, <2>7, SettleSound
  <2>8. CASE FlushSlot(t)
    BY <1>0, <2>8, FlushSlotSound
  <2> QED
    BY <1>2, <2>1, <2>2, <2>3, <2>4, <2>5, <2>6, <2>7, <2>8 DEF Work
<1>3. ASSUME NEW t \in Thread, Begin(t) \/ Work(t) PROVE OutFits'
  BY <1>0, <1>3, OutStep
<1> QED
  BY <1>1, <1>2, <1>3 DEF Next, Halted

\* Every step keeps all of it.
LEMMA SoundInvariant == PromptSpec => []Inv
<1>1. PromptSpec => Spec
  <2>1. [Next /\ Prompt]_vars => [Next]_vars
    OBVIOUS
  <2> QED
    BY <2>1, PTL DEF PromptSpec, Spec
<1>2. PromptSpec => [](CacheInv /\ TypeInv)
  BY <1>1, TypeInvariant, PTL
<1>3. Init => SoundInv /\ OutFits
  BY InitSound
<1>4. (CacheInv /\ TypeInv) /\ (SoundInv /\ OutFits) /\ [Next /\ Prompt]_vars
      => (SoundInv /\ OutFits)'
  BY SoundStep DEF Inv
<1>5. (CacheInv /\ TypeInv) /\ (SoundInv /\ OutFits) <=> Inv
  BY DEF Inv
<1> QED
  BY <1>2, <1>3, <1>4, <1>5, PTL DEF PromptSpec

-----------------------------------------------------------------------------
(* cache_flush. *)

\* The contents of a cached sector are its slot's, of any other the disk's;
\* the same after a step.
LEMMA ContentsAre ==
  ASSUME UniqueSector, NEW s
  PROVE  /\ \A i \in Slot : state[i] = "VALID" /\ sector[i] = s => Contents(s) = data[i]
         /\ (\A i \in Slot : ~(state[i] = "VALID" /\ sector[i] = s)) => Contents(s) = disk[s]
<1> DEFINE V == {i \in Slot : state[i] = "VALID" /\ sector[i] = s}
<1>1. ASSUME NEW i \in V PROVE (CHOOSE j \in V : TRUE) = i
  <2>1. \A j \in V : j = i
    BY DEF UniqueSector
  <2> QED
    BY <2>1
<1>2. Contents(s) = IF V = {} THEN disk[s] ELSE data[CHOOSE j \in V : TRUE]
  BY DEF Contents
<1> QED
  BY <1>1, <1>2

LEMMA ContentsBecome ==
  ASSUME UniqueSector', NEW s
  PROVE  /\ \A i \in Slot : state'[i] = "VALID" /\ sector'[i] = s => Contents(s)' = data'[i]
         /\ (\A i \in Slot : ~(state'[i] = "VALID" /\ sector'[i] = s)) => Contents(s)' = disk'[s]
<1> DEFINE W == {i \in Slot : state'[i] = "VALID" /\ sector'[i] = s}
<1>1. ASSUME NEW i \in W PROVE (CHOOSE j \in W : TRUE) = i
  <2>1. \A j \in W : j = i
    BY DEF UniqueSector
  <2> QED
    BY <2>1
<1>2. Contents(s)' = IF W = {} THEN disk'[s] ELSE data'[CHOOSE j \in W : TRUE]
  BY DEF Contents
<1> QED
  BY <1>1, <1>2

\* When cache_flush is through, every sector whose writes had returned when it
\* began, and that no write reached since, is on disk as the cache has it.
THEOREM FlushKept == PromptSpec => []FlushDurable
<1>1. Inv => FlushDurable
  <2> SUFFICES ASSUME Inv, NEW t \in Thread, pc[t] = "flush", slot[t] = CACHE_SIZE, NEW s \in owed
               PROVE  disk[s] = Contents(s)
    BY DEF FlushDurable
  <2>0. FlushedSoFar(t) /\ UniqueSector
    BY SoundFacts DEF Inv
  <2>1. CASE \E i \in Slot : state[i] = "VALID" /\ sector[i] = s
    <3>1. PICK i \in Slot : state[i] = "VALID" /\ sector[i] = s
      BY <2>1
    <3>2. i < CACHE_SIZE
      BY SMT, CacheAssumption DEF Slot
    <3>3. data[i] = disk[s]
      BY <2>0, <3>1, <3>2 DEF FlushedSoFar
    <3> QED
      BY <2>0, <3>1, <3>3, ContentsAre
  <2>2. CASE \A i \in Slot : ~(state[i] = "VALID" /\ sector[i] = s)
    BY <2>0, <2>2, ContentsAre
  <2> QED
    BY <2>1, <2>2
<1> QED
  BY <1>1, SoundInvariant, PTL
=============================================================================
