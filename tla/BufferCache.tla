---------------------------- MODULE BufferCache ----------------------------
(***************************************************************************)
(* The buffer cache of filesys/cache.c with the prefetch queue of          *)
(* filesys/cache_prefetch.c.                                               *)
(*                                                                         *)
(* cache_global_lock protects the search and the choice of a slot, the     *)
(* entry lock of a slot its data.  A slot being loaded is reserved by its  *)
(* state LOADING and no lock; a thread that finds it so waits on the       *)
(* slot's condition.  The state and the accessed and dirty bits are read   *)
(* under the global lock alone and written under the entry lock alone, so  *)
(* the actions break wherever such an access can fall between two others.  *)
(***************************************************************************)
EXTENDS Integers, FiniteSets, Sequences

CONSTANTS Client,      \* threads calling cache_read, cache_write, cache_flush
          Prefetcher,  \* the prefetch thread, as a set
          Flusher,     \* the periodic flusher, as a set
          None,
          CACHE_SIZE,  \* slots
          SectorCount, \* block_size(fs_device)
          Cell,        \* pieces of a sector
          Chunk,       \* the sets of pieces that calls read or write
          Value,       \* what a piece holds
          Contents0,   \* the device at boot
          QueueSize    \* PREFETCH_QUEUE_SIZE

Slot == 0..(CACHE_SIZE - 1)
Sector == 0..(SectorCount - 1)
Thread == Client \cup Prefetcher \cup Flusher
Block == [Cell -> Value]

ASSUME CacheAssumption ==
  /\ CACHE_SIZE \in Nat \ {0} /\ SectorCount \in Nat \ {0}
  /\ QueueSize \in Nat \ {0}
  /\ IsFiniteSet(Thread) /\ None \notin Thread
  /\ Client \cap Prefetcher = {} /\ Client \cap Flusher = {} /\ Prefetcher \cap Flusher = {}
  /\ Chunk \subseteq SUBSET Cell \ {{}}
  /\ Contents0 \in [Sector -> Block] /\ None \notin Value

VARIABLES state, sector, dirty, accessed, data, \* struct cache_entry, by slot
          entry,   \* holder of each entry_lock
          global,  \* holder of cache_global_lock
          hand,    \* clock_hand
          scans,   \* evict_clock's local, 0 outside its loop
          disk,    \* the device
          queue,   \* pending prefetch requests
          pc, op, slot, \* each thread: where it is, its call, its slot or victim
          out,     \* what a client's read is about to return
          owed,    \* history: sectors the running cache_flush must leave on disk
          kernel   \* "up", or why it panicked

slotVars == <<state, sector, dirty, accessed, data>>
vars == <<slotVars, entry, global, hand, scans, disk, queue, pc, op, slot, out, owed, kernel>>

\* A prefetch may ask for the sector past the last one.
Call == [kind : {"read", "write", "flush", "prefetch", "none"},
         sector : 0..SectorCount, cells : SUBSET Cell, value : Value \cup {None}]
NoCall == [kind |-> "none", sector |-> 0, cells |-> {}, value |-> None]

ASSUME NoneAssumption == None \notin Call

PC == {"idle", "lock", "retest", "hit", "join", "waiting", "woken", "use", "evict",
       "scan", "victim", "reserve", "load", "finish", "settle", "flush", "request"}

TypeOK ==
  /\ state \in [Slot -> {"INVALID", "LOADING", "VALID"}]
  /\ sector \in [Slot -> 0..SectorCount]
  /\ dirty \in [Slot -> BOOLEAN] /\ accessed \in [Slot -> BOOLEAN]
  /\ data \in [Slot -> Block] /\ disk \in [Sector -> Block]
  /\ entry \in [Slot -> Thread \cup {None}] /\ global \in Thread \cup {None}
  /\ hand \in Slot /\ scans \in 0..(2 * CACHE_SIZE + 1)
  /\ queue \in Seq(1..SectorCount) /\ Len(queue) < QueueSize
  /\ pc \in [Thread -> PC] /\ op \in [Thread -> Call]
  /\ slot \in [Thread -> 0..CACHE_SIZE]
  /\ owed \subseteq Sector
  /\ kernel \in {"up", "assert", "no victim", "past end"}

\* cache_init
Init ==
  /\ state = [i \in Slot |-> "INVALID"] /\ sector = [i \in Slot |-> 0]
  /\ dirty = [i \in Slot |-> FALSE] /\ accessed = [i \in Slot |-> FALSE]
  /\ data = [i \in Slot |-> Contents0[0]]
  /\ entry = [i \in Slot |-> None] /\ global = None
  /\ hand = 0 /\ scans = 0 /\ disk = Contents0 /\ queue = << >>
  /\ pc = [t \in Thread |-> "idle"] /\ op = [t \in Thread |-> NoCall]
  /\ slot = [t \in Thread |-> 0] /\ out = [t \in Client |-> None]
  /\ owed = {} /\ kernel = "up"

-----------------------------------------------------------------------------
Goto(t, where) == pc' = [pc EXCEPT ![t] = where]

\* The call ends; a read goes on to cache_request_prefetch.
Return(t) ==
  IF op[t].kind = "read"
    THEN Goto(t, "request") /\ UNCHANGED <<op, slot>>
    ELSE /\ Goto(t, "idle")
         /\ op' = [op EXCEPT ![t] = NoCall] /\ slot' = [slot EXCEPT ![t] = 0]

Panic(why) ==
  /\ kernel' = why
  /\ UNCHANGED <<slotVars, entry, global, hand, scans, disk, queue, pc, op, slot, out, owed>>

\* A client calls the cache.
Begin(t) ==
  /\ pc[t] = "idle"
  /\ \/ /\ t \in Client
        /\ \E s \in Sector, c \in Chunk, v \in Value \cup {None} :
             op' = [op EXCEPT ![t] = [kind |-> IF v = None THEN "read" ELSE "write",
                                      sector |-> s, cells |-> c, value |-> v]]
     \/ /\ t \in Client \cup Flusher
        /\ op' = [op EXCEPT ![t] = [NoCall EXCEPT !.kind = "flush"]]
  /\ Goto(t, "lock")
  /\ UNCHANGED <<slotVars, entry, global, hand, scans, disk, queue, slot, out, owed, kernel>>

\* The prefetch thread takes a request off the queue.
Dequeue(t) ==
  /\ t \in Prefetcher /\ pc[t] = "idle" /\ queue # << >>
  /\ op' = [op EXCEPT ![t] = [NoCall EXCEPT !.kind = "prefetch", !.sector = Head(queue)]]
  /\ queue' = Tail(queue)
  /\ Goto(t, "lock")
  /\ UNCHANGED <<slotVars, entry, global, hand, scans, disk, slot, out, owed, kernel>>

\* cache_request_prefetch(sector + 1), dropped when the queue is full, and
\* the return of the read.
Request(t) ==
  /\ pc[t] = "request"
  /\ queue' = IF Len(queue) < QueueSize - 1 THEN Append(queue, op[t].sector + 1) ELSE queue
  /\ Goto(t, "idle")
  /\ op' = [op EXCEPT ![t] = NoCall] /\ slot' = [slot EXCEPT ![t] = 0]
  /\ out' = [out EXCEPT ![t] = None]
  /\ UNCHANGED <<slotVars, entry, global, hand, scans, disk, owed, kernel>>

-----------------------------------------------------------------------------
(* The search, under the global lock. *)

\* A mutant: slots being loaded are not found.
CachedValid(s) == {i \in Slot : state[i] = "VALID" /\ sector[i] = s}

\* What cache_lookup finds.
Cached(s) == {i \in Slot : state[i] # "INVALID" /\ sector[i] = s}

\* lock_acquire(&cache_global_lock), cache_lookup and the first test of the
\* slot's state; cache_do_prefetch returns at once if there is a slot.
Lookup(t) ==
  /\ pc[t] = "lock" /\ op[t].kind # "flush" /\ global = None
  /\ \/ \E i \in Cached(op[t].sector) :
          /\ \A j \in Cached(op[t].sector) : i <= j
          /\ IF op[t].kind = "prefetch" THEN Return(t) /\ UNCHANGED global
             ELSE /\ Goto(t, IF state[i] = "VALID" THEN "hit" ELSE "retest")
                  /\ slot' = [slot EXCEPT ![t] = i] /\ global' = t /\ UNCHANGED op
     \/ /\ Cached(op[t].sector) = {}
        /\ Goto(t, "evict") /\ global' = t /\ UNCHANGED <<op, slot>>
  /\ UNCHANGED <<slotVars, entry, hand, scans, disk, queue, out, owed, kernel>>

\* The second test, after which ASSERT(ce == NULL).
Retest(t) ==
  /\ pc[t] = "retest"
  /\ IF state[slot[t]] = "LOADING"
       THEN /\ Goto(t, "join")
            /\ UNCHANGED <<slotVars, entry, global, hand, scans, disk, queue, op, slot, out,
                           owed, kernel>>
       ELSE Panic("assert")

\* Case 1: take the entry lock, then let go of the global lock.
Hit(t) ==
  /\ pc[t] = "hit" /\ entry[slot[t]] = None
  /\ entry' = [entry EXCEPT ![slot[t]] = t] /\ global' = None
  /\ Goto(t, "use")
  /\ UNCHANGED <<slotVars, hand, scans, disk, queue, op, slot, out, owed, kernel>>

\* Case 2: the same, then wait_for_loading up to cond_wait, which gives the
\* entry lock back.
Join(t) ==
  /\ pc[t] = "join" /\ entry[slot[t]] = None
  /\ IF state[slot[t]] = "LOADING"
       THEN /\ global' = None /\ Goto(t, "waiting")
            /\ UNCHANGED <<slotVars, entry, hand, scans, disk, queue, op, slot, out, owed, kernel>>
       ELSE Panic("assert")

\* cond_wait returns with the entry lock; wait again if the slot is loading.
Rejoin(t) ==
  /\ pc[t] = "woken" /\ entry[slot[t]] = None
  /\ IF state[slot[t]] = "LOADING"
       THEN Goto(t, "waiting") /\ UNCHANGED entry
       ELSE Goto(t, "use") /\ entry' = [entry EXCEPT ![slot[t]] = t]
  /\ UNCHANGED <<slotVars, global, hand, scans, disk, queue, op, slot, out, owed, kernel>>

Written(b, o) == [c \in Cell |-> IF c \in o.cells THEN o.value ELSE b[c]]

\* Copy out of or into the slot and release the entry lock.
Use(t) ==
  LET i == slot[t] IN
  /\ pc[t] = "use"
  /\ \/ /\ op[t].kind = "read"
        /\ out' = [out EXCEPT ![t] = [c \in op[t].cells |-> data[i][c]]]
        /\ UNCHANGED <<data, dirty, owed>>
     \/ /\ op[t].kind = "write"
        /\ data' = [data EXCEPT ![i] = Written(@, op[t])]
        /\ dirty' = [dirty EXCEPT ![i] = TRUE]
        /\ owed' = owed \ {op[t].sector}
        /\ UNCHANGED out
  /\ accessed' = [accessed EXCEPT ![i] = TRUE]
  /\ entry' = [entry EXCEPT ![i] = None]
  /\ Return(t)
  /\ UNCHANGED <<state, sector, global, hand, scans, disk, queue, kernel>>

-----------------------------------------------------------------------------
(* A miss. *)

\* cache_evict: the first empty slot, otherwise evict_clock.
Evict(t) ==
  /\ pc[t] = "evict"
  /\ \/ \E i \in Slot : /\ state[i] = "INVALID" /\ \A j \in 0..(i - 1) : state[j] # "INVALID"
                        /\ slot' = [slot EXCEPT ![t] = i] /\ Goto(t, "reserve")
     \/ /\ \A i \in Slot : state[i] # "INVALID"
        /\ Goto(t, "scan") /\ UNCHANGED slot
  /\ UNCHANGED <<slotVars, entry, global, hand, scans, disk, queue, op, out, owed, kernel>>

\* A mutant: one turn of the clock instead of two.
OneTurn == CACHE_SIZE

MaxScans == 2 * CACHE_SIZE

\* One turn of evict_clock's loop.
Scan(t) ==
  /\ pc[t] = "scan"
  /\ IF state[hand] = "VALID" /\ ~accessed[hand]
       THEN /\ slot' = [slot EXCEPT ![t] = hand] /\ Goto(t, "victim") /\ scans' = 0
            /\ UNCHANGED <<accessed, kernel>>
       ELSE /\ accessed' = IF state[hand] = "VALID" THEN [accessed EXCEPT ![hand] = FALSE]
                           ELSE accessed
            /\ scans' = scans + 1
            /\ kernel' = IF scans + 1 > MaxScans THEN "no victim" ELSE kernel
            /\ UNCHANGED <<slot, pc>>
  /\ hand' = (hand + 1) % CACHE_SIZE
  /\ UNCHANGED <<state, sector, dirty, data, entry, global, disk, queue, op, out, owed>>

\* A mutant: a dirty victim is dropped.
DropVictim(t) ==
  /\ pc[t] = "victim" /\ entry[slot[t]] = None
  /\ dirty' = [dirty EXCEPT ![slot[t]] = FALSE]
  /\ Goto(t, "reserve")
  /\ UNCHANGED <<state, sector, accessed, data, entry, global, hand, scans, disk, queue, op, slot,
                 out, owed, kernel>>

\* Take the victim's entry lock, write it back if dirty, release the lock.
WriteBack(t) ==
  LET i == slot[t] IN
  /\ pc[t] = "victim" /\ entry[i] = None
  /\ IF dirty[i] /\ state[i] = "VALID"
       THEN disk' = [disk EXCEPT ![sector[i]] = data[i]] /\ dirty' = [dirty EXCEPT ![i] = FALSE]
       ELSE UNCHANGED <<disk, dirty>>
  /\ Goto(t, "reserve")
  /\ UNCHANGED <<state, sector, accessed, data, entry, global, hand, scans, queue, op, slot, out,
                 owed, kernel>>

\* Reserve the slot and release the global lock.  cache_write leaves the
\* dirty bit.
Reserve(t) ==
  LET i == slot[t] IN
  /\ pc[t] = "reserve"
  /\ state' = [state EXCEPT ![i] = "LOADING"]
  /\ sector' = [sector EXCEPT ![i] = op[t].sector]
  /\ dirty' = IF op[t].kind = "write" THEN dirty ELSE [dirty EXCEPT ![i] = FALSE]
  /\ global' = None /\ Goto(t, "load")
  /\ UNCHANGED <<accessed, data, entry, hand, scans, disk, queue, op, slot, out, owed, kernel>>

\* A mutant: the loader spins until nobody waits for its slot.
LoadSpins(t) ==
  /\ pc[t] = "load" /\ op[t].sector \in Sector
  /\ IF \E u \in Thread : slot[u] = slot[t] /\ pc[u] = "waiting" THEN UNCHANGED <<data, pc>>
     ELSE data' = [data EXCEPT ![slot[t]] = disk[op[t].sector]] /\ Goto(t, "finish")
  /\ UNCHANGED <<state, sector, dirty, accessed, entry, global, hand, scans, disk, queue, op, slot,
                 out, owed, kernel>>

\* block_read without a lock; a write of the whole sector skips it.
Load(t) ==
  /\ pc[t] = "load"
  /\ IF op[t].kind = "write" /\ op[t].cells = Cell
       THEN Goto(t, "finish") /\ UNCHANGED <<data, kernel>>
     ELSE IF op[t].sector \in Sector
       THEN /\ data' = [data EXCEPT ![slot[t]] = disk[op[t].sector]]
            /\ Goto(t, "finish") /\ UNCHANGED kernel
     ELSE kernel' = "past end" /\ UNCHANGED <<data, pc>>
  /\ UNCHANGED <<state, sector, dirty, accessed, entry, global, hand, scans, disk, queue, op, slot,
                 out, owed>>

\* Take the entry lock, copy in what is written, mark the slot VALID.
Finish(t) ==
  LET i == slot[t] IN
  /\ pc[t] = "finish" /\ entry[i] = None
  /\ entry' = [entry EXCEPT ![i] = t]
  /\ state' = [state EXCEPT ![i] = "VALID"]
  /\ IF op[t].kind = "write"
       THEN data' = [data EXCEPT ![i] = Written(@, op[t])] /\ owed' = owed \ {op[t].sector}
       ELSE UNCHANGED <<data, owed>>
  /\ Goto(t, "settle")
  /\ UNCHANGED <<sector, dirty, accessed, global, hand, scans, disk, queue, op, slot, out, kernel>>

\* The bits, cond_broadcast, copy out, lock_release.  After it the call
\* returns.
Settle(t) ==
  LET i == slot[t]
      after == IF op[t].kind = "read" THEN "request" ELSE "idle" IN
  /\ pc[t] = "settle"
  /\ accessed' = [accessed EXCEPT ![i] = op[t].kind # "prefetch"]
  /\ dirty' = IF op[t].kind = "write" THEN [dirty EXCEPT ![i] = TRUE] ELSE dirty
  /\ out' = IF op[t].kind = "read"
              THEN [out EXCEPT ![t] = [c \in op[t].cells |-> data[i][c]]] ELSE out
  /\ pc' = [u \in Thread |-> IF u = t THEN after
                            ELSE IF pc[u] = "waiting" /\ slot[u] = i THEN "woken" ELSE pc[u]]
  /\ entry' = [entry EXCEPT ![i] = None]
  /\ IF after = "idle" THEN op' = [op EXCEPT ![t] = NoCall] /\ slot' = [slot EXCEPT ![t] = 0]
                       ELSE UNCHANGED <<op, slot>>
  /\ UNCHANGED <<state, sector, data, global, hand, scans, disk, queue, owed, kernel>>

-----------------------------------------------------------------------------
(* cache_flush. *)

FlushBegin(t) ==
  /\ pc[t] = "lock" /\ op[t].kind = "flush" /\ global = None
  /\ global' = t
  /\ owed' = {s \in Sector : ~\E u \in Thread : /\ pc[u] = "settle" /\ op[u].kind = "write"
                                               /\ op[u].sector = s}
  /\ Goto(t, "flush")
  /\ UNCHANGED <<slotVars, entry, hand, scans, disk, queue, op, slot, out, kernel>>

\* A mutant: slots in use are left for later.
FlushUnused(t) ==
  LET i == slot[t] IN
  /\ pc[t] = "flush" /\ i < CACHE_SIZE
  /\ IF state[i] = "VALID" /\ dirty[i] /\ entry[i] = None
       THEN /\ disk' = [disk EXCEPT ![sector[i]] = data[i]]
            /\ dirty' = [dirty EXCEPT ![i] = FALSE]
       ELSE UNCHANGED <<disk, dirty>>
  /\ slot' = [slot EXCEPT ![t] = i + 1]
  /\ UNCHANGED <<state, sector, accessed, data, entry, global, hand, scans, queue, pc, op, out, owed,
                 kernel>>

\* One turn of the loop, under the entry lock if the slot is dirty.
FlushSlot(t) ==
  LET i == slot[t] IN
  /\ pc[t] = "flush" /\ i < CACHE_SIZE
  /\ IF state[i] = "VALID" /\ dirty[i]
       THEN /\ entry[i] = None
            /\ disk' = [disk EXCEPT ![sector[i]] = data[i]]
            /\ dirty' = [dirty EXCEPT ![i] = FALSE]
       ELSE UNCHANGED <<disk, dirty>>
  /\ slot' = [slot EXCEPT ![t] = i + 1]
  /\ UNCHANGED <<state, sector, accessed, data, entry, global, hand, scans, queue, pc, op, out, owed,
                 kernel>>

FlushEnd(t) ==
  /\ pc[t] = "flush" /\ slot[t] = CACHE_SIZE
  /\ global' = None /\ owed' = {}
  /\ Return(t)
  /\ UNCHANGED <<slotVars, entry, hand, scans, disk, queue, out, kernel>>

-----------------------------------------------------------------------------
Work(t) ==
  \/ Dequeue(t) \/ Request(t) \/ Lookup(t) \/ Retest(t) \/ Hit(t) \/ Join(t) \/ Rejoin(t)
  \/ Use(t) \/ Evict(t) \/ Scan(t) \/ WriteBack(t) \/ Reserve(t) \/ Load(t) \/ Finish(t)
  \/ Settle(t) \/ FlushBegin(t) \/ FlushSlot(t) \/ FlushEnd(t)

\* A panic stops the machine.
Halted == kernel # "up" /\ UNCHANGED vars

Next ==
  \/ kernel = "up" /\ \E t \in Thread : Begin(t) \/ Work(t)
  \/ Halted

Spec == Init /\ [][Next]_vars

-----------------------------------------------------------------------------
(* Properties. *)

\* No sector is cached twice: two slots in use never hold the same sector, so
\* a write is never made to one copy and a read served from another.  A miss
\* is decided by cache_lookup and acted on by the reservation after an
\* eviction that may block, with only the global lock held throughout.
UniqueSector ==
  \A i, j \in Slot : state[i] # "INVALID" /\ state[j] # "INVALID" /\ sector[i] = sector[j] => i = j

\* evict_clock finds a victim as long as no more threads load sectors than
\* there are slots: each other one keeps at most one slot from being chosen,
\* by loading it or by setting its accessed bit behind the hand; the flusher
\* keeps none.
VictimFound ==
  Cardinality(Client \cup Prefetcher) <= CACHE_SIZE => kernel # "no victim"

\* What the file system sees: the cached copy if there is one.
Contents(s) ==
  LET V == {i \in Slot : state[i] = "VALID" /\ sector[i] = s}
  IN  IF V = {} THEN disk[s] ELSE data[CHOOSE i \in V : TRUE]

\* cache_flush does what it says: when its loop is through, every sector whose
\* writes had all returned when it began, and that no write has reached
\* since, is on disk as the cache has it.
FlushDurable ==
  \A t \in Thread : pc[t] = "flush" /\ slot[t] = CACHE_SIZE =>
    \A s \in owed : disk[s] = Contents(s)

\* A call of cache_read or cache_write that has not taken effect.
Pending(t) ==
  /\ op[t].kind \in {"read", "write"}
  /\ pc[t] # "request" /\ ~(pc[t] = "settle" /\ op[t].kind = "write")

Atomic == INSTANCE AtomicDisk WITH
  mem <- [s \in Sector |-> Contents(s)],
  req <- [t \in Client |-> IF Pending(t) THEN op[t] ELSE None]

\* The cache is an atomic array of sectors: each read returns, and each write
\* changes, the one current contents of its sector, through hits, loads that
\* others wait for, evictions, write-backs, flushes and prefetches.
ReadsAndWritesAtomic == Atomic!AtomicSpec

\* Threads woken by a slot's cond_broadcast run before the slot is evicted.
\* Nothing in the code ensures it, although cache_evict takes the victim's
\* entry lock to see that "any current user has finished" (filesys/cache.c:243).
Prompt ==
  \A t \in Thread : pc[t] = "victim" /\ pc'[t] = "reserve" =>
    \A u \in Thread : slot[u] = slot[t] => pc[u] \notin {"waiting", "woken"}

PromptSpec == Init /\ [][Next /\ Prompt]_vars

\* The scheduler runs every thread that has work to do.
FairSpec == Spec /\ \A t \in Thread : WF_vars(kernel = "up" /\ Work(t))

\* Every load ends: a reserved slot becomes VALID, so that nobody waits for
\* it forever.
LoadsEnd == \A i \in Slot : state[i] = "LOADING" ~> (state[i] = "VALID" \/ kernel # "up")

\* The slots, locks and waiters are well formed, the prefetch queue never
\* exceeds its size, and evict_clock finds a victim within two turns whatever
\* other threads load and touch meanwhile (cache_request_prefetch, evict_clock).
SlotsSound == TypeOK /\ VictimFound
=============================================================================
