----------------------- MODULE BufferCacheRefinement -----------------------
(***************************************************************************)
(* The buffer cache implements AtomicDisk.                                 *)
(*                                                                         *)
(* A call takes effect when its bytes are copied: in Use on a hit, in      *)
(* Finish for a write that missed and in Settle for a read that missed.    *)
(* That this is the current contents of the sector is what                 *)
(* BufferCacheSound shows.                                                 *)
(***************************************************************************)
EXTENDS BufferCacheSound

\* First-order steps: leaves that compute or rewrite functions cite SMT.
USE Zenon

-----------------------------------------------------------------------------
(* The refinement. *)

\* Contents survive a step that leaves cached data and the disk under other
\* sectors alone.
LEMMA ContentsKept ==
  ASSUME UniqueSector, UniqueSector', NEW s,
         \A i \in Slot : /\ state'[i] = "VALID" <=> state[i] = "VALID"
                         /\ state[i] = "VALID" => sector'[i] = sector[i] /\ data'[i] = data[i],
         \/ \E i \in Slot : state[i] = "VALID" /\ sector[i] = s
         \/ disk'[s] = disk[s]
  PROVE  Contents(s)' = Contents(s)
<1>1. CASE \E i \in Slot : state[i] = "VALID" /\ sector[i] = s
  BY SMT, <1>1, ContentsAre, ContentsBecome
<1>2. CASE \A i \in Slot : ~(state[i] = "VALID" /\ sector[i] = s)
  <2>1. Contents(s) = disk[s]
    BY <1>2, ContentsAre
  <2>2. Contents(s)' = disk'[s]
    BY <1>2, ContentsBecome
  <2> QED
    BY <1>2, <2>1, <2>2
<1> QED
  BY <1>1, <1>2

\* The four abstract steps and the stutter, by what the cache does.
OthersKept(t) ==
  \A u \in Client : u # t => (Pending(u)' <=> Pending(u)) /\ (Pending(u) => op'[u] = op[u])

LEMMA Stutter ==
  ASSUME \A s \in Sector : Contents(s)' = Contents(s), out' = out,
         \A u \in Client : (Pending(u)' <=> Pending(u)) /\ (Pending(u) => op'[u] = op[u])
  PROVE  UNCHANGED Atomic!avars
BY DEF Atomic!avars

LEMMA CallImplements ==
  ASSUME NEW t \in Client, OthersKept(t), ~Pending(t), out[t] = None,
         Pending(t)', op'[t] \in Atomic!Request,
         \A s \in Sector : Contents(s)' = Contents(s), out' = out
  PROVE  Atomic!AtomicCall(t)
BY DEF OthersKept, Atomic!AtomicCall

LEMMA ReadImplements ==
  ASSUME NEW t \in Client, OthersKept(t), Pending(t), ~Pending(t)',
         op[t] # None, op[t].kind = "read", op[t].sector \in Sector,
         \A s \in Sector : Contents(s)' = Contents(s),
         out' = [out EXCEPT ![t] = [c \in op[t].cells |-> Contents(op[t].sector)[c]]]
  PROVE  Atomic!AtomicRead(t)
BY DEF OthersKept, Atomic!AtomicRead

LEMMA WriteImplements ==
  ASSUME NEW t \in Client, OthersKept(t), Pending(t), ~Pending(t)',
         op[t] # None, op[t].kind = "write", NEW s0 \in Sector, op[t].sector = s0,
         \A s \in Sector : s # s0 => Contents(s)' = Contents(s),
         Contents(s0)' = Written(Contents(s0), op[t]), out' = out
  PROVE  Atomic!AtomicWrite(t)
<1> DEFINE mem == [s \in Sector |-> Contents(s)]
           req == [u \in Client |-> IF Pending(u) THEN op[u] ELSE None]
           b == [c \in Cell |-> IF c \in op[t].cells THEN op[t].value ELSE mem[s0][c]]
<1>1. req[t] = op[t] /\ req' = [req EXCEPT ![t] = None]
  BY DEF OthersKept
<1>2. Contents(s0)' = b
  BY DEF Written
<1>3. mem' = [mem EXCEPT ![s0] = b]
  <2>1. \A s \in Sector : Contents(s)' = IF s = s0 THEN b ELSE Contents(s)
    BY <1>2
  <2> HIDE DEF b
  <2> QED
    BY <2>1
<1>4. mem' = [mem EXCEPT ![s0] = [c \in Cell |-> IF c \in op[t].cells THEN op[t].value ELSE @[c]]]
  BY <1>3
<1> QED
  BY <1>1, <1>4 DEF Atomic!AtomicWrite

LEMMA ReturnImplements ==
  ASSUME NEW t \in Client, OutFits, out' = [out EXCEPT ![t] = None],
         \A u \in Client : (Pending(u)' <=> Pending(u)) /\ (Pending(u) => op'[u] = op[u]),
         \A s \in Sector : Contents(s)' = Contents(s)
  PROVE  [Atomic!AtomicReturn(t)]_(Atomic!avars)
<1>1. CASE out[t] = None
  <2>1. out' = out
    BY <1>1 DEF OutFits
  <2> QED
    BY <2>1, Stutter
<1>2. CASE out[t] # None
  BY <1>2 DEF Atomic!AtomicReturn
<1> QED
  BY <1>1, <1>2

\* Searching, evicting, loading and flushing change no contents and no call.
LEMMA InnerSteps ==
  ASSUME TypeInv, CacheInv, CacheInv', SoundInv, NEW t \in Thread,
         \/ Dequeue(t) \/ Lookup(t) \/ Retest(t) \/ Hit(t) \/ Join(t) \/ Rejoin(t) \/ Evict(t)
         \/ Scan(t) \/ WriteBack(t) \/ Reserve(t) \/ Load(t) \/ FlushBegin(t) \/ FlushSlot(t)
         \/ FlushEnd(t)
  PROVE  UNCHANGED Atomic!avars
<1>f. /\ SlotKept(t) /\ ReserveFree(t) /\ CallFits(t)
      /\ UniqueSector /\ UniqueSector' /\ \A j \in Slot : Coherent(j)
      /\ pc \in [Thread -> PC] /\ op \in [Thread -> Call]
      /\ state \in [Slot -> {"INVALID", "LOADING", "VALID"}]
      /\ sector \in [Slot -> 0..SectorCount] /\ data \in [Slot -> Block]
      /\ disk \in [Sector -> Block]
  BY SoundFacts DEF CacheInv
<1> USE DEF Goto, slotVars
<1>1. \A u \in Client : (Pending(u)' <=> Pending(u)) /\ (Pending(u) => op'[u] = op[u])
  <2> SUFFICES ASSUME NEW u \in Thread
               PROVE  (Pending(u)' <=> Pending(u)) /\ (Pending(u) => op'[u] = op[u])
    BY DEF Thread
  <2>1. CASE \/ UNCHANGED op /\ (UNCHANGED pc \/ \E where \in PC \ {"request", "settle"} : Goto(t, where))
             \/ /\ \E where \in PC : Goto(t, where)
                /\ op[t].kind \in {"none", "prefetch", "flush"}
                /\ \E o \in Call : o.kind \in {"none", "prefetch"} /\ op' = [op EXCEPT ![t] = o]
    <3>1. CASE UNCHANGED op /\ UNCHANGED pc
      BY <3>1 DEF Pending
    <3>2. CASE UNCHANGED op /\ \E where \in PC \ {"request", "settle"} : Goto(t, where)
      <4>1. pc[t] \notin {"request", "settle"}
        BY DEF Dequeue, Lookup, Retest, Hit, Join, Rejoin, Evict, Scan, WriteBack, Reserve, Load,
               FlushBegin, FlushSlot, FlushEnd
      <4> QED
        BY <1>f, <3>2, <4>1 DEF Pending
    <3>3. CASE /\ \E where \in PC : Goto(t, where)
               /\ op[t].kind \in {"none", "prefetch", "flush"}
               /\ \E o \in Call : o.kind \in {"none", "prefetch"} /\ op' = [op EXCEPT ![t] = o]
      BY <1>f, <3>3 DEF Pending
    <3> QED
      BY <2>1, <3>1, <3>2, <3>3
  <2>2. CASE \/ Retest(t) \/ Hit(t) \/ Join(t) \/ Rejoin(t) \/ Evict(t) \/ Scan(t) \/ WriteBack(t)
             \/ Reserve(t) \/ Load(t) \/ FlushBegin(t) \/ FlushSlot(t)
    <3>1. UNCHANGED op /\ (UNCHANGED pc \/ \E where \in PC \ {"request", "settle"} : Goto(t, where))
      BY <2>2 DEF Retest, Hit, Join, Rejoin, Evict, Scan, WriteBack, Reserve, Load, FlushBegin,
                  FlushSlot, Panic, PC
    <3> QED
      BY <2>1, <3>1
  <2>3. CASE Dequeue(t)
    <3>1. op[t].kind = "none" /\ Goto(t, "lock") /\ "lock" \in PC
      BY <1>f, <2>3 DEF Dequeue, CallFits, PC
    <3>2. \E o \in Call : o.kind = "prefetch" /\ op' = [op EXCEPT ![t] = o]
      <4>1. Head(queue) \in 1..SectorCount
        <5> DEFINE S == 1..SectorCount
        <5>1. queue \in Seq(S) /\ queue # << >>
          BY <2>3 DEF Dequeue, TypeInv, TypeOK
        <5> HIDE DEF S
        <5>2. Head(queue) \in S
          BY SMT, <5>1
        <5> QED
          BY <5>2 DEF S
      <4>2. [NoCall EXCEPT !.kind = "prefetch", !.sector = Head(queue)] \in Call
        BY <4>1, CallTypes
      <4> QED
        BY <2>3, <4>2 DEF Dequeue, NoCall
    <3> QED
      BY <2>1, <3>1, <3>2
  <2>4. CASE Lookup(t) \/ FlushEnd(t)
    <3>1. CASE op[t].kind \in {"prefetch", "flush"} /\ Return(t)
      <4>1. NoCall \in Call /\ NoCall.kind = "none" /\ "idle" \in PC
        BY CallTypes DEF NoCall, PC
      <4>2. Goto(t, "idle") /\ op' = [op EXCEPT ![t] = NoCall]
        BY <3>1 DEF Return
      <4> QED
        BY <2>1, <3>1, <4>1, <4>2
    <3>2. CASE UNCHANGED op /\ \E where \in PC \ {"request", "settle"} : Goto(t, where)
      BY <2>1, <3>2
    <3>3. FlushEnd(t) => op[t].kind = "flush"
      BY <1>f DEF FlushEnd, CallFits
    <3> QED
      BY <2>4, <3>1, <3>2, <3>3 DEF Lookup, FlushEnd, PC
  <2> QED
    BY <2>2, <2>3, <2>4
<1>2. out' = out
  BY DEF Dequeue, Lookup, Retest, Hit, Join, Rejoin, Evict, Scan, WriteBack, Reserve, Load,
         FlushBegin, FlushSlot, FlushEnd, Panic
<1>3. ASSUME NEW s \in Sector PROVE Contents(s)' = Contents(s)
  <2>1. CASE UNCHANGED <<state, sector, data, disk>>
    BY SMT, <2>1 DEF Contents
  <2>2. CASE /\ UNCHANGED <<state, sector, data>>
             /\ \E i \in Slot : state[i] = "VALID" /\ disk' = [disk EXCEPT ![sector[i]] = data[i]]
    <3>1. \/ \E i \in Slot : state[i] = "VALID" /\ sector[i] = s
          \/ disk'[s] = disk[s]
      BY <1>f, <2>2
    <3> QED
      BY <1>f, <2>2, <3>1, ContentsKept
  <2>3. CASE WriteBack(t)
    <3>1. slot[t] \in Slot
      BY <2>3 DEF WriteBack, CacheInv, SlotChosen
    <3> QED
      BY <2>1, <2>2, <2>3, <3>1 DEF WriteBack
  <2>4. CASE FlushSlot(t)
    <3>1. slot[t] \in Slot
      <4>1. slot[t] \in 0..CACHE_SIZE /\ slot[t] < CACHE_SIZE
        BY <2>4 DEF FlushSlot, TypeInv, TypeOK
      <4> QED
        BY SMT, <4>1, CacheAssumption DEF Slot
    <3> QED
      BY <2>1, <2>2, <2>4, <3>1 DEF FlushSlot
  <2>5. CASE Load(t)
    <3>1. /\ slot[t] \in Slot /\ state[slot[t]] = "LOADING"
          /\ UNCHANGED <<state, sector, disk>>
          /\ \A j \in Slot : j # slot[t] => data'[j] = data[j]
      BY <1>f, <2>5 DEF Load, SlotKept, LoaderPC
    <3> QED
      BY <1>f, <3>1, ContentsKept
  <2>6. CASE Reserve(t)
    <3>1. /\ pc[t] = "reserve" /\ slot[t] \in Slot /\ state[slot[t]] # "LOADING" /\ ~dirty[slot[t]]
          /\ ~Settling(slot[t])
      <4>1. pc[t] = "reserve" /\ slot[t] \in Slot
        BY <2>6 DEF Reserve, CacheInv, SlotChosen
      <4> QED
        BY <1>f, <4>1 DEF ReserveFree, Settling, LoaderPC
    <3>2. /\ state'[slot[t]] = "LOADING" /\ UNCHANGED <<data, disk>>
          /\ \A j \in Slot : j # slot[t] => state'[j] = state[j] /\ sector'[j] = sector[j]
      BY <1>f, <2>6, <3>1 DEF Reserve
    <3>3. CASE state[slot[t]] = "VALID" /\ sector[slot[t]] = s
      <4>1. Contents(s) = data[slot[t]]
        BY <1>f, <3>1, <3>3, ContentsAre
      <4>2. data[slot[t]] = disk[s]
        BY <1>f, <3>1, <3>3 DEF Coherent
      <4>3. \A j \in Slot : ~(state'[j] = "VALID" /\ sector'[j] = s)
        BY <1>f, <3>1, <3>2, <3>3 DEF UniqueSector
      <4>4. Contents(s)' = disk'[s]
        BY <1>f, <4>3, ContentsBecome
      <4> QED
        BY <3>2, <4>1, <4>2, <4>4
    <3>4. CASE ~(state[slot[t]] = "VALID" /\ sector[slot[t]] = s)
      <4>1. CASE \E j \in Slot : state[j] = "VALID" /\ sector[j] = s
        <5>1. PICK j \in Slot : state[j] = "VALID" /\ sector[j] = s
          BY <4>1
        <5>2. state'[j] = "VALID" /\ sector'[j] = s
          BY <3>2, <3>4, <5>1
        <5>3. Contents(s) = data[j]
          BY <1>f, <5>1, ContentsAre
        <5>4. Contents(s)' = data'[j]
          BY <1>f, <5>2, ContentsBecome
        <5> QED
          BY <3>2, <5>3, <5>4
      <4>2. CASE \A j \in Slot : ~(state[j] = "VALID" /\ sector[j] = s)
        <5>1. \A j \in Slot : ~(state'[j] = "VALID" /\ sector'[j] = s)
          BY <3>2, <4>2
        <5>2. Contents(s) = disk[s]
          BY <1>f, <4>2, ContentsAre
        <5>3. Contents(s)' = disk'[s]
          BY <1>f, <5>1, ContentsBecome
        <5> QED
          BY <3>2, <5>2, <5>3
      <4> QED
        BY <4>1, <4>2
    <3> QED
      BY <3>3, <3>4
  <2>7. CASE ~(WriteBack(t) \/ FlushSlot(t) \/ Load(t) \/ Reserve(t))
    BY <2>1, <2>7 DEF Dequeue, Lookup, Retest, Hit, Join, Rejoin, Evict, Scan, FlushBegin, FlushEnd,
                      Panic
  <2> QED
    BY <2>3, <2>4, <2>5, <2>6, <2>7
<1> QED
  BY <1>1, <1>2, <1>3, Stutter

\* A client's call, as AtomicDisk sees it.
LEMMA CallFacts ==
  ASSUME TypeInv, NEW t \in Thread, op[t].kind \in {"read", "write"}
  PROVE  /\ t \in Client /\ op[t] \in Atomic!Request /\ op[t] # None /\ op[t].sector \in Sector
         /\ op[t] \in Call
<1>1. t \in Client /\ op[t] \in Atomic!Request /\ op[t] \in Call
  BY DEF TypeInv, TypeOK, CallsFit, CallFits
<1>2. op[t] # None
  BY <1>1, NoneAssumption
<1>3. op[t].sector \in Sector
  BY <1>1 DEF Atomic!Request
<1> QED
  BY <1>1, <1>2, <1>3

\* cache_read and cache_write begin: the abstract call.
LEMMA BeginStep ==
  ASSUME TypeInv, TypeInv', OutFits, NEW t \in Thread, Begin(t)
  PROVE  [Atomic!AtomicNext]_(Atomic!avars)
<1>f. pc \in [Thread -> PC] /\ op \in [Thread -> Call] /\ CallFits(t)
  BY DEF TypeInv, TypeOK, CallsFit
<1>1. pc[t] = "idle" /\ op[t].kind = "none" /\ ~Pending(t)
  BY <1>f DEF Begin, CallFits, Pending
<1>2. \A s \in Sector : Contents(s)' = Contents(s)
  BY SMT DEF Begin, slotVars, Contents
<1>3. out' = out /\ pc'[t] = "lock"
  BY <1>f DEF Begin, Goto
<1>4. \A u \in Thread : u # t => pc'[u] = pc[u] /\ op'[u] = op[u]
  BY <1>f DEF Begin, Goto
<1>5. OthersKept(t)
  BY SMT, <1>4 DEF OthersKept, Pending, Thread
<1>6. CASE op'[t].kind \in {"read", "write"}
  <2>1. t \in Client /\ op'[t] \in Atomic!Request
    BY <1>6 DEF TypeInv, CallsFit, CallFits
  <2>2. Pending(t)'
    BY <1>3, <1>6 DEF Pending
  <2>3. out[t] = None
    BY <1>1, <2>1 DEF OutFits
  <2>4. Atomic!AtomicCall(t)
    BY <1>1, <1>2, <1>3, <1>5, <2>1, <2>2, <2>3, CallImplements
  <2> QED
    BY <2>1, <2>4 DEF Atomic!AtomicNext
<1>7. CASE op'[t].kind \notin {"read", "write"}
  <2>1. ~Pending(t)'
    BY <1>7 DEF Pending
  <2>2. \A u \in Client : (Pending(u)' <=> Pending(u)) /\ (Pending(u) => op'[u] = op[u])
    BY <1>1, <1>5, <2>1 DEF OthersKept
  <2> QED
    BY <1>2, <1>3, <2>2, Stutter
<1> QED
  BY <1>6, <1>7

\* cache_read returns: the abstract return.
LEMMA RequestStep ==
  ASSUME TypeInv, OutFits, NEW t \in Thread, Request(t)
  PROVE  [Atomic!AtomicNext]_(Atomic!avars)
<1>f. pc \in [Thread -> PC] /\ op \in [Thread -> Call] /\ CallFits(t)
  BY DEF TypeInv, TypeOK, CallsFit
<1>1. pc[t] = "request" /\ t \in Client
  BY <1>f DEF Request, CallFits
<1>2. \A s \in Sector : Contents(s)' = Contents(s)
  BY SMT DEF Request, slotVars, Contents
<1>3. op'[t].kind = "none" /\ \A u \in Thread : u # t => pc'[u] = pc[u] /\ op'[u] = op[u]
  BY <1>f DEF Request, Goto, NoCall
<1>4. \A u \in Client : (Pending(u)' <=> Pending(u)) /\ (Pending(u) => op'[u] = op[u])
  BY <1>1, <1>3 DEF Pending, Thread
<1>5. out' = [out EXCEPT ![t] = None]
  BY DEF Request
<1>6. [Atomic!AtomicReturn(t)]_(Atomic!avars)
  BY <1>1, <1>2, <1>4, <1>5, ReturnImplements
<1> QED
  BY <1>1, <1>6 DEF Atomic!AtomicNext

\* A copy from or to a cached slot: the abstract read or write.
LEMMA UseStep ==
  ASSUME TypeInv, CacheInv, CacheInv', SoundInv, NEW t \in Thread, Use(t)
  PROVE  [Atomic!AtomicNext]_(Atomic!avars)
<1>f. /\ SlotKept(t) /\ UniqueSector /\ UniqueSector' /\ data \in [Slot -> Block]
  BY SoundFacts DEF CacheInv
<1>1. op[t].kind \in {"read", "write"} /\ pc[t] = "use" /\ pc[t] # "idle" /\ op[t].kind # "none"
  BY DEF Use
<1>2. t \in Client /\ op[t] # None /\ op[t].sector \in Sector
  BY <1>1, CallFacts
<1>3. /\ \A u \in Thread : u # t => pc'[u] = pc[u] /\ op'[u] = op[u]
      /\ \/ op[t].kind = "read" /\ pc'[t] = "request"
         \/ op[t].kind # "read" /\ op'[t] = NoCall
  BY <1>1, ReturnFits DEF TypeInv, Use
<1>4. Pending(t) /\ ~Pending(t)' /\ OthersKept(t)
  BY SMT, <1>1, <1>3 DEF Pending, OthersKept, Thread, NoCall
<1>5. /\ slot[t] \in Slot /\ state[slot[t]] = "VALID" /\ sector[slot[t]] = op[t].sector
      /\ UNCHANGED <<state, sector, disk>>
  BY <1>1, <1>f DEF SlotKept, ServedPC, Use
<1>6. Contents(op[t].sector) = data[slot[t]]
  BY <1>5, <1>f, ContentsAre
<1>7. CASE op[t].kind = "read"
  <2>1. UNCHANGED data /\ out' = [out EXCEPT ![t] = [c \in op[t].cells |-> data[slot[t]][c]]]
    BY <1>7 DEF Use
  <2>2. \A s \in Sector : Contents(s)' = Contents(s)
    BY SMT, <1>5, <2>1 DEF Contents
  <2>3. Atomic!AtomicRead(t)
    BY <1>2, <1>4, <1>6, <1>7, <2>1, <2>2, ReadImplements
  <2> QED
    BY <1>2, <2>3 DEF Atomic!AtomicNext
<1>8. CASE op[t].kind = "write"
  <2>1. PICK s0 \in Sector : op[t].sector = s0
    BY <1>2
  <2>2. /\ data'[slot[t]] = Written(data[slot[t]], op[t]) /\ out' = out
        /\ \A j \in Slot : j # slot[t] => data'[j] = data[j]
    BY <1>5, <1>8, <1>f DEF Use
  <2>3. ASSUME NEW s \in Sector, s # s0 PROVE Contents(s)' = Contents(s)
    <3>1. CASE \E j \in Slot : state[j] = "VALID" /\ sector[j] = s
      <4>1. PICK j \in Slot : state[j] = "VALID" /\ sector[j] = s
        BY <3>1
      <4>2. j # slot[t]
        BY <1>5, <2>1, <2>3, <4>1
      <4>3. Contents(s) = data[j]
        BY <1>f, <4>1, ContentsAre
      <4>4. Contents(s)' = data'[j]
        BY <1>5, <1>f, <4>1, ContentsBecome
      <4> QED
        BY <2>2, <4>2, <4>3, <4>4
    <3>2. CASE \A j \in Slot : ~(state[j] = "VALID" /\ sector[j] = s)
      <4>1. Contents(s) = disk[s]
        BY <1>f, <3>2, ContentsAre
      <4>2. Contents(s)' = disk'[s]
        BY <1>5, <1>f, <3>2, ContentsBecome
      <4> QED
        BY <1>5, <4>1, <4>2
    <3> QED
      BY <3>1, <3>2
  <2>4. Contents(s0)' = data'[slot[t]]
    BY <1>5, <1>f, <2>1, ContentsBecome
  <2>5. Contents(s0)' = Written(Contents(s0), op[t])
    BY <1>6, <2>1, <2>2, <2>4
  <2>6. Atomic!AtomicWrite(t)
    BY <1>2, <1>4, <1>8, <2>1, <2>2, <2>3, <2>5, WriteImplements
  <2> QED
    BY <1>2, <2>6 DEF Atomic!AtomicNext
<1> QED
  BY <1>1, <1>7, <1>8

\* A load ends: the abstract write of a cache_write that missed.  For any
\* other call the slot has the contents of the disk.
LEMMA FinishCopies ==
  ASSUME TypeInv, CacheInv, CacheInv', SoundInv, NEW t \in Thread, Finish(t)
  PROVE  [Atomic!AtomicNext]_(Atomic!avars)
<1>f. /\ SlotKept(t) /\ Loaded(t) /\ UniqueSector /\ UniqueSector'
      /\ data \in [Slot -> Block] /\ disk \in [Sector -> Block] /\ pc \in [Thread -> PC]
      /\ state \in [Slot -> {"INVALID", "LOADING", "VALID"}]
  BY SoundFacts DEF CacheInv
<1>1. /\ pc[t] = "finish" /\ slot[t] \in Slot /\ state[slot[t]] = "LOADING"
      /\ sector[slot[t]] = op[t].sector /\ op[t].sector \in Sector
  BY <1>f DEF Finish, SlotKept, LoaderPC, Loaded
<1>2. PICK s0 \in Sector : op[t].sector = s0
  BY <1>1
<1>3. /\ state'[slot[t]] = "VALID" /\ \A j \in Slot : j # slot[t] => state'[j] = state[j]
      /\ UNCHANGED <<sector, disk, op, out>>
  BY <1>1, <1>f DEF Finish
<1>4. pc'[t] = "settle" /\ \A u \in Thread : u # t => pc'[u] = pc[u]
  BY <1>f DEF Finish, Goto
<1>5. \A j \in Slot : j # slot[t] => data'[j] = data[j]
  BY <1>f DEF Finish
<1>6. Contents(s0) = disk[s0] /\ Contents(s0)' = data'[slot[t]]
  <2>1. \A j \in Slot : ~(state[j] = "VALID" /\ sector[j] = s0)
    BY SMT, <1>1, <1>2, <1>f DEF UniqueSector
  <2>2. Contents(s0) = disk[s0]
    BY <1>f, <2>1, ContentsAre
  <2>3. sector'[slot[t]] = s0
    BY <1>1, <1>2, <1>3
  <2> QED
    BY <1>1, <1>3, <1>f, <2>2, <2>3, ContentsBecome
<1>7. ASSUME NEW s \in Sector, s # s0 PROVE Contents(s)' = Contents(s)
  <2>1. \A j \in Slot : state'[j] = "VALID" /\ sector'[j] = s <=> state[j] = "VALID" /\ sector[j] = s
    BY <1>1, <1>2, <1>3, <1>7
  <2>2. CASE \E j \in Slot : state[j] = "VALID" /\ sector[j] = s
    <3>1. PICK j \in Slot : state[j] = "VALID" /\ sector[j] = s
      BY <2>2
    <3>2. Contents(s) = data[j]
      BY <1>f, <3>1, ContentsAre
    <3>3. Contents(s)' = data'[j]
      BY <1>f, <2>1, <3>1, ContentsBecome
    <3>4. j # slot[t]
      BY <1>1, <3>1
    <3> QED
      BY <1>5, <3>2, <3>3, <3>4
  <2>3. CASE \A j \in Slot : ~(state[j] = "VALID" /\ sector[j] = s)
    <3>1. Contents(s) = disk[s]
      BY <1>f, <2>3, ContentsAre
    <3>2. Contents(s)' = disk'[s]
      BY <1>f, <2>1, <2>3, ContentsBecome
    <3> QED
      BY <1>3, <3>1, <3>2
  <2> QED
    BY <2>2, <2>3
<1>8. CASE op[t].kind = "write"
  <2>1. t \in Client /\ op[t] # None /\ op[t] \in Call
    BY <1>8, CallFacts
  <2>2. Pending(t) /\ ~Pending(t)' /\ OthersKept(t)
    BY <1>1, <1>3, <1>4, <1>8 DEF Pending, OthersKept, Thread
  <2>3. data'[slot[t]] = Written(data[slot[t]], op[t])
    BY <1>1, <1>8, <1>f DEF Finish
  <2>4. Written(data[slot[t]], op[t]) = Written(disk[s0], op[t])
    <3>1. CASE op[t].cells = Cell
      BY <3>1 DEF Written
    <3>2. CASE data[slot[t]] = disk[s0]
      BY <3>2
    <3> QED
      BY <1>1, <1>2, <1>f, <3>1, <3>2 DEF Loaded
  <2>5. Contents(s0)' = Written(Contents(s0), op[t])
    BY <1>6, <2>3, <2>4
  <2>6. Atomic!AtomicWrite(t)
    BY <1>2, <1>3, <1>7, <1>8, <2>1, <2>2, <2>5, WriteImplements
  <2> QED
    BY <2>1, <2>6 DEF Atomic!AtomicNext
<1>9. CASE op[t].kind # "write"
  <2>1. data'[slot[t]] = disk[s0]
    BY <1>1, <1>2, <1>9, <1>f DEF Finish, Loaded
  <2>2. \A s \in Sector : Contents(s)' = Contents(s)
    BY <1>6, <1>7, <2>1
  <2>3. \A u \in Client : (Pending(u)' <=> Pending(u)) /\ (Pending(u) => op'[u] = op[u])
    BY <1>1, <1>3, <1>4, <1>9 DEF Pending, Thread
  <2> QED
    BY <1>3, <2>2, <2>3, Stutter
<1> QED
  BY <1>8, <1>9

\* The copy out of a slot just loaded: the abstract read.
LEMMA SettleCopies ==
  ASSUME TypeInv, CacheInv, SoundInv, NEW t \in Thread, Settle(t)
  PROVE  [Atomic!AtomicNext]_(Atomic!avars)
<1>f. /\ SlotKept(t) /\ UniqueSector /\ pc \in [Thread -> PC] /\ op \in [Thread -> Call]
  BY SoundFacts
<1>1. /\ pc[t] = "settle" /\ slot[t] \in Slot /\ state[slot[t]] = "VALID"
      /\ sector[slot[t]] = op[t].sector
  BY <1>f DEF Settle, SlotKept, LoaderPC
<1>2. \A s \in Sector : Contents(s)' = Contents(s)
  BY SMT DEF Settle, Contents
<1>3. /\ op[t].kind = "read" => pc'[t] = "request"
      /\ op[t].kind # "read" => op'[t] = NoCall
      /\ \A u \in Thread : u # t =>
           op'[u] = op[u] /\ (pc'[u] = pc[u] \/ (pc[u] = "waiting" /\ pc'[u] = "woken"))
  BY <1>f DEF Settle
<1>4. OthersKept(t)
  BY SMT, <1>3 DEF OthersKept, Pending, Thread
<1>5. ~Pending(t)'
  BY SMT, <1>3 DEF Pending, NoCall
<1>6. CASE op[t].kind = "read"
  <2>1. t \in Client /\ op[t] # None /\ op[t].sector \in Sector
    BY <1>6, CallFacts
  <2>2. Pending(t)
    BY <1>1, <1>6 DEF Pending
  <2>3. Contents(op[t].sector) = data[slot[t]]
    BY <1>1, <1>f, ContentsAre
  <2>4. out' = [out EXCEPT ![t] = [c \in op[t].cells |-> data[slot[t]][c]]]
    BY <1>6 DEF Settle
  <2>5. Atomic!AtomicRead(t)
    BY <1>2, <1>4, <1>5, <1>6, <2>1, <2>2, <2>3, <2>4, ReadImplements
  <2> QED
    BY <2>1, <2>5 DEF Atomic!AtomicNext
<1>7. CASE op[t].kind # "read"
  <2>1. ~Pending(t) /\ out' = out
    BY <1>1, <1>7 DEF Pending, Settle
  <2>2. \A u \in Client : (Pending(u)' <=> Pending(u)) /\ (Pending(u) => op'[u] = op[u])
    BY <1>4, <1>5, <2>1 DEF OthersKept
  <2> QED
    BY <1>2, <2>1, <2>2, Stutter
<1> QED
  BY <1>6, <1>7

\* Every step of the cache is a step of AtomicDisk or changes nothing there.
LEMMA NextImplements ==
  Inv /\ Inv' /\ [Next /\ Prompt]_vars => [Atomic!AtomicNext]_(Atomic!avars)
<1> SUFFICES ASSUME Inv, Inv', [Next /\ Prompt]_vars
             PROVE  [Atomic!AtomicNext]_(Atomic!avars)
  OBVIOUS
<1>0. CacheInv /\ TypeInv /\ SoundInv /\ OutFits /\ CacheInv' /\ TypeInv'
  BY DEF Inv
<1>1. CASE UNCHANGED vars
  <2>1. UNCHANGED <<state, sector, data, disk, pc, op, out>>
    BY <1>1 DEF vars, slotVars
  <2>2. \A s \in Sector : Contents(s)' = Contents(s)
    BY SMT, <2>1 DEF Contents
  <2>3. \A u \in Client : (Pending(u)' <=> Pending(u)) /\ (Pending(u) => op'[u] = op[u])
    BY <2>1 DEF Pending
  <2> QED
    BY <2>1, <2>2, <2>3, Stutter
<1>2. ASSUME NEW t \in Thread, Begin(t) \/ Work(t) PROVE [Atomic!AtomicNext]_(Atomic!avars)
  <2>1. CASE Begin(t)
    BY <1>0, <2>1, BeginStep
  <2>2. CASE Request(t)
    BY <1>0, <2>2, RequestStep
  <2>3. CASE Use(t)
    BY <1>0, <2>3, UseStep
  <2>4. CASE Finish(t)
    BY <1>0, <2>4, FinishCopies
  <2>5. CASE Settle(t)
    BY <1>0, <2>5, SettleCopies
  <2>6. CASE ~(Begin(t) \/ Request(t) \/ Use(t) \/ Finish(t) \/ Settle(t))
    BY <1>0, <1>2, <2>6, InnerSteps DEF Work
  <2> QED
    BY <2>1, <2>2, <2>3, <2>4, <2>5, <2>6
<1> QED
  BY <1>1, <1>2 DEF Next, Halted

-----------------------------------------------------------------------------
(* The theorems. *)

\* The cache is an atomic array of sectors: cache_read and cache_write take
\* effect at one instant each, whatever loads, evictions, write-backs, flushes
\* and prefetches go on meanwhile.
THEOREM Refinement == PromptSpec => ReadsAndWritesAtomic
<1>1. Init => Atomic!AtomicInit
  <2> SUFFICES ASSUME Init PROVE Atomic!AtomicInit
    OBVIOUS
  <2>1. \A s \in Sector : Contents(s) = Contents0[s]
    BY DEF Init, Contents
  <2>2. \A t \in Client : ~Pending(t)
    BY DEF Init, Pending, NoCall, Thread
  <2>3. Contents0 \in [Sector -> Block]
    BY CacheAssumption
  <2>4. [s \in Sector |-> Contents(s)] = Contents0
    BY <2>1, <2>3
  <2> QED
    BY <2>2, <2>4 DEF Init, Atomic!AtomicInit
<1> QED
  BY <1>1, NextImplements, SoundInvariant, PTL
     DEF PromptSpec, ReadsAndWritesAtomic, Atomic!AtomicSpec
=============================================================================
