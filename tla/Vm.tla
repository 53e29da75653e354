-------------------------------- MODULE Vm --------------------------------
(***************************************************************************)
(* Virtual memory: the frame table (src/vm/frame.c), the supplemental page *)
(* tables (page.c), the fault handler (vm.c, and the page-fault exception),*)
(* swap (swap.c), mapped files (mmap.c) and page directories (pagedir.c).  *)
(*                                                                         *)
(* The kernel is one record k and a C function one operator on it.  An     *)
(* action is what a thread does between two lock operations; a lock taken  *)
(* and given back in one step is a guard, one that is held across steps is *)
(* a field.  A process is named by its main thread; thread Extra belongs   *)
(* to process 1.  A page's contents are one value: 0 (zeros), Text (the    *)
(* executable), Disk (the mapped file) or the process that wrote it.       *)
(***************************************************************************)
EXTENDS Integers, Sequences, FiniteSets, SequencesExt, FiniteSetsExt

CONSTANTS MaxProc,     \* bound: processes, forked ones included
          MaxFrame,    \* bound: pages of the user pool
          MaxSlot,     \* bound: slots of the swap device
          MaxPage,     \* bound: user pages 0 .. MaxPage of an address space
          StackStart,  \* first page of the region the stack may grow into
          MmapBase,    \* where an anonymous mapping without an address is put
          FilePages,   \* pages of the file that is mapped
          Systems      \* the systems to look at: see module MCVm

ASSUME VmAssumption == /\ {MaxProc, MaxFrame, MaxSlot, MaxPage} \subseteq Nat \ {0}
                       /\ StackStart \in 0 .. MaxPage /\ MmapBase \in 0 .. MaxPage /\ FilePages \in Nat

Proc == 1 .. MaxProc
Extra == MaxProc + 1
Thread == 1 .. Extra
Kpage == 1 .. MaxFrame
Slot == 1 .. MaxSlot
Upage == 0 .. MaxPage
Text == 90
Disk == 91
Data == {0, Text, Disk} \cup Proc
Free == 99
ProcOf(t) == IF t = Extra THEN 1 ELSE t

VARIABLE k

NoPte == [k |-> 0, p |-> FALSE, w |-> FALSE, a |-> FALSE, d |-> FALSE]
NoEntry == [st |-> "none", w |-> FALSE, k |-> 0, s |-> 0, f |-> 0, o |-> 0, m |-> FALSE, pd |-> FALSE]
NoProc == [live |-> FALSE, spt |-> [u \in Upage |-> NoEntry], pte |-> [u \in Upage |-> NoPte],
           maps |-> <<>>, lock |-> 0, mlock |-> 0]
Idle == [pc |-> "none", u |-> 0, w |-> FALSE, np |-> FALSE, old |-> 0, new |-> 0, ret |-> "none",
         vic |-> 0, first |-> 0, turns |-> 0, par |-> 0, slot |-> 0, todo |-> <<>>, left |-> 0]

Goto(x, t, l) == [x EXCEPT !.th[t].pc = l]
Odd(x, why) == [x EXCEPT !.odd = @ \cup {why}]
OddIf(x, c, why) == IF c THEN Odd(x, why) ELSE x
\* Back to user code: the locals of the handler are gone.
Done(x, t) == [x EXCEPT !.th[t] = [Idle EXCEPT !.pc = "user", !.left = x.th[t].left]]
Retry(x, t) == [x EXCEPT !.th[t] = [Idle EXCEPT !.pc = "retry", !.left = x.th[t].left,
                                                !.u = x.th[t].u, !.w = x.th[t].w]]
Entry(x, t) == x.proc[ProcOf(t)].spt[x.th[t].u]
\* malloc or palloc_get_page for a page table: it fails while faults are left.
Outcomes == IF k.faults > 0 THEN BOOLEAN ELSE {TRUE}
Spend(x, ok) == IF ok THEN x ELSE [x EXCEPT !.faults = @ - 1]

(* ------------------------------------------------------- page directories *)
pagedir_set_page(x, p, u, kp, w) ==
    IF x.proc[p].pte[u].p THEN Odd(x, "panic")
    ELSE [x EXCEPT !.proc[p].pte[u] = [k |-> kp, p |-> TRUE, w |-> w, a |-> FALSE, d |-> FALSE]]
pagedir_clear_page(x, p, u) == [x EXCEPT !.proc[p].pte[u].p = FALSE]
pagedir_is_dirty(x, p, u) == x.proc[p].pte[u].d
pagedir_set_dirty(x, p, u) == [x EXCEPT !.proc[p].pte[u].d = TRUE]
pagedir_is_accessed(x, p, u) == x.proc[p].pte[u].a
pagedir_set_accessed(x, p, u) == [x EXCEPT !.proc[p].pte[u].a = FALSE]
pagedir_set_writable(x, p, u) ==
    IF x.proc[p].pte[u].p THEN [x EXCEPT !.proc[p].pte[u].w = FALSE] ELSE x

(* ------------------------------------------------------------------- swap *)
SWAP_SLOT_INVALID == 0
FreeSlots(x) == {s \in Slot : x.slot[s] = Free /\ s <= x.sys.slots}
swap_slot(x) == IF FreeSlots(x) = {} THEN SWAP_SLOT_INVALID ELSE Min(FreeSlots(x))
swap_out(x, kp) ==
    IF FreeSlots(x) = {} THEN Odd(x, "full") ELSE [x EXCEPT !.slot[swap_slot(x)] = x.mem[kp]]
swap_free(x, s) == IF x.slot[s] = Free THEN Odd(x, "panic") ELSE [x EXCEPT !.slot[s] = Free]
swap_in(x, s, kp) ==
    IF x.slot[s] = Free THEN Odd(x, "panic") ELSE swap_free([x EXCEPT !.mem[kp] = x.slot[s]], s)

(* ------------------------------------------------------------ frame table *)
frame_find_entry(x, kp) == SelectInSeq(x.frames, LAMBDA fe : fe.k = kp)
clock_advance(x, i) == IF i = Len(x.frames) THEN 1 ELSE i + 1
HandAfter(x, i) == IF Len(x.frames) = 1 THEN 0 ELSE x.frames[clock_advance(x, i)].k

frame_insert(x, t, kp, u) ==
    [x EXCEPT !.frames = Append(@, [k |-> kp, u |-> u, o |-> t, ref |-> 1, pin |-> TRUE]),
              !.pins = @ \cup {<<t, kp>>}]
frame_share(x, kp) ==
    LET i == frame_find_entry(x, kp) IN IF i = 0 THEN x ELSE [x EXCEPT !.frames[i].ref = @ + 1]

\* The last reference: off the list, the hand moved on, the page to palloc.
frame_free(x, kp) ==
    LET i == frame_find_entry(x, kp) IN
    CASE i = 0 -> x
      [] i # 0 /\ x.frames[i].ref > 1 -> [x EXCEPT !.frames[i].ref = @ - 1]
      [] OTHER -> [x EXCEPT !.hand = IF @ = kp THEN HandAfter(x, i) ELSE @,
                            !.frames = RemoveAt(@, i), !.free = @ \cup {kp},
                            !.pins = {b \in @ : b[2] # kp}]

\* pins is a history: which threads count on the one flag of a frame.
frame_pin(x, t, kp) ==
    LET i == frame_find_entry(x, kp) IN
    IF i = 0 THEN x ELSE [x EXCEPT !.frames[i].pin = TRUE, !.pins = @ \cup {<<t, kp>>}]
frame_unpin(x, t, kp) ==
    LET i == frame_find_entry(x, kp) IN
    IF i = 0 THEN x
    ELSE OddIf([x EXCEPT !.frames[i].pin = FALSE, !.pins = @ \ {<<t, kp>>}],
               \E s \in Thread \ {t} : <<s, kp>> \in x.pins, "clash")

(* --------------------------------------------------------------- eviction *)
\* A frame that the owner's table does not show in that frame, or that a
\* thread is at work on without a pin, is no longer the owner's to give up.
Astray(x, fe) ==
    LET p == ProcOf(fe.o) IN
    \/ ~x.proc[p].live \/ x.proc[p].spt[fe.u].k # fe.k
    \/ \E t \in Thread : fe.k \in {x.th[t].old, x.th[t].new}

Evicted(x, t, i, kp) ==
    [x EXCEPT !.hand = HandAfter(x, i), !.frames = RemoveAt(@, i), !.flock = 0, !.mem[kp] = 0,
              !.pins = {b \in @ : b[2] # kp},
              !.th[t].new = kp, !.th[t].vic = 0, !.th[t].pc = "register"]
Null(x, t) == [x EXCEPT !.th[t].vic = 0, !.th[t].new = 0, !.th[t].pc = x.th[t].ret]
NoFrame(x, t) == Null([x EXCEPT !.flock = 0], t)

\* The owner's spt_lock, waited for with frame_lock held; then the mapping
\* goes before anything is said about what the page holds.
TakeVictim(x, t, p, u) ==
    IF x.proc[p].lock # 0 THEN Goto(x, t, "evict_lock")
    ELSE [pagedir_clear_page(x, p, u) EXCEPT !.proc[p].lock = t, !.th[t].pc = "evict_save"]

\* The clock: n more frames may be looked at, the i-th of the list first.
RECURSIVE Scan(_, _, _, _)
Scan(x, t, i, n) ==
    IF n = 0 THEN NoFrame(x, t)
    ELSE LET fe == x.frames[i]
             p == ProcOf(fe.o)
             y == OddIf(x, Astray(x, fe), "stray")
         IN CASE fe.pin \/ fe.ref > 1 -> Scan(x, t, clock_advance(x, i), n - 1)
              [] ~fe.pin /\ fe.ref = 1 /\ ~x.proc[p].live -> Evicted(y, t, i, fe.k)
              [] ~fe.pin /\ fe.ref = 1 /\ x.proc[p].live /\ pagedir_is_accessed(x, p, fe.u) ->
                   Scan(pagedir_set_accessed(x, p, fe.u), t, clock_advance(x, i), n - 1)
              [] OTHER -> TakeVictim([y EXCEPT !.th[t].vic = fe.k, !.th[t].turns = n - 1], t, p, fe.u)

frame_evict(x, t) ==
    IF x.frames = <<>> THEN NoFrame(x, t)
    ELSE LET h == IF x.hand = 0 THEN x.frames[1].k ELSE x.hand
         IN Scan([x EXCEPT !.flock = t, !.hand = h, !.th[t].first = h], t,
                 frame_find_entry(x, h), 2 * Len(x.frames))

FileOpen(x, e, u) ==
    /\ x.proc[e.f].live
    /\ e.m => \E i \in DOMAIN x.proc[e.f].maps : u \in x.proc[e.f].maps[i].pages

\* Both the file and swap refused the page: it stays, without its dirty bit,
\* and the scan goes on.
KeepVictim(x, t, p, u, kp, i) ==
    LET e == x.proc[p].spt[u]
        y == [OddIf(pagedir_set_page(x, p, u, kp, e.st = "none" \/ e.w),
                    e.m /\ pagedir_is_dirty(x, p, u), "lost") EXCEPT !.proc[p].lock = 0]
        j == clock_advance(x, i)
    IN IF x.frames[j].k = x.th[t].first THEN NoFrame(y, t)
       ELSE Scan([y EXCEPT !.th[t].vic = 0], t, j, x.th[t].turns)

ToSwap(x, t, p, u, kp, i) ==
    LET s == swap_slot(x)
        y == swap_out(x, kp)
    IN IF s = SWAP_SLOT_INVALID THEN KeepVictim(y, t, p, u, kp, i)
       ELSE Evicted([y EXCEPT !.proc[p].lock = 0,
                              !.proc[p].spt[u] = IF @.st = "none" THEN @
                                                 ELSE [@ EXCEPT !.st = "SWAP", !.s = s, !.k = 0, !.pd = TRUE]],
                    t, i, kp)

\* Mutant of Dirty: only the hardware bit says that a page must be saved.
DirtyBitOnly(x, p, u) == pagedir_is_dirty(x, p, u)
Dirty(x, p, u) ==
    LET e == x.proc[p].spt[u] IN pagedir_is_dirty(x, p, u) \/ (e.st # "none" /\ (e.pd \/ e.w))

\* The victim's mapping is gone and its table locked: save it, then let go.
SaveVictim(x, t, wrote) ==
    LET i == frame_find_entry(x, x.th[t].vic)
        kp == x.th[t].vic
        u == x.frames[i].u
        p == ProcOf(x.frames[i].o)
        e == x.proc[p].spt[u]
        Clean(y, st) == Evicted([y EXCEPT !.proc[p].lock = 0,
                                          !.proc[p].spt[u] = IF @.st = "none" THEN @
                                                             ELSE [@ EXCEPT !.st = st, !.k = 0]], t, i, kp)
    IN CASE Dirty(x, p, u) /\ e.f # 0 /\ e.w /\ e.m /\ wrote ->
              Clean(OddIf([x EXCEPT !.file[e.o] = x.mem[kp]], ~FileOpen(x, e, u), "closed"), "FILE")
         [] Dirty(x, p, u) /\ ~(e.f # 0 /\ e.w /\ e.m /\ wrote) -> ToSwap(x, t, p, u, kp, i)
         [] OTHER -> Clean(x, IF e.f # 0 THEN "FILE" ELSE "ZERO")

\* frame_alloc: malloc, palloc_get_page, else frame_evict, then the list.
Alloc(t) ==
    /\ k.th[t].pc = "alloc"
    /\ \E ok \in Outcomes :
         CASE ~ok -> k' = Null(Spend(k, ok), t)
           [] ok /\ k.free = {} -> k.flock = 0 /\ k' = frame_evict(k, t)
           [] ok /\ k.free # {} ->
                LET kp == Min(k.free) IN
                /\ k.flock = 0
                /\ k' = Goto(frame_insert([k EXCEPT !.free = @ \ {kp}, !.mem[kp] = 0, !.th[t].new = kp],
                                          t, kp, k.th[t].u), t, k.th[t].ret)

EvictLock(t) ==
    /\ k.th[t].pc = "evict_lock"
    /\ LET fe == k.frames[frame_find_entry(k, k.th[t].vic)]
           p == ProcOf(fe.o)
       IN /\ k.proc[p].lock = 0
          /\ k' = TakeVictim(OddIf(k, Astray(k, fe), "stray"), t, p, fe.u)

EvictSave(t) ==
    /\ k.th[t].pc = "evict_save"
    /\ LET fe == k.frames[frame_find_entry(k, k.th[t].vic)] IN
       \E wrote \in IF k.proc[ProcOf(fe.o)].spt[fe.u].m THEN Outcomes ELSE {TRUE} :
         k' = SaveVictim(Spend(k, wrote), t, wrote)

Register(t) ==
    /\ k.th[t].pc = "register" /\ k.flock = 0
    /\ k' = Goto(frame_insert(k, t, k.th[t].new, k.th[t].u), t, k.th[t].ret)

(* ----------------------------------------------------------------- faults *)
\* The processor: a permitted access is done, any other traps.  want is a
\* history of what each page should hold, fwant of what the file should.
AnotherThere(x, t, u) ==
    \E s \in Thread \ {t} : /\ ProcOf(s) = ProcOf(t) /\ x.th[s].u = u
                            /\ x.th[s].pc \notin {"none", "dead", "user", "retry"}
Touch(x, t, u, w) ==
    LET p == ProcOf(t)
        pte == x.proc[p].pte[u]
        e == x.proc[p].spt[u]
        y == [x EXCEPT !.proc[p].pte[u].a = TRUE, !.proc[p].pte[u].d = @ \/ w]
        z == IF ~w THEN y
             ELSE [y EXCEPT !.mem[pte.k] = p, !.want[p][u] = p,
                            !.fwant[e.o] = IF e.m /\ e.f = p THEN p ELSE @]
    IN IF pte.p /\ (w => pte.w) THEN Done(z, t)
       ELSE [OddIf(x, AnotherThere(x, t, u), "raced") EXCEPT
               !.th[t].pc = "fault", !.th[t].u = u, !.th[t].w = w, !.th[t].np = ~pte.p]

Access(t) ==
    /\ k.th[t].pc = "user" /\ k.th[t].left > 0
    /\ \E a \in k.sys.touch[t] : k' = Touch([k EXCEPT !.th[t].left = @ - 1], t, a[1], a[2])

\* The instruction that trapped is executed again.
Again(t) == k.th[t].pc = "retry" /\ k' = Touch(k, t, k.th[t].u, k.th[t].w)

\* Near: the address is at most 32 bytes below the stack pointer.
vm_is_stack_access(u, near) == near /\ u >= StackStart
spt_create_zero_page(x, p, u, w) == [x EXCEPT !.proc[p].spt[u] = [NoEntry EXCEPT !.st = "ZERO", !.w = w]]
spt_create_file_page(x, p, u, f, o, w) ==
    [x EXCEPT !.proc[p].spt[u] = [NoEntry EXCEPT !.st = "FILE", !.w = w, !.f = f, !.o = o]]

\* page_fault when vm_handle_fault returns false: the process dies.  A page
\* that the program may use so is then lost to it unjustly.
Kill(x, t, just) == [OddIf(x, ~just, "unjust") EXCEPT !.th[t] = [Idle EXCEPT !.pc = "exit"]]

CowFault(x, t, e) == IF ~e.w THEN Kill(x, t, TRUE)
                     ELSE [x EXCEPT !.th[t].old = e.k, !.th[t].pc = "cow_pin"]
\* Mutant of LoadFault: a read of a writable page is refused.
LoadFaultExactRights(x, t, e) ==
    CASE x.th[t].w # e.w -> Kill(x, t, x.th[t].w)
      [] x.th[t].w = e.w /\ e.st = "FRAME" -> Kill(x, t, FALSE)
      [] OTHER -> [x EXCEPT !.th[t].pc = "alloc", !.th[t].ret = "load"]

LoadFault(x, t, e) ==
    CASE x.th[t].w /\ ~e.w -> Kill(x, t, TRUE)
      [] ~(x.th[t].w /\ ~e.w) /\ e.st = "FRAME" -> Kill(x, t, FALSE)
      [] OTHER -> [x EXCEPT !.th[t].pc = "alloc", !.th[t].ret = "load"]

\* vm_handle_fault up to the point where it gives spt_lock back.
vm_handle_fault(x, t, near, ok) ==
    LET p == ProcOf(t)
        u == x.th[t].u
        e == x.proc[p].spt[u]
    IN CASE ~x.th[t].np /\ x.th[t].w /\ e.st = "COW" -> CowFault(x, t, e)
         [] ~x.th[t].np /\ ~(x.th[t].w /\ e.st = "COW") ->
              Kill(OddIf(x, e.w, "late"), t, ~e.w)
         [] x.th[t].np /\ e.st = "none" /\ ~vm_is_stack_access(u, near) -> Kill(x, t, TRUE)
         [] x.th[t].np /\ e.st = "none" /\ vm_is_stack_access(u, near) ->
              IF ~ok THEN Kill(Spend(x, ok), t, TRUE)
              ELSE LET y == spt_create_zero_page(x, p, u, TRUE) IN LoadFault(y, t, y.proc[p].spt[u])
         [] OTHER -> LoadFault(x, t, e)

Fault(t) ==
    /\ k.th[t].pc = "fault" /\ k.proc[ProcOf(t)].lock = 0
    /\ \E near \in BOOLEAN, ok \in Outcomes :
         k' = vm_handle_fault(k, t, near, ok)

\* The rest of spt_load_page: the page table, then the entry.
Installed(x, t) ==
    LET p == ProcOf(t)
        u == x.th[t].u
        e == Entry(x, t)
        y == pagedir_set_page(x, p, u, x.th[t].new, e.w)
        z == IF e.st = "SWAP" THEN [pagedir_set_dirty(y, p, u) EXCEPT !.proc[p].spt[u].pd = TRUE] ELSE y
    IN [z EXCEPT !.proc[p].spt[u].st = "FRAME", !.proc[p].spt[u].k = x.th[t].new, !.th[t].pc = "unpin"]

\* What spt_load_page reads into the frame.
Filled(x, t) ==
    LET e == Entry(x, t)
        kp == x.th[t].new
    IN CASE e.st = "ZERO" -> [x EXCEPT !.mem[kp] = 0]
         [] e.st = "SWAP" -> swap_in(x, e.s, kp)
         [] OTHER -> [OddIf(x, ~FileOpen(x, e, x.th[t].u), "closed") EXCEPT
                        !.mem[kp] = IF e.m THEN x.file[e.o] ELSE Text]

Load(t) ==
    /\ k.th[t].pc = "load" /\ k.th[t].new # 0
    /\ LET e == Entry(k, t)
           past == e.st = "FILE" /\ e.m /\ e.o >= FilePages
           there == e.st \in {"FRAME", "COW"}
       IN \/ ~past /\ ~there /\ k' = Installed(Filled(k, t), t)
          \/ (past \/ there) /\ k.flock = 0 /\ k' = Kill(frame_free(k, k.th[t].new), t, past)

\* No frame (every one pinned or shared, or swap full), or after the page is
\* read no page for the page table.
LoadFails(t) ==
    /\ k.th[t].pc = "load"
    /\ \/ k.th[t].new = 0 /\ k' = Kill(k, t, TRUE)
       \/ /\ k.th[t].new # 0 /\ Entry(k, t).st \in {"ZERO", "SWAP"} /\ FALSE \in Outcomes /\ k.flock = 0
          /\ k' = OddIf(Kill(frame_free(Spend(Filled(k, t), FALSE), k.th[t].new), t, TRUE),
                        Entry(k, t).st = "SWAP", "halfread")

Unpin(t) ==
    /\ k.th[t].pc = "unpin" /\ k.flock = 0
    /\ LET kp == IF k.th[t].ret = "load" THEN Entry(k, t).k ELSE k.th[t].new
       IN k' = Retry(frame_unpin(k, t, kp), t)

(* ---------------------------------------------------------- copy on write *)
\* frame_pin_if_present, and the retry as a fault on a missing page.
CowPin(t) ==
    /\ k.th[t].pc = "cow_pin" /\ k.flock = 0
    /\ k' = IF frame_find_entry(k, k.th[t].old) = 0
            THEN [k EXCEPT !.th[t].old = 0, !.th[t].np = TRUE, !.th[t].pc = "fault"]
            ELSE [frame_pin(k, t, k.th[t].old) EXCEPT !.th[t].pc = "alloc", !.th[t].ret = "cow_copy"]

CowCopy(t) ==
    /\ k.th[t].pc = "cow_copy" /\ k.flock = 0
    /\ LET x == frame_unpin(k, t, k.th[t].old) IN
       k' = IF k.th[t].new = 0 THEN Kill(x, t, TRUE)
            ELSE Goto([x EXCEPT !.mem[k.th[t].new] = k.mem[k.th[t].old]], t, "cow_map")

CowMap(t) ==
    /\ k.th[t].pc = "cow_map" /\ k.proc[ProcOf(t)].lock = 0
    /\ LET p == ProcOf(t)
           u == k.th[t].u
           x == pagedir_set_page(pagedir_clear_page(k, p, u), p, u, k.th[t].new, TRUE)
       IN k' = [x EXCEPT !.proc[p].spt[u].st = "FRAME", !.proc[p].spt[u].k = k.th[t].new,
                         !.th[t].pc = "cow_free"]

\* Mutant of CowFree: the reference to the shared frame is kept.
CowKeeps(t) ==
    /\ k.th[t].pc = "cow_free" /\ k.flock = 0
    /\ k' = Goto([k EXCEPT !.th[t].old = 0], t, "unpin")

CowFree(t) ==
    /\ k.th[t].pc = "cow_free" /\ k.flock = 0
    /\ k' = Goto([frame_free(k, k.th[t].old) EXCEPT !.th[t].old = 0], t, "unpin")

(* ------------------------------------------------------------------- fork *)
Pages(x, p) == SetToSortSeq({u \in Upage : x.proc[p].spt[u].st # "none"}, <)

\* fork(): the child c clones the tables, the parent waits until it is done.
Fork(t) ==
    /\ k.th[t].pc = "user" /\ k.th[t].left > 0 /\ "fork" \in k.sys.calls /\ t = k.sys.caller
    /\ {q \in Proc : k.th[q].pc = "none"} # {}
    /\ LET c == Min({q \in Proc : k.th[q].pc = "none"}) IN
       k' = [k EXCEPT !.proc[c].live = TRUE, !.want[c] = k.want[ProcOf(t)],
                        !.th[c] = [Idle EXCEPT !.pc = "clone", !.par = ProcOf(t), !.left = k.sys.acts[c]],
                        !.th[t].pc = "forking", !.th[t].left = @ - 1]

\* spt_clone: the parent's spt_lock is held from here on.  th.par is the parent.
CloneLock(t) ==
    /\ k.th[t].pc = "clone" /\ k.proc[k.th[t].par].lock = 0
    /\ k' = [k EXCEPT !.proc[k.th[t].par].lock = t, !.th[t].pc = "clone_page",
                     !.th[t].todo = Pages(k, k.th[t].par)]

Cloned(x, t, e) ==
    [x EXCEPT !.proc[t].spt[Head(x.th[t].todo)] = e, !.th[t].todo = Tail(@), !.th[t].pc = "clone_page",
              !.th[t].new = 0]
\* The caller ignores the result: the child runs with what it has.
CloneEnds(x, t) == [Done(Done(x, t), x.th[t].par) EXCEPT !.proc[x.th[t].par].lock = 0]

\* A page that is not in memory: the metadata, the file handle included.
ClonePage(t) ==
    /\ k.th[t].pc = "clone_page" /\ k.th[t].todo # <<>>
    /\ LET u == Head(k.th[t].todo)
           q == k.th[t].par
           e == k.proc[q].spt[u]
       IN \E ok \in Outcomes :
          IF ~ok THEN k' = CloneEnds(Spend(k, ok), t)
          ELSE CASE e.st \in {"ZERO", "FILE"} -> k' = Cloned(k, t, e)
                 [] e.st \in {"FRAME", "COW"} ->
                      k.flock = 0 /\ k' = Goto(frame_pin(k, t, e.k), t, "clone_share")
                 [] e.st = "SWAP" ->
                      k' = [k EXCEPT !.proc[q].lock = 0, !.th[t].u = u, !.th[t].pc = "alloc",
                                     !.th[t].ret = "clone_swap"]

\* Mutant of CloneShare: the parent goes on writing to the shared frame.
CloneShareWritable(t) ==
    /\ k.th[t].pc = "clone_share" /\ k.flock = 0
    /\ LET e == k.proc[k.th[t].par].spt[Head(k.th[t].todo)]
           x == pagedir_set_page(k, t, Head(k.th[t].todo), e.k, FALSE)
       IN k' = Goto(frame_share(x, e.k), t, "clone_unpin")

CloneShare(t) ==
    /\ k.th[t].pc = "clone_share" /\ k.flock = 0
    /\ LET u == Head(k.th[t].todo)
           q == k.th[t].par
           e == k.proc[q].spt[u]
           x == pagedir_set_writable(pagedir_set_page(k, t, u, e.k, FALSE), q, u)
       IN k' = Goto(frame_share(x, e.k), t, "clone_unpin")

CloneUnpin(t) ==
    /\ k.th[t].pc = "clone_unpin" /\ k.flock = 0
    /\ LET e == k.proc[k.th[t].par].spt[Head(k.th[t].todo)]
       IN k' = Cloned(frame_unpin(k, t, e.k), t, [e EXCEPT !.st = "COW", !.s = 0])

\* A page in swap is read, which frees the parent's slot ...
CloneSwapIn(t) ==
    /\ k.th[t].pc = "clone_swap"
    /\ LET e == k.proc[k.th[t].par].spt[k.th[t].u] IN
       IF k.th[t].new = 0
       THEN k.proc[k.th[t].par].lock = 0 /\ k' = CloneEnds(k, t)
       ELSE k' = Goto(swap_in(k, e.s, k.th[t].new), t, "clone_out")

\* ... written back for the parent, trying twice ...
CloneSwapOut(t) ==
    /\ k.th[t].pc = "clone_out"
    /\ LET s == swap_slot(k)
           x == swap_out(k, k.th[t].new)
       IN k' = IF s = SWAP_SLOT_INVALID THEN Goto(x, t, "clone_fail")
               ELSE Goto([x EXCEPT !.proc[k.th[t].par].spt[k.th[t].u].s = s], t, "clone_copy")

\* ... and written once more for the child.
CloneSwapCopy(t) ==
    /\ k.th[t].pc = "clone_copy" /\ k.flock = 0
    /\ LET s == swap_slot(k)
           x == frame_free(swap_out(k, k.th[t].new), k.th[t].new)
       IN k' = IF s = SWAP_SLOT_INVALID THEN [x EXCEPT !.th[t].new = 0, !.th[t].pc = "clone_swap"]
               ELSE [x EXCEPT !.th[t].new = 0, !.th[t].slot = s, !.th[t].pc = "clone_relock"]

CloneFail(t) ==
    /\ k.th[t].pc = "clone_fail" /\ k.flock = 0
    /\ LET s == swap_slot(k)
           x == frame_free(swap_out(k, k.th[t].new), k.th[t].new)
       IN k' = [IF s = SWAP_SLOT_INVALID THEN Odd(x, "swaplost") ELSE [x EXCEPT !.proc[k.th[t].par].spt[k.th[t].u].s = s]
                EXCEPT !.th[t].new = 0, !.th[t].pc = "clone_swap"]

CloneRelock(t) ==
    /\ k.th[t].pc = "clone_relock" /\ k.proc[k.th[t].par].lock = 0
    /\ LET e == k.proc[k.th[t].par].spt[k.th[t].u] IN
       k' = [Cloned(k, t, [e EXCEPT !.st = "SWAP", !.s = k.th[t].slot, !.k = 0]) EXCEPT
               !.proc[k.th[t].par].lock = t, !.th[t].u = 0, !.th[t].slot = 0, !.th[t].ret = "none"]

\* Pass 2: what the parent has in memory is now shared.
CloneCow(t) ==
    /\ k.th[t].pc = "clone_page" /\ k.th[t].todo = <<>>
    /\ LET q == k.th[t].par IN
       k' = CloneEnds([k EXCEPT !.proc[q].spt = [u \in Upage |->
              IF @[u].st = "FRAME" THEN [@[u] EXCEPT !.st = "COW"] ELSE @[u]]], t)

(* ----------------------------------------------------------- mapped files *)
mmap_range_available(x, p, a, n) ==
    /\ a + n <= MaxPage + 1 /\ a + n <= StackStart
    /\ \A u \in a .. a + n - 1 : x.proc[p].spt[u].st = "none"

find_free_address(x, p, n) ==
    LET fit == {a \in MmapBase .. StackStart : mmap_range_available(x, p, a, n)}
    IN IF fit = {} THEN MaxPage + 1 ELSE Min(fit)

\* Only called where spt_lock may be held: the entries are not in frames.
spt_remove(x, p, u) ==
    LET e == x.proc[p].spt[u] IN
    [IF e.st = "SWAP" THEN swap_free(x, e.s) ELSE IF e.st = "FRAME" THEN frame_free(x, e.k) ELSE x
     EXCEPT !.proc[p].spt[u] = NoEntry]

\* The entries of a mapping of n pages at a; made < n: malloc failed for the
\* next one, and those made are taken out again.
MapPages(x, p, a, n, anon, made) ==
    LET Make(y, i) == LET z == IF anon THEN spt_create_zero_page(y, p, a + i, TRUE)
                               ELSE spt_create_file_page(y, p, a + i, p, i, TRUE)
                      IN [z EXCEPT !.proc[p].spt[a + i].m = TRUE,
                                   !.want[p][a + i] = IF anon \/ i >= FilePages THEN 0 ELSE x.file[i]]
        y == FoldLeft(Make, x, [i \in 1 .. made |-> i - 1])
    IN IF made = n
       THEN [y EXCEPT !.proc[p].maps = Append(@, [pages |-> a .. a + n - 1, anon |-> anon])]
       ELSE FoldLeft(LAMBDA z, i : spt_remove(z, p, a + i), Spend(y, FALSE), [i \in 1 .. made |-> i - 1])

\* mmap_create of n pages of the file, and mmap_create_anon; MAP_FAILED
\* leaves everything as it was.
MmapCall(t) == k.th[t].pc = "user" /\ k.th[t].left > 0 /\ k.proc[ProcOf(t)].mlock = 0
               /\ k.proc[ProcOf(t)].lock = 0 /\ ProcOf(t) = k.sys.caller
Mapped(t, a, n, anon) ==
    LET x == [k EXCEPT !.th[t].left = @ - 1] IN
    IF ~mmap_range_available(k, ProcOf(t), a, n) THEN k' = x
    ELSE \E made \in (IF FALSE \in Outcomes THEN 0 .. n ELSE {n}) : k' = MapPages(x, ProcOf(t), a, n, anon, made)

mmap_create(t) ==
    /\ MmapCall(t) /\ "mmap" \in k.sys.calls /\ FilePages > 0
    /\ \E a \in k.sys.at, n \in 1 .. FilePages + 1 : Mapped(t, a, n, FALSE)

mmap_create_anon(t) ==
    /\ MmapCall(t) /\ "anon" \in k.sys.calls
    /\ \E n \in 1 .. 2, hint \in {0} \cup k.sys.at :
         Mapped(t, IF hint = 0 THEN find_free_address(k, ProcOf(t), n) ELSE hint, n, TRUE)

mmap_find_region_locked(x, p, u) == SelectInSeq(x.proc[p].maps, LAMBDA r : u \in r.pages)

\* Start of mmap_cleanup_pages for the i-th region; back to label l.
Cleanup(x, t, i, l) ==
    [x EXCEPT !.proc[ProcOf(t)].mlock = t, !.th[t].pc = "mm_page", !.th[t].ret = l, !.th[t].slot = i,
              !.th[t].todo = SetToSortSeq(x.proc[ProcOf(t)].maps[i].pages, <)]

mmap_find_and_destroy(t) ==
    /\ k.th[t].pc = "user" /\ k.th[t].left > 0 /\ "munmap" \in k.sys.calls
    /\ k.proc[ProcOf(t)].mlock = 0
    /\ \E u \in k.sys.at :
         LET i == mmap_find_region_locked(k, ProcOf(t), u) IN
         i # 0 /\ k' = Cleanup([k EXCEPT !.th[t].left = @ - 1], t, i, "user")

\* Phase 1: what frame is the page in?  (th.np: the frame is pinned.)
MmPage(t) ==
    /\ k.th[t].pc = "mm_page" /\ k.th[t].todo # <<>> /\ k.proc[ProcOf(t)].lock = 0
    /\ LET e == k.proc[ProcOf(t)].spt[Head(k.th[t].todo)] IN
       k' = CASE e.st = "none" -> [k EXCEPT !.th[t].todo = Tail(@)]
              [] e.st = "FRAME" -> [k EXCEPT !.th[t].old = e.k, !.th[t].pc = "mm_pin"]
              [] OTHER -> Goto(k, t, "mm_clean")

\* Phase 2: frame_pin_if_present without spt_lock.
MmPin(t) ==
    /\ k.th[t].pc = "mm_pin" /\ k.flock = 0
    /\ LET there == frame_find_entry(k, k.th[t].old) # 0 IN
       k' = [frame_pin(k, t, k.th[t].old) EXCEPT !.th[t].np = there, !.th[t].pc = "mm_clean"]

\* A page that is dropped without its frame or its newest contents.
Dropped(x, t, e) ==
    LET y == OddIf(x, e.f # 0 /\ e.st \in {"SWAP", "COW"}, "lost")
    IN IF e.st = "COW" THEN [y EXCEPT !.owed[e.k] = @ + 1] ELSE y

\* Phase 3: look again, and take the entry out.
MmClean(t) ==
    /\ k.th[t].pc = "mm_clean" /\ k.proc[ProcOf(t)].lock = 0
    /\ LET p == ProcOf(t)
           u == Head(k.th[t].todo)
           e == k.proc[p].spt[u]
           dirty == ~k.proc[p].maps[k.th[t].slot].anon /\ pagedir_is_dirty(k, p, u)
           Out(x) == [x EXCEPT !.proc[p].spt[u] = NoEntry]
       IN k' = CASE e.st = "FRAME" /\ k.th[t].np /\ e.k = k.th[t].old ->
                      [Out(pagedir_clear_page(k, p, u)) EXCEPT
                         !.th[t].new = e.k, !.th[t].u = e.o, !.th[t].pc = IF dirty THEN "mm_write" ELSE "mm_unpin"]
                 [] e.st = "FRAME" /\ ~(k.th[t].np /\ e.k = k.th[t].old) -> Goto(k, t, "mm_unpin")
                 [] e.st # "FRAME" ->
                      LET x == Dropped(Out(IF e.st = "SWAP" THEN swap_free(k, e.s) ELSE k), t, e)
                      IN IF k.th[t].np THEN Goto(x, t, "mm_unpin")
                         ELSE [x EXCEPT !.th[t].todo = Tail(@), !.th[t].old = 0, !.th[t].pc = "mm_page"]

\* Phase 4: write back, whatever comes of it.
MmWrite(t) ==
    /\ k.th[t].pc = "mm_write"
    /\ \E ok \in Outcomes :
         k' = IF ok THEN Goto([k EXCEPT !.file[k.th[t].u] = k.mem[k.th[t].new]], t, "mm_unpin")
              ELSE Goto(Odd(Spend(k, ok), "lost"), t, "mm_unpin")

MmUnpin(t) ==
    /\ k.th[t].pc = "mm_unpin" /\ k.flock = 0
    /\ LET x == IF k.th[t].np THEN frame_unpin(k, t, k.th[t].old) ELSE k
           gone == k.proc[ProcOf(t)].spt[Head(k.th[t].todo)].st = "none"
       IN k' = IF k.th[t].new # 0 THEN Goto(x, t, "mm_free")
               ELSE [x EXCEPT !.th[t].np = FALSE, !.th[t].old = 0, !.th[t].pc = "mm_page",
                              !.th[t].todo = IF gone THEN Tail(@) ELSE @]

MmFree(t) ==
    /\ k.th[t].pc = "mm_free" /\ k.flock = 0
    /\ k' = [frame_free(k, k.th[t].new) EXCEPT !.th[t].np = FALSE, !.th[t].old = 0, !.th[t].new = 0,
                !.th[t].u = 0, !.th[t].todo = Tail(@), !.th[t].pc = "mm_page"]

\* The file is closed and the region goes.
MmEnd(t) ==
    /\ k.th[t].pc = "mm_page" /\ k.th[t].todo = <<>>
    /\ LET x == [k EXCEPT !.proc[ProcOf(t)].maps = RemoveAt(@, k.th[t].slot), !.proc[ProcOf(t)].mlock = 0]
       IN k' = IF k.th[t].ret = "user" THEN Done(x, t)
               ELSE [x EXCEPT !.th[t] = [Idle EXCEPT !.pc = "exit"]]

(* ------------------------------------------------------------------- exit *)
SysExit(t) ==
    /\ k.th[t].pc = "user" /\ "exit" \in k.sys.calls /\ k.th[t].left > 0
    /\ k' = Goto(k, t, "exit")

\* process_exit: the other threads are gone (module Process), then
\* mmap_destroy_all, a region at a time.
ExitProcess(t) ==
    /\ k.th[t].pc = "exit"
    /\ LET p == ProcOf(t)
           others == {s \in Thread \ {t} : ProcOf(s) = p}
           x == [k EXCEPT !.th = [s \in Thread |-> IF s \in others THEN [Idle EXCEPT !.pc = "dead"] ELSE @[s]]]
       IN /\ \A s \in others : k.th[s].pc \in {"none", "dead", "user", "retry", "exit"}
          /\ k' = IF k.proc[p].maps = <<>> THEN [x EXCEPT !.th[t] = [Idle EXCEPT !.pc = "destroy_lock"]]
                  ELSE Cleanup([x EXCEPT !.th[t] = Idle], t, 1, "exit")

DestroyLock(t) ==
    /\ k.th[t].pc = "destroy_lock" /\ k.proc[ProcOf(t)].lock = 0
    /\ k' = [k EXCEPT !.proc[ProcOf(t)].lock = t, !.th[t].pc = "destroy",
                     !.th[t].todo = Pages(k, ProcOf(t))]

\* spt_destroy_func: a page shared for copy-on-write keeps its reference,
\* which is then owed for ever.
spt_destroy_func(x, t, e) ==
    CASE e.st = "FRAME" -> frame_free(x, e.k)
      [] e.st = "SWAP" -> swap_free(x, e.s)
      [] OTHER -> Dropped(x, t, e)

Destroy(t) ==
    /\ k.th[t].pc = "destroy" /\ k.th[t].todo # <<>>
    /\ LET p == ProcOf(t)
           u == Head(k.th[t].todo)
           e == k.proc[p].spt[u]
       IN /\ e.st = "FRAME" => k.flock = 0
          /\ k' = [spt_destroy_func(k, t, e) EXCEPT !.proc[p].spt[u] = NoEntry, !.th[t].todo = Tail(@)]

\* The page directory and the control block are freed.
Gone(t) ==
    /\ k.th[t].pc = "destroy" /\ k.th[t].todo = <<>>
    /\ k' = [k EXCEPT !.proc[ProcOf(t)] = NoProc, !.th[t] = [Idle EXCEPT !.pc = "dead"]]

(* ---------------------------------------------------------- specification *)
\* vm_init, and the tables that load has made for the first processes:
\* kind "zero" is bss or stack, "data" writable and "text" read-only file pages.
Loaded(p, kinds) ==
    [NoProc EXCEPT !.live = TRUE, !.spt = [u \in Upage |->
       IF u \notin DOMAIN kinds THEN NoEntry
       ELSE IF kinds[u] = "zero" THEN [NoEntry EXCEPT !.st = "ZERO", !.w = TRUE]
       ELSE [NoEntry EXCEPT !.st = "FILE", !.w = kinds[u] = "data", !.f = p]]]

Init ==
    \E sys \in Systems :
      k = [sys |-> sys, faults |-> sys.faults, free |-> 1 .. sys.frames, frames |-> <<>>, hand |-> 0,
           flock |-> 0, mem |-> [x \in Kpage |-> 0], slot |-> [x \in Slot |-> Free],
           file |-> [i \in 0 .. FilePages - 1 |-> Disk], fwant |-> [i \in 0 .. FilePages - 1 |-> Disk],
           proc |-> [p \in Proc |-> IF p \in DOMAIN sys.procs THEN Loaded(p, sys.procs[p]) ELSE NoProc],
           want |-> [p \in Proc |-> [u \in Upage |->
                       IF p \in DOMAIN sys.procs /\ u \in DOMAIN sys.procs[p] /\ sys.procs[p][u] # "zero"
                       THEN Text ELSE 0]],
           th |-> [t \in Thread |-> IF t \in DOMAIN sys.procs \/ (t = Extra /\ sys.extra)
                                    THEN [Idle EXCEPT !.pc = "user", !.left = sys.acts[t]] ELSE Idle],
           pins |-> {}, owed |-> [x \in Kpage |-> 0], odd |-> {}]

Paging(t) == Alloc(t) \/ EvictLock(t) \/ EvictSave(t) \/ Register(t)
Faulting(t) == Fault(t) \/ Load(t) \/ LoadFails(t) \/ Unpin(t) \/ CowPin(t) \/ CowCopy(t)
               \/ CowMap(t) \/ CowFree(t)
Cloning(t) == CloneLock(t) \/ ClonePage(t) \/ CloneShare(t) \/ CloneUnpin(t) \/ CloneSwapIn(t)
              \/ CloneSwapOut(t) \/ CloneSwapCopy(t) \/ CloneFail(t) \/ CloneRelock(t) \/ CloneCow(t)
Unmapping(t) == MmPage(t) \/ MmPin(t) \/ MmClean(t) \/ MmWrite(t) \/ MmUnpin(t) \/ MmFree(t) \/ MmEnd(t)
Exiting(t) == ExitProcess(t) \/ DestroyLock(t) \/ Destroy(t) \/ Gone(t)
Kernel(t) == Paging(t) \/ Faulting(t) \/ Cloning(t) \/ Unmapping(t) \/ Exiting(t)
User(t) == Access(t) \/ Again(t) \/ Fork(t) \/ mmap_create(t) \/ mmap_create_anon(t)
           \/ mmap_find_and_destroy(t) \/ SysExit(t)
\* What follows one of the races that the README lists is not looked at.
Ruined == k.odd \cap {"stray", "clash", "raced", "closed", "halfread", "swaplost", "panic"} # {}
Next == ~Ruined /\ \E t \in Thread : Kernel(t) \/ User(t)
Spec == Init /\ [][Next]_k

(* -------------------------------------------------------------- properties *)
\* Type correctness, and the references, turns and slots stay in range.
TypeOK ==
    /\ k.free \subseteq Kpage /\ k.hand \in 0 .. MaxFrame /\ k.flock \in {0} \cup Thread
    /\ k.mem \in [Kpage -> Data] /\ k.slot \in [Slot -> Data \cup {Free}]
    /\ Range(k.file) \subseteq Data
    /\ \A i \in DOMAIN k.frames : k.frames[i].k \in Kpage /\ k.frames[i].ref >= 1
    /\ k.hand # 0 => frame_find_entry(k, k.hand) # 0
    /\ \A t \in Thread : k.th[t].turns \in 0 .. 2 * MaxFrame

\* Thread t is at work on page u of process p.
AtWork(t, p, u) ==
    LET th == k.th[t] IN
    \/ /\ p \in {ProcOf(t), th.par} /\ th.pc \notin {"user", "retry", "none", "dead"}
       /\ th.u = u \/ (th.todo # <<>> /\ Head(th.todo) = u)
    \/ th.vic # 0 /\ LET fe == k.frames[frame_find_entry(k, th.vic)] IN ProcOf(fe.o) = p /\ fe.u = u

InMemory(e) == e.st \in {"FRAME", "COW"}
Kept(p, u) ==
    LET e == k.proc[p].spt[u] IN
    k.want[p][u] = CASE InMemory(e) -> IF k.proc[p].pte[u].p /\ k.proc[p].pte[u].k = e.k
                                       THEN k.mem[e.k] ELSE Free
                     [] e.st = "SWAP" -> k.slot[e.s]
                     [] e.st = "ZERO" -> 0
                     [] OTHER -> IF e.m /\ e.o \in DOMAIN k.file THEN k.file[e.o]
                                 ELSE IF e.m THEN 0 ELSE Text

\* Paging is invisible: a page that nobody is at work on holds what its
\* process last wrote, wherever the entry says it is, and a page said to be in
\* memory is mapped there; through eviction, swap, write-back, reload, fork
\* and copy-on-write (frame_evict, spt_load_page, spt_clone, vm_handle_fault).
\* Excused are the known races that the README lists.
ContentsKept ==
    \/ Ruined
    \/ \A p \in Proc, u \in Upage :
         (k.proc[p].live /\ k.proc[p].spt[u].st # "none" /\ ~\E t \in Thread : AtWork(t, p, u)) => Kept(p, u)

Owners(kp) == {<<p, u>> \in Proc \X Upage : InMemory(k.proc[p].spt[u]) /\ k.proc[p].spt[u].k = kp}
Borrowers(kp) ==
    {t \in Thread : \/ k.th[t].new = kp /\ k.th[t].pc \notin {"unpin", "cow_free", "register"}
                    \/ k.th[t].old = kp /\ k.th[t].pc = "cow_free"
                    \/ /\ k.th[t].pc = "clone_unpin"
                       /\ k.proc[k.th[t].par].spt[Head(k.th[t].todo)].k = kp}

\* A frame's ref_count is the number of table entries that name it, plus the
\* handlers that hold it, plus the references that spt_destroy_func and
\* mmap_cleanup_pages never give back; and every page of the pool is free, in
\* the table once, or on its way from one to the other (frame_alloc, frame_share,
\* frame_free, frame_evict).
FramesAccounted ==
    \/ Ruined
    \/ /\ \A i \in DOMAIN k.frames :
            LET kp == k.frames[i].k IN
            k.frames[i].ref = Cardinality(Owners(kp)) + Cardinality(Borrowers(kp)) + k.owed[kp]
       /\ \A kp \in 1 .. k.sys.frames :
            Cardinality({i \in DOMAIN k.frames : k.frames[i].k = kp}) + (IF kp \in k.free THEN 1 ELSE 0)
            + Cardinality({t \in Thread : k.th[t].pc = "register" /\ k.th[t].new = kp}) = 1

\* A slot is in use exactly when one entry of one process names it, a page
\* being copied for a child counted (swap_out, swap_in, swap_free).
SlotsAccounted ==
    \/ Ruined
    \/ \E t \in Thread : k.th[t].pc \in {"clone_out", "clone_fail"}
    \/ \A s \in Slot :
         Cardinality({<<p, u>> \in Proc \X Upage : k.proc[p].spt[u].st = "SWAP" /\ k.proc[p].spt[u].s = s})
         + Cardinality({t \in Thread : k.th[t].pc = "clone_relock" /\ k.th[t].slot = s})
         = IF k.slot[s] = Free THEN 0 ELSE 1

\* No process can write to memory that another page shows: a writable mapping
\* is the only one of its frame, and no mapping leads to a page that was given
\* back or taken away (pagedir_set_page, spt_clone, frame_evict).
WritesPrivate ==
    \/ Ruined
    \/ LET maps == {<<p, u>> \in Proc \X Upage : /\ k.proc[p].live /\ k.proc[p].pte[u].p
                                                /\ k.proc[p].spt[u].st # "none"}
           Kp(m) == k.proc[m[1]].pte[m[2]].k
       IN \A m \in maps :
            /\ Kp(m) \notin k.free /\ frame_find_entry(k, Kp(m)) # 0
            /\ k.proc[m[1]].pte[m[2]].w => \A n \in maps \ {m} : Kp(n) # Kp(m)

\* When no mapping shows a page of the file, the file holds what was last
\* written through one (mmap_cleanup_pages, frame_evict); unless a page that
\* had gone to swap or was shared by a fork was dropped, or a write failed.
MappingWrittenBack ==
    \/ Ruined \/ "lost" \in k.odd
    \/ (\A p \in Proc : k.proc[p].maps = <<>>) => k.file = k.fwant

\* A process that touches its memory within its rights is not killed for it
\* (the three returns of false at vm.c:135, vm.c:173 and page.c:341); the
\* excuses are a second thread in the same page, a victim put back because swap
\* was full, and a shared page whose last other user went while the fault waited.
NoUnjustKill == "unjust" \in k.odd => Ruined \/ k.odd \cap {"full", "late"} # {}

\* The assertions of pagedir_set_page, swap_in and swap_free hold.
AssertionsHold == "panic" \in k.odd => k.odd \cap {"stray", "clash", "raced", "halfread", "swaplost"} # {}

\* An evictor holds frame_lock and waits for the spt_lock of a thread that
\* waits for frame_lock.
WaitsForFrameLock(s) ==
    LET th == k.th[s] IN
    \/ th.pc \in {"clone_share", "clone_unpin"}
    \/ th.pc = "clone_page" /\ th.todo # <<>> /\ InMemory(k.proc[th.par].spt[Head(th.todo)])
    \/ th.pc = "destroy" /\ th.todo # <<>> /\ k.proc[ProcOf(s)].spt[Head(th.todo)].st = "FRAME"
LockCycle ==
    \E t \in Thread : /\ k.th[t].pc = "evict_lock"
                      /\ LET fe == k.frames[frame_find_entry(k, k.th[t].vic)]
                             s == k.proc[ProcOf(fe.o)].lock
                         IN s # 0 /\ WaitsForFrameLock(s)

\* "Lock ordering: frame_lock -> spt_lock (eviction uses this order)": nobody
\* waits for frame_lock while an evictor waits for the spt_lock it holds.
NoLockCycle == ~LockCycle

\* No handler is left waiting for good: while a thread is inside a fault, a
\* fork, an unmapping or an exit, some thread inside one can go on, unless
\* threads wait for each other's locks as above (every lock that frame.c,
\* page.c, vm.c and mmap.c hold across a step is given back on every path).
HandlersGoOn ==
    (\E t \in Thread : k.th[t].pc \notin {"none", "user", "retry", "dead"})
      => Ruined \/ LockCycle \/ \E t \in Thread : ENABLED Kernel(t)

\* Data survive paging: a page holds what its process last wrote, wherever it
\* is, and a mapped file holds what was last written through a mapping when no
\* mapping shows the page any more; but for the races the README lists.
DataKept == ContentsKept /\ MappingWrittenBack

\* Memory is accounted for: every page of the pool and every swap slot is free
\* or in use by exactly those its count and the tables say, over eviction, fork,
\* copy-on-write, unmapping, exit and failed allocations (frame.c, swap.c).
MemoryAccounted == TypeOK /\ FramesAccounted /\ SlotsAccounted

\* Faults are served: a legal access kills nobody, no assertion fails, and no
\* handler is left waiting with a lock that was not given back (vm_handle_fault,
\* spt_load_page, frame_alloc); but for the races the README lists.
FaultsServed == NoUnjustKill /\ AssertionsHold /\ HandlersGoOn
=============================================================================
