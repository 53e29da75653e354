----------------------------- MODULE PageTable -----------------------------
(***************************************************************************)
(* The page directories of the RISC-V port (arch/riscv64/pagedir.c): three *)
(* levels of tables in kernel pages, changed by the kernel and walked by   *)
(* the processor, which keeps translations in its TLB until a fence.  The  *)
(* port does not preempt, so that a call is one step.  User frames come    *)
(* from their own pool; the callers give a frame back when they unmap it,  *)
(* look a page up before they map it, and switch away from a directory     *)
(* before they destroy it (process.c, page.c, vm.c).                       *)
(***************************************************************************)
EXTENDS Integers, Sequences, FiniteSets

CONSTANTS PtPages,        \* pages of the kernel's pool: 1 .. PtPages
          PtFrames,       \* frames of the user pool
          Dirs,           \* process ids that may own a directory
          Addresses,      \* user pages, as triples of indices
          MaxPtOps

VARIABLE p

PtIndex == 0 .. 1
Null == 0
NoPte == [v |-> FALSE, leaf |-> FALSE, to |-> Null, w |-> FALSE, a |-> FALSE, d |-> FALSE]
Pointer(t) == [NoPte EXCEPT !.v = TRUE, !.to = t]
NoDir == [upt |-> Null, root |-> Null]
Live(s, pd) == s.dir[pd] # NoDir
Lowest(S) == CHOOSE x \in S : \A y \in S : x <= y

\* palloc_get_page(PAL_ZERO); the caller has seen that there is one.
GetZeroed(s) == LET t == Lowest(s.free)
                IN [s EXCEPT !.free = @ \ {t}, !.got = t, !.mem[t] = [i \in PtIndex |-> NoPte]]

\* One level down from table[i]; got is the table below, or Null.
Descend(s, table, i, create) ==
    LET e == s.mem[table][i]
    IN IF e.v THEN [s EXCEPT !.got = IF e.leaf THEN Null ELSE e.to]
       ELSE IF ~create \/ s.free = {} THEN [s EXCEPT !.got = Null]
       ELSE LET g == GetZeroed(s) IN [g EXCEPT !.mem[table][i] = Pointer(g.got)]
pagedir_lookup_pte(s, pd, va, create) ==
    LET l1 == Descend(s, s.dir[pd].root, va[1], create)
    IN IF l1.got = Null THEN l1 ELSE Descend(l1, l1.got, va[2], create)
Pte(s, pd, va) == LET l == pagedir_lookup_pte(s, pd, va, FALSE)
                  IN IF l.got = Null THEN NoPte ELSE s.mem[l.got][va[3]]
pagedir_get_page(s, pd, va) == LET e == Pte(s, pd, va) IN IF e.v THEN e.to ELSE Null

sfence_vma_va(s, va) == [s EXCEPT !.tlb = [@ EXCEPT ![va] = NoPte]]
\* A flag of an entry is changed where there is one, and its translation dropped.
Flagged(s, pd, va, e) == LET l == pagedir_lookup_pte(s, pd, va, FALSE)
                         IN IF l.got = Null THEN s ELSE sfence_vma_va([s EXCEPT !.mem[l.got][va[3]] = e], va)
pagedir_set_dirty(s, pd, va, dirty) == Flagged(s, pd, va, [Pte(s, pd, va) EXCEPT !.d = dirty])
pagedir_set_accessed(s, pd, va, acc) == Flagged(s, pd, va, [Pte(s, pd, va) EXCEPT !.a = acc])
pagedir_set_writable(s, pd, va, w) == Flagged(s, pd, va, [Pte(s, pd, va) EXCEPT !.w = w])
pagedir_clear_page(s, pd, va) == IF Pte(s, pd, va).v THEN Flagged(s, pd, va, NoPte) ELSE s

\* Writable pages are born dirty; there is no fence.  ok is the answer.
pagedir_set_page(s, pd, va, frame, w) ==
    LET l == pagedir_lookup_pte(s, pd, va, TRUE)
    IN IF l.got = Null THEN [l EXCEPT !.ok = FALSE]
       ELSE [l EXCEPT !.ok = TRUE, !.mem[l.got][va[3]] = [v |-> TRUE, leaf |-> TRUE, to |-> frame, w |-> w, a |-> TRUE, d |-> w]]

\* Two pages: the structure and the root; the first is given back without a second.
pagedir_create(s, pd) ==
    IF Cardinality(s.free) < 2 THEN s
    ELSE LET a == GetZeroed(s)
             b == GetZeroed(a)
         IN [b EXCEPT !.dir[pd] = [upt |-> a.got, root |-> b.got]]

Below(s, table) == {s.mem[table][i].to : i \in {j \in PtIndex : s.mem[table][j].v /\ ~s.mem[table][j].leaf}}
Tables(s, pd) == LET l1 == Below(s, s.dir[pd].root) IN l1 \cup UNION {Below(s, t) : t \in l1}
pagedir_destroy(s, pd) == [s EXCEPT !.free = @ \cup Tables(s, pd) \cup {s.dir[pd].upt, s.dir[pd].root}, !.dir[pd] = NoDir]

\* Every mapped page of the parent, in the order of addresses, is copied into a
\* frame of its own; what a failed copy has mapped stays mapped.
Before(x, y) == \E i \in 1 .. 3 : x[i] < y[i] /\ \A j \in 1 .. i - 1 : x[j] = y[j]
CopyPage(s, child, parent, va) ==
    IF s.frames = {} THEN [s EXCEPT !.ok = FALSE]
    ELSE LET f == Lowest(s.frames)
             g == pagedir_set_page([s EXCEPT !.byte[f] = s.byte[pagedir_get_page(s, parent, va)]],
                                   child, va, f, Pte(s, parent, va).w)
         IN IF g.ok THEN [g EXCEPT !.frames = @ \ {f}, !.want[child][va] = s.want[parent][va]] ELSE g
RECURSIVE CopyAll(_, _, _, _)
CopyAll(s, child, parent, todo) ==
    IF todo = {} \/ ~s.ok THEN s
    ELSE LET va == CHOOSE x \in todo : \A y \in todo \ {x} : Before(x, y)
         IN CopyAll(CopyPage(s, child, parent, va), child, parent, todo \ {va})
Mapped(s, pd) == {va \in Addresses : pagedir_get_page(s, pd, va) # Null}
pagedir_dup(s, child, parent) == CopyAll([s EXCEPT !.ok = TRUE], child, parent, Mapped(s, parent))

\* Null is the kernel's own table.
pagedir_activate(s, pd) == [s EXCEPT !.current = pd, !.tlb = [va \in Addresses |-> NoPte]]

(* The processor: a user's access by way of the TLB, or else by a walk that  *)
(* sets the flags it needs.  Byte 1 and 2 are written in turn.               *)
Cached(s, va) == s.tlb[va]
Walk(s, va, write) ==
    LET l == pagedir_lookup_pte(s, s.current, va, FALSE)
        e == [s.mem[l.got][va[3]] EXCEPT !.a = TRUE, !.d = @ \/ write]
    IN [s EXCEPT !.mem[l.got][va[3]] = e, !.tlb[va] = e]
UserWrites(va) ==
    LET hit == Cached(p, va).v /\ Cached(p, va).w /\ Cached(p, va).d
        e == IF hit THEN Cached(p, va) ELSE Pte(p, p.current, va)
        s == IF hit THEN p ELSE Walk(p, va, TRUE)
    IN /\ p.current # Null /\ (hit \/ (e.v /\ e.w))
       /\ p' = [s EXCEPT !.byte[e.to] = 3 - p.byte[e.to], !.want[p.current][va] = 3 - @, !.wrote[p.current] = @ \cup {va}]
UserReads(va) == /\ p.current # Null /\ ~Cached(p, va).v /\ Pte(p, p.current, va).v
                 /\ p' = Walk(p, va, FALSE)

(* ----------------------------------------------- the kernel's own steps *)
Made(s) == [s EXCEPT !.ops = @ - 1, !.got = Null, !.ok = TRUE]
Maps(pd, va, w) ==
    LET f == Lowest(p.frames)
        s == pagedir_set_page(p, pd, va, f, w)
    IN /\ Live(p, pd) /\ p.frames # {} /\ pagedir_get_page(p, pd, va) = Null
       /\ p' = Made(IF s.ok THEN [s EXCEPT !.frames = @ \ {f}, !.byte[f] = 1, !.want[pd][va] = 1] ELSE s)
Gone(s, pd, vas) == [s EXCEPT !.frames = @ \cup {pagedir_get_page(p, pd, va) : va \in vas},
                              !.want[pd] = [va \in Addresses |-> IF va \in vas THEN 0 ELSE @[va]], !.wrote[pd] = @ \ vas]
Unmaps(pd, va) == /\ Live(p, pd) /\ pagedir_get_page(p, pd, va) # Null
                  /\ p' = Made(Gone(pagedir_clear_page(p, pd, va), pd, {va}))
Flags(pd, va) == /\ Live(p, pd) /\ pagedir_get_page(p, pd, va) # Null
                 /\ \/ p' = Made([pagedir_set_dirty(p, pd, va, FALSE) EXCEPT !.wrote[pd] = @ \ {va}])
                    \/ p' = Made(pagedir_set_accessed(p, pd, va, FALSE))
                    \/ \E w \in BOOLEAN : p' = Made(pagedir_set_writable(p, pd, va, w))
Creates(pd) == ~Live(p, pd) /\ p' = Made(pagedir_create(p, pd))
Destroys(pd) == /\ Live(p, pd) /\ p.current # pd
                /\ p' = Made(Gone(pagedir_destroy(p, pd), pd, Mapped(p, pd)))
Forks(child, parent) == /\ Live(p, child) /\ Live(p, parent) /\ child # parent /\ Mapped(p, child) = {}
                        /\ p' = Made(pagedir_dup(p, child, parent))
Switches(pd) == /\ p.current # pd /\ (pd # Null => Live(p, pd))
                /\ p' = Made(pagedir_activate(p, pd))

Nothing == [free |-> 1 .. PtPages, frames |-> PtFrames, got |-> Null, ok |-> TRUE, current |-> Null, ops |-> MaxPtOps,
            mem |-> [t \in 1 .. PtPages |-> [i \in PtIndex |-> NoPte]], tlb |-> [va \in Addresses |-> NoPte],
            dir |-> [pd \in Dirs |-> NoDir], byte |-> [f \in PtFrames |-> 1],
            want |-> [pd \in Dirs |-> [va \in Addresses |-> 0]], wrote |-> [pd \in Dirs |-> {}]]
\* At boot, or once two processes have been started.
PtInit == \/ p = Nothing
          \/ \E a, b \in Dirs : a < b /\ p = [pagedir_create(pagedir_create(Nothing, a), b) EXCEPT !.got = Null]
PtNext == \/ \E va \in Addresses : UserWrites(va) \/ UserReads(va)
          \/ /\ p.ops > 0
             /\ \/ \E pd \in Dirs : Creates(pd) \/ Destroys(pd) \/ (\E par \in Dirs : Forks(pd, par))
                \/ \E pd \in Dirs \cup {Null} : Switches(pd)
                \/ \E pd \in Dirs, va \in Addresses : Unmaps(pd, va) \/ Flags(pd, va) \/ (\E w \in BOOLEAN : Maps(pd, va, w))

(* ------------------------------------------------------------- properties *)
\* A directory behaves as a map from pages to contents: what a process wrote,
\* or was given, or inherited, is what its tables lead to, and nothing else is
\* mapped (pagedir_lookup_pte, pagedir_set_page, pagedir_dup).
MapExact == \A pd \in Dirs, va \in Addresses :
                LET f == IF Live(p, pd) THEN pagedir_get_page(p, pd, va) ELSE Null
                IN p.want[pd][va] = IF f = Null THEN 0 ELSE p.byte[f]

\* Every page of the kernel's pool is free or part of one directory, also after a
\* call that ran out of pages half way (pagedir_create, pagedir_destroy).
TablesOwned ==
    LET Parts(pd) == IF Live(p, pd) THEN Tables(p, pd) \cup {p.dir[pd].upt, p.dir[pd].root} ELSE {}
    IN /\ \A x, y \in Dirs : x # y => Parts(x) \cap Parts(y) = {}
       /\ UNION {Parts(pd) : pd \in Dirs} = (1 .. PtPages) \ p.free

\* The TLB never grants what the tables do not: a page unmapped, taken by another
\* directory or made read-only is out of reach at once (sfence_vma_va).
TlbCoherent == \A va \in Addresses :
                   LET t == p.tlb[va]
                       e == Pte(p, p.current, va)
                   IN t.v => p.current # Null /\ e.v /\ t.to = e.to /\ (t.w => e.w)

\* A page written since its dirty bit was last cleared is found dirty, although a
\* write through the TLB does not touch the tables (pagedir_set_dirty).
WrittenIsDirty == \A pd \in Dirs : \A va \in p.wrote[pd] : Pte(p, pd, va).d

\* A page directory is a map from pages to contents that the TLB agrees with,
\* with exact dirty bits and no table leaked or shared (pagedir.c).
DirectoriesExact == MapExact /\ TablesOwned /\ TlbCoherent /\ WrittenIsDirty
=============================================================================
