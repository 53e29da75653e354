------------------------------- MODULE Memory -------------------------------
(***************************************************************************)
(* Kernel memory: the page allocator (threads/palloc.c) on its bitmaps     *)
(* (lib/kernel/bitmap.c) and the block allocator on top (threads/malloc.c).*)
(* Pages are numbered; a pool is base .. base + size - 1.  Threads         *)
(* allocate under a descriptor's and a pool's lock, scan the bitmap one    *)
(* place at a time and set it one bit at a time; pages are freed without   *)
(* the pool's lock, one bit at a time.                                     *)
(***************************************************************************)
EXTENDS Integers, Sequences, FiniteSets, SequencesExt, FiniteSetsExt

CONSTANTS MemUsers,          \* threads that allocate
          FREE_PAGES, USER_PAGE_LIMIT,
          PGSIZE, HEADER,    \* sizes of a page and of struct arena
          MIN_BLOCK,         \* the smallest block size
          MemSizes,          \* the sizes asked for
          MaxMemOps          \* bound: operations

ASSUME MemoryAssumption == {PGSIZE, HEADER, MIN_BLOCK} \subseteq Nat \ {0} /\ HEADER + MIN_BLOCK <= PGSIZE

VARIABLE m

Free == "free"
NoBlock == [page |-> 0, idx |-> 0]
NoWork == [pc |-> "idle", size |-> 0, desc |-> 0, for |-> "none", pool |-> "kernel", cnt |-> 0, at |-> 0, bit |-> 0,
           old |-> NoBlock]

(* ------------------------------------------------------------ descriptors *)
\* The block sizes of malloc_init: doubled while below half a page.
Descs == {MIN_BLOCK * 2^i : i \in 0 .. 9} \cap 1 .. ((PGSIZE + 1) \div 2 - 1)
blocks_per_arena(d) == (PGSIZE - HEADER) \div d
desc_for(size) == IF \E d \in Descs : d >= size THEN Min({d \in Descs : d >= size}) ELSE 0
big_pages(size) == (size + HEADER + PGSIZE - 1) \div PGSIZE
\* A block is named by its arena's page and its index; a big one has index 0.
block_size(x, b) == LET a == x.arena[b.page] IN IF a.desc # 0 THEN a.desc ELSE PGSIZE * a.free_cnt - HEADER
ArenaBlocks(page, d) == [i \in 1 .. blocks_per_arena(d) |-> [page |-> page, idx |-> i]]

(* ------------------------------------------------------------------ pools *)
\* palloc_init and init_pool: a pool's first page holds its bitmap.
user_pages == Min({FREE_PAGES \div 2, USER_PAGE_LIMIT})
init_pool(base, pages) == [base |-> base + 1, size |-> pages - 1, used |-> {}, lock |-> Free]
palloc_init == [kernel |-> init_pool(0, FREE_PAGES - user_pages),
                user |-> init_pool(FREE_PAGES - user_pages, user_pages)]
page_from_pool(x, p, page) == page >= x.pool[p].base /\ page < x.pool[p].base + x.pool[p].size
pool_of(x, page) == IF page_from_pool(x, "kernel", page) THEN "kernel" ELSE "user"
Pages(w) == w.at .. w.at + w.cnt - 1

MemGo(x, t, pc) == [x EXCEPT !.th[t].pc = pc]
MemAt(t, pc) == m.th[t].pc = pc
MemFail(x, why) == [x EXCEPT !.kernel = why]

\* palloc_get_multiple: the lock, the scan, the bits, the lock.
PoolLock(t) ==
    LET p == m.th[t].pool
    IN /\ MemAt(t, "pool") /\ m.pool[p].lock = Free
       /\ m' = MemGo([m EXCEPT !.pool[p].lock = t, !.th[t].at = m.pool[p].base], t, "scan")
bitmap_scan(t) ==
    LET w == m.th[t]  P == m.pool[w.pool]
    IN /\ MemAt(t, "scan")
       /\ m' = IF w.at + w.cnt > P.base + P.size THEN MemGo([m EXCEPT !.pool[w.pool].lock = Free], t, "none")
               ELSE IF Pages(w) \cap P.used = {} THEN MemGo([m EXCEPT !.th[t].bit = 0], t, "set")
               ELSE [m EXCEPT !.th[t].at = @ + 1]
\* bitmap_set_multiple, of palloc_get_multiple and of palloc_free_multiple.
SetBit(t) ==
    LET w == m.th[t]
        x == [m EXCEPT !.pool[w.pool].used = @ \cup {w.at + w.bit}, !.th[t].bit = @ + 1]
    IN /\ MemAt(t, "set")
       /\ m' = IF w.bit + 1 = w.cnt THEN MemGo([x EXCEPT !.pool[w.pool].lock = Free], t, "got") ELSE x
ClearBit(t) ==
    LET w == m.th[t]
    IN /\ MemAt(t, "clear")
       /\ m' = MemGo([m EXCEPT !.pool[w.pool].used = @ \ {w.at + w.bit}, !.th[t].bit = @ + 1],
                     t, IF w.bit + 1 = w.cnt THEN "cleared" ELSE "clear")
\* palloc_free_multiple, up to its first bit.
palloc_free(x, t, page, cnt) ==
    LET p == pool_of(x, page)
    IN IF \A q \in page .. page + cnt - 1 : q \in x.pool[p].used
       THEN MemGo([x EXCEPT !.th[t].pool = p, !.th[t].at = page, !.th[t].cnt = cnt, !.th[t].bit = 0], t, "clear")
       ELSE MemFail(x, "freed twice")

(* -------------------------------------------------------- malloc and free *)
\* A call returns: block b, if there is one, is the caller's, and a realloc
\* that got a block goes on to free the old one.
Finish(x, t, b) ==
    LET w == x.th[t]
        y == IF b = NoBlock THEN x ELSE [x EXCEPT !.held[t] = @ \cup {b}, !.size = @ \cup {<<b, w.size>>}]
    IN IF b # NoBlock /\ w.old # NoBlock THEN [y EXCEPT !.th[t] = [NoWork EXCEPT !.pc = "release", !.old = w.old]]
       ELSE [y EXCEPT !.th[t] = NoWork]
Unlock(x, t) == IF x.th[t].desc = 0 THEN x ELSE [x EXCEPT !.lock[x.th[t].desc] = Free]
\* The first free block of the descriptor, whose lock is then released.
PopBlock(x, t) ==
    LET d == x.th[t].desc  b == Head(x.list[d])
    IN Finish(Unlock([x EXCEPT !.list[d] = Tail(@), !.arena[b.page].free_cnt = @ - 1], t), t, b)

malloc(t, size, old) ==
    /\ m' = LET d == desc_for(size)
                w == [NoWork EXCEPT !.size = size, !.desc = d, !.old = old]
            IN [m EXCEPT !.ops = @ - 1,
                         !.th[t] = IF d # 0 THEN [w EXCEPT !.pc = "desc", !.for = "arena", !.cnt = 1]
                                   ELSE [w EXCEPT !.pc = "pool", !.for = "big", !.cnt = big_pages(size)]]
DescLock(t) ==
    LET d == m.th[t].desc  x == [m EXCEPT !.lock[d] = t]
    IN /\ MemAt(t, "desc") /\ m.lock[d] = Free
       /\ m' = IF m.list[d] = <<>> THEN MemGo(x, t, "pool") ELSE PopBlock(x, t)
\* The pages are there: the arena is set up, or they go to the caller.
GotPages(t) ==
    LET w == m.th[t]
        arena(d, n) == [m EXCEPT !.arena = [p \in DOMAIN @ \cup {w.at} |->
                                            IF p = w.at THEN [desc |-> d, free_cnt |-> n] ELSE @[p]]]
    IN /\ MemAt(t, "got")
       /\ m' = CASE w.for = "user" -> Finish(m, t, [page |-> w.at, idx |-> -1])
                 [] w.for = "big" -> Finish(arena(0, w.cnt), t, [page |-> w.at, idx |-> 0])
                 [] w.for = "arena" ->
                      PopBlock([arena(w.desc, blocks_per_arena(w.desc)) EXCEPT
                                  !.list[w.desc] = @ \o ArenaBlocks(w.at, w.desc)], t)
NoPages(t) == MemAt(t, "none") /\ m' = Finish(Unlock(m, t), t, NoBlock)

Drop(x, t, b) == [x EXCEPT !.held[t] = @ \ {b}, !.size = {e \in @ : e[1] # b}]
Forget(x, page) == [x EXCEPT !.arena = [p \in DOMAIN @ \ {page} |-> @[p]]]
\* Mutant of FreeBlock: the arena's other blocks stay on the free list.
FreeBlockLeavesRest(x, t, b) ==
    LET a == x.arena[b.page]
    IN IF a.free_cnt + 1 < blocks_per_arena(a.desc)
       THEN [x EXCEPT !.list[a.desc] = <<b>> \o @, !.arena[b.page].free_cnt = @ + 1, !.th[t] = NoWork]
       ELSE palloc_free([Forget(x, b.page) EXCEPT !.lock[a.desc] = t, !.th[t].desc = a.desc], t, b.page, 1)
\* With the descriptor's lock: the block goes back, and so does an empty arena.
FreeBlock(x, t, b) ==
    LET a == x.arena[b.page]
    IN IF a.free_cnt + 1 < blocks_per_arena(a.desc)
       THEN [x EXCEPT !.list[a.desc] = <<b>> \o @, !.arena[b.page].free_cnt = @ + 1, !.th[t] = NoWork]
       ELSE palloc_free([Forget(x, b.page) EXCEPT !.list[a.desc] = SelectSeq(@, LAMBDA e : e.page # b.page),
                                                  !.lock[a.desc] = t, !.th[t].desc = a.desc], t, b.page, 1)
\* free(p), and palloc_free_page of a user page; the caller gives b up first.
free(t, b) == m' = [Drop(m, t, b) EXCEPT !.ops = @ - 1, !.th[t].pc = "release", !.th[t].old = b]
ReleaseBlock(t) ==
    LET b == m.th[t].old
        x == Drop(m, t, b)
    IN /\ MemAt(t, "release")
       /\ CASE b.idx = -1 -> m' = palloc_free(x, t, b.page, 1)
            [] b.idx = 0 -> m' = palloc_free(Forget(x, b.page), t, b.page, m.arena[b.page].free_cnt)
            [] b.idx > 0 -> m.lock[m.arena[b.page].desc] = Free /\ m' = FreeBlock(x, t, b)
Cleared(t) == MemAt(t, "cleared") /\ m' = [Unlock(m, t) EXCEPT !.th[t] = NoWork]
\* A zero size frees the block; the copy of realloc is within both blocks.
realloc(t, b, size) == IF size = 0 THEN free(t, b) ELSE malloc(t, size, b)

(* ---------------------------------------------------------- specification *)
MemInit == m = [pool |-> palloc_init, arena |-> [p \in {} |-> 0], list |-> [d \in Descs |-> <<>>],
                lock |-> [d \in Descs |-> Free], held |-> [t \in MemUsers |-> {}], size |-> {},
                th |-> [t \in MemUsers |-> NoWork], ops |-> MaxMemOps, kernel |-> "up"]
MemStep(t) == \/ PoolLock(t) \/ bitmap_scan(t) \/ SetBit(t) \/ ClearBit(t) \/ DescLock(t) \/ GotPages(t)
              \/ NoPages(t) \/ ReleaseBlock(t) \/ Cleared(t)
MemCall(t) ==
    \/ \E size \in MemSizes \ {0} : malloc(t, size, NoBlock)
    \/ m' = [m EXCEPT !.ops = @ - 1, !.th[t] = [NoWork EXCEPT !.pc = "pool", !.for = "user", !.pool = "user", !.cnt = 1]]
    \/ \E b \in m.held[t] : free(t, b) \/ (b.idx >= 0 /\ \E size \in MemSizes : realloc(t, b, size))
MemNext == /\ m.kernel = "up"
           /\ \E t \in MemUsers : MemStep(t) \/ (MemAt(t, "idle") /\ m.ops > 0 /\ MemCall(t))

(* ------------------------------------------------------------- properties *)
HeldBlocks == UNION {m.held[t] : t \in MemUsers}
PagesOf(b) == IF b.idx = 0 THEN b.page .. b.page + m.arena[b.page].free_cnt - 1 ELSE {b.page}

\* A pool's pages are its own, and locks are held by threads in a call.
MemTypeOK == /\ \A p \in {"kernel", "user"} : \A q \in m.pool[p].used : page_from_pool(m, p, q)
             /\ \A d \in Descs : m.lock[d] # Free => ~MemAt(m.lock[d], "idle")

\* A page belongs to one arena, big block or user at a time, and its bit is set
\* as long as it does, though pages are freed without the lock (palloc.c).
PagesOnce ==
    LET arenas == {p \in DOMAIN m.arena : m.arena[p].desc # 0}
        owned == {PagesOf(b) : b \in {c2 \in HeldBlocks : c2.idx <= 0}} \cup {{p} : p \in arenas}
        got == {t \in MemUsers : MemAt(t, "got")}
    IN /\ \A P, Q \in owned : P # Q => P \cap Q = {}
       /\ \A P \in owned : P \subseteq m.pool[pool_of(m, Min(P))].used
       /\ \A t \in got : Pages(m.th[t]) \cap (UNION owned \cup UNION {Pages(m.th[u]) : u \in got \ {t}}) = {}

\* A block is free or held, once, and lies in an arena of its size (malloc.c).
BlocksOnce ==
    \A d \in Descs :
      /\ Cardinality(Range(m.list[d])) = Len(m.list[d])
      /\ \A b \in Range(m.list[d]) : b \notin HeldBlocks /\ b.page \in DOMAIN m.arena /\ m.arena[b.page].desc = d

\* An arena's free count is the number of its blocks on the free list, and an
\* arena whose blocks are all free has gone back to the page allocator.
ArenasExact ==
    \A p \in DOMAIN m.arena :
      LET a == m.arena[p]
      IN a.desc # 0 => /\ a.free_cnt = Cardinality({i \in 1 .. Len(m.list[a.desc]) : m.list[a.desc][i].page = p})
                       /\ a.free_cnt < blocks_per_arena(a.desc)

\* Between calls every page in use is held or an arena's: none is leaked by a
\* failed allocation, a realloc or a free (malloc.c, palloc.c).
NoPageLeaked ==
    (\A t \in MemUsers : MemAt(t, "idle")) =>
      m.pool.kernel.used \cup m.pool.user.used
        = UNION {PagesOf(b) : b \in HeldBlocks}

\* A block is at least as large as it was asked to be (malloc, realloc).
BlocksFit == \A e \in m.size : e[1].idx = -1 \/ block_size(m, e[1]) >= e[2]

\* No page is freed that is not in use (palloc_free_multiple's assertion).
NothingFreedTwice == m.kernel = "up"

\* The kernel's allocators are exact: a page or block has one owner, fits what
\* was asked, is never leaked or freed twice, and arenas count their free blocks
\* (palloc.c, malloc.c).
KernelHeapExact == /\ MemTypeOK /\ PagesOnce /\ BlocksOnce /\ ArenasExact
                   /\ NoPageLeaked /\ BlocksFit /\ NothingFreedTwice
=============================================================================
