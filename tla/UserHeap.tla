------------------------------ MODULE UserHeap ------------------------------
(***************************************************************************)
(* The heap of a user process (lib/user/malloc.c): arenas of one page for  *)
(* the size classes, a mapping of its own for a large block.  The threads  *)
(* of the process share it under malloc_lock, which malloc_init sets up at *)
(* the first call.  mmap_anon, munmap and the lock are the kernel's.       *)
(* What follows two concurrent malloc_inits is not modelled (raced).       *)
(***************************************************************************)
EXTENDS Integers, Sequences, FiniteSets

CONSTANTS HeapUsers, HeapPages,   \* threads; pages mmap_anon may give: 0 .. HeapPages - 1
          ARENA_SIZE, ARENA_HEADER, MMAP_HEADER,
          size_classes,           \* a sequence, smallest first
          HeapSizes, MaxHeapOps

VARIABLE h

MMAP_THRESHOLD == ARENA_SIZE
Absent == [page |-> -1, block |-> -1, size |-> 0]       \* a null pointer
IsNull(x) == x.page = -1
round_up_page(n) == ((n + ARENA_SIZE - 1) \div ARENA_SIZE) * ARENA_SIZE
NoArena == [class |-> 0, free |-> <<>>, count |-> 0]
Lengthen(s, x) == <<x>> \o s

(* The kernel: the lowest run of n pages, if there is one.                 *)
Runs(s, n) == {q \in s.unmapped : \A i \in 0 .. n - 1 : q + i \in s.unmapped}
mmap_anon(s, n) == IF Runs(s, n) = {} THEN [s EXCEPT !.got = -1]
                   ELSE LET q == CHOOSE x \in Runs(s, n) : \A y \in Runs(s, n) : x <= y
                        IN [s EXCEPT !.got = q, !.unmapped = @ \ (q .. q + n - 1)]

\* The index of the class, or 0 for -1.
find_size_class(size) == LET c == {i \in DOMAIN size_classes : size <= size_classes[i]}
                         IN IF c = {} THEN 0 ELSE CHOOSE i \in c : \A j \in c : i <= j
BlocksPer(c) == (ARENA_SIZE - ARENA_HEADER) \div size_classes[c]
alloc_arena(s, c) ==
    LET g == mmap_anon(s, 1)
        n == BlocksPer(c)
    IN IF g.got < 0 THEN g
       ELSE [g EXCEPT !.arena[g.got] = [class |-> c, free |-> [i \in 1 .. n |-> n - i], count |-> n],
                      !.arena_list[c] = Lengthen(@, g.got)]
\* malloc_small up to the block it finds: the arena's page and its free list.
NothingSeen == [page |-> -1, list |-> <<>>]
malloc_small(s, u, size) ==
    LET c == find_size_class(size)
        with == SelectSeq(s.arena_list[c], LAMBDA q : s.arena[q].count > 0)
        g == alloc_arena(s, c)
        sees(x, q) == [x EXCEPT !.t[u].at = "pop", !.t[u].seen = [page |-> q, list |-> x.arena[q].free]]
    IN IF c = 0 THEN s
       ELSE IF with # <<>> THEN sees(s, with[1])
       ELSE IF g.got < 0 THEN [g EXCEPT !.nomem = TRUE] ELSE sees(g, g.got)
Popped(s, seen, size) == [s EXCEPT !.arena[seen.page].free = Tail(seen.list), !.arena[seen.page].count = @ - 1,
                                   !.ptr = [page |-> seen.page, block |-> seen.list[1], size |-> size]]
malloc_large(s, size) ==
    LET n == round_up_page(size + MMAP_HEADER) \div ARENA_SIZE
        g == mmap_anon(s, n)
    IN IF g.got < 0 THEN [g EXCEPT !.nomem = TRUE]
       ELSE [g EXCEPT !.large[g.got] = n, !.ptr = [page |-> g.got, block |-> -1, size |-> size]]
is_mmap_allocation(s, x) == s.large[x.page] > 0

FreeBody(s, x) ==
    IF is_mmap_allocation(s, x)
    THEN [s EXCEPT !.large[x.page] = 0, !.unmapped = @ \cup (x.page .. x.page + s.large[x.page] - 1)]
    ELSE [s EXCEPT !.arena[x.page].free = Lengthen(@, x.block), !.arena[x.page].count = @ + 1]

(* ------------------------------------------------- the threads' steps *)
Idle == [at |-> "idle", size |-> 0, old |-> Absent, seen |-> NothingSeen]
CallAt(u, pc) == h.t[u].at = pc
Begin(u) == CallAt(u, "idle") /\ h.ops > 0 /\ ~h.raced
\* malloc's test of malloc_initialized; old is the block a realloc replaces.
Called(s, u, size, old) == [s EXCEPT !.t[u] = [Idle EXCEPT !.at = IF s.initialized THEN "lock" ELSE "init", !.size = size, !.old = old]]
UserMalloc(u, size) == /\ Begin(u)
                       /\ h' = IF size = 0 THEN [h EXCEPT !.ops = @ - 1] ELSE Called([h EXCEPT !.ops = @ - 1], u, size, Absent)
UserFree(u, x) == /\ Begin(u)
                  /\ h' = [h EXCEPT !.ops = @ - 1, !.mine[u] = @ \ {x}, !.t[u] = [Idle EXCEPT !.at = "lock", !.old = x]]
Capacity(s, x) == IF is_mmap_allocation(s, x) THEN s.large[x.page] * ARENA_SIZE - MMAP_HEADER ELSE size_classes[s.arena[x.page].class]
\* The same block if it is large enough, else a new one, and the old one is freed.
UserRealloc(u, x, size) ==
    /\ Begin(u) /\ size > 0
    /\ h' = LET s == [h EXCEPT !.ops = @ - 1]
            IN IF size <= Capacity(h, x) THEN [s EXCEPT !.mine[u] = (@ \ {x}) \cup {[x EXCEPT !.size = size]}]
               ELSE Called(s, u, size, x)
\* malloc_init looks again, and then sets up the lists and the lock.
malloc_init(u) ==
    \/ CallAt(u, "init") /\ h' = [h EXCEPT !.t[u].at = IF h.initialized THEN "lock" ELSE "init lists"]
    \/ CallAt(u, "init lists")
       /\ h' = [h EXCEPT !.t[u].at = "lock", !.initialized = TRUE, !.holder = {}, !.raced = @ \/ h.initialized,
                         !.arena_list = [c \in DOMAIN size_classes |-> <<>>]]
Lock(u) == CallAt(u, "lock") /\ ~h.raced /\ h.holder = {} /\ h' = [h EXCEPT !.holder = {u}, !.t[u].at = "body"]
\* malloc's return, after lock_release; realloc goes on to free the old block.
Unserved(size) == size > size_classes[Len(size_classes)] /\ size < MMAP_THRESHOLD
Returned(g, u) ==
    LET w == h.t[u]
        s == [g EXCEPT !.holder = {}, !.got = -1, !.ptr = Absent, !.nomem = FALSE]
    IN IF IsNull(g.ptr) THEN [s EXCEPT !.t[u] = Idle, !.unjust = @ \/ ~(g.nomem \/ Unserved(w.size))]
       ELSE IF IsNull(w.old) THEN [s EXCEPT !.t[u] = Idle, !.mine[u] = @ \cup {g.ptr}]
       ELSE [s EXCEPT !.t[u] = [Idle EXCEPT !.at = "lock", !.old = w.old], !.mine[u] = (@ \ {w.old}) \cup {g.ptr}]
\* The body under the lock; a small block is found first and taken then.
Body(u) ==
    LET w == h.t[u]
        g == IF w.size >= MMAP_THRESHOLD THEN malloc_large(h, w.size) ELSE malloc_small(h, u, w.size)
    IN /\ ~h.raced
       /\ \/ CallAt(u, "body") /\ h' = IF w.size = 0 THEN [FreeBody(h, w.old) EXCEPT !.holder = {}, !.t[u] = Idle]
                                    ELSE IF g.t[u].at = "pop" THEN [g EXCEPT !.got = -1] ELSE Returned(g, u)
          \/ CallAt(u, "pop") /\ h' = Returned(Popped(h, w.seen, w.size), u)

HeapInit ==
    h = [initialized |-> FALSE, holder |-> {}, arena_list |-> [c \in DOMAIN size_classes |-> <<>>],
         arena |-> [q \in 0 .. HeapPages - 1 |-> NoArena], large |-> [q \in 0 .. HeapPages - 1 |-> 0],
         unmapped |-> 0 .. HeapPages - 1, t |-> [u \in HeapUsers |-> Idle], mine |-> [u \in HeapUsers |-> {}],
         got |-> -1, ptr |-> Absent, nomem |-> FALSE, unjust |-> FALSE, raced |-> FALSE, ops |-> MaxHeapOps]
HeapNext == \E u \in HeapUsers :
              \/ malloc_init(u) \/ Lock(u) \/ Body(u)
              \/ \E size \in HeapSizes : UserMalloc(u, size)
              \/ \E x \in h.mine[u] : UserFree(u, x) \/ (\E size \in HeapSizes : UserRealloc(u, x, size))

(* ------------------------------------------------------------- properties *)
Owned == UNION {h.mine[u] : u \in HeapUsers}
First(x) == x.page * ARENA_SIZE + (IF x.block = -1 THEN MMAP_HEADER ELSE ARENA_HEADER + x.block * size_classes[h.arena[x.page].class])
Span(x) == First(x) .. First(x) + x.size - 1

\* No two blocks that threads hold share a byte, and every byte of a block is in
\* memory that is mapped (malloc.c: malloc_small, malloc_large, free).
HeapDisjoint == /\ \A x, y \in Owned : x # y => Span(x) \cap Span(y) = {}
                /\ \A x \in Owned : \A b \in Span(x) : b \div ARENA_SIZE \in (0 .. HeapPages - 1) \ h.unmapped
                /\ \A u, w \in HeapUsers : u # w => h.mine[u] \cap h.mine[w] = {}

\* The blocks of an arena are free or in use, once, and free_count is the number of
\* the free ones, over any sequence of malloc, free and realloc (malloc.c).
HeapExact ==
    /\ \A x \in h.unmapped : h.large[x] = 0 /\ h.arena[x].class = 0
    /\ \A q \in 0 .. HeapPages - 1 :
      LET a == h.arena[q]
          free == {a.free[i] : i \in DOMAIN a.free}
          used == {x.block : x \in {y \in Owned : y.page = q}}
          going == {h.t[u].old.block : u \in {w \in HeapUsers : h.t[w].size = 0 /\ h.t[w].old.page = q}}
      IN a.class > 0 => /\ a.count = Len(a.free) /\ a.count = Cardinality(free)
                        /\ free \cap (used \cup going) = {} /\ free \cup used \cup going = 0 .. BlocksPer(a.class) - 1

\* malloc answers NULL only when the kernel has no pages left, or for a size above
\* the last class and below MMAP_THRESHOLD, which neither path serves (malloc.c).
HeapAnswers == ~h.unjust

\* The user heap is exact: blocks do not overlap, arenas count their free blocks
\* and a request is refused only for want of pages (malloc.c).
UserHeapExact == HeapDisjoint /\ HeapExact /\ HeapAnswers
==============================================================================
