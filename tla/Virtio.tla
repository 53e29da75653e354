------------------------------- MODULE Virtio -------------------------------
(***************************************************************************)
(* The VirtIO block driver of the RISC-V port (arch/riscv64/virtio-blk.c)  *)
(* and its virtqueue (arch/riscv64/virtio.c).  The port does not preempt   *)
(* (intr_yield_on_return does nothing) and the driver polls, so that one   *)
(* request runs at a time; the device runs beside it.  The queue's indices *)
(* are 16-bit counters that wrap: here at IndexSpan.                       *)
(***************************************************************************)
EXTENDS Integers, Sequences, FiniteSets

CONSTANTS VIRTIO_RING_SIZE,
          IndexSpan,          \* where avail.idx, used.idx and last_used_idx wrap
          VirtioSlots,        \* the device slots that may be found at boot
          VirtioSectors, MaxVirtioOps

ASSUME VirtioAssumption == IndexSpan % VIRTIO_RING_SIZE = 0

VARIABLE v

EndMarker == -1
DescIndex == 0 .. VIRTIO_RING_SIZE - 1
NextIndex(i) == (i + 1) % IndexSpan

(* ------------------------------------------------------------- virtqueue *)
virtio_probe(s) == s.magic /\ s.version \in {1, 2} /\ s.device_id # "none"
\* The queue exists, and nobody has set it up before.
virtio_setup_queue(s) == s.max_size > 0 /\ ~s.ready
NewQueue == [next |-> [i \in DescIndex |-> IF i + 1 = VIRTIO_RING_SIZE THEN EndMarker ELSE i + 1],
             chain |-> [i \in DescIndex |-> FALSE], free_head |-> 0, num_free |-> VIRTIO_RING_SIZE,
             avail |-> [i \in DescIndex |-> 0], avail_idx |-> 0, used |-> [i \in DescIndex |-> 0], used_idx |-> 0,
             last_used_idx |-> 0]

virtio_alloc_desc(q) == IF q.num_free = 0 THEN [q |-> q, idx |-> -1]
                        ELSE [q |-> [q EXCEPT !.free_head = q.next[q.free_head], !.num_free = @ - 1], idx |-> q.free_head]
virtio_free_desc(q, i) == [q EXCEPT !.next[i] = q.free_head, !.chain[i] = FALSE, !.free_head = i, !.num_free = @ + 1]
RECURSIVE virtio_free_chain(_, _)
virtio_free_chain(q, i) ==
    LET f == virtio_free_desc(q, i) IN IF q.chain[i] THEN virtio_free_chain(f, q.next[i]) ELSE f

(* ------------------------------------------------------------ the driver *)
\* The first slot with a block device that takes no features and has a queue.
virtio_blk_init ==
    LET good == {i \in DOMAIN v.slots :
                   LET s == v.slots[i]
                   IN /\ virtio_probe(s) /\ s.device_id = "blk" /\ virtio_setup_queue(s)
                      /\ s.version = 2 => s.features_ok}
    IN /\ v.pc = "boot"
       /\ v' = IF good = {} THEN [v EXCEPT !.pc = "no device"] ELSE [v EXCEPT !.pc = "idle", !.q = NewQueue]

\* virtio_blk_rw up to virtio_submit: three descriptors, or none.
virtio_blk_rw(type, sector, data) ==
    LET a == virtio_alloc_desc(v.q)
        b == virtio_alloc_desc(a.q)
        c == virtio_alloc_desc(b.q)
        back(q, i) == IF i >= 0 THEN virtio_free_desc(q, i) ELSE q
    IN /\ v.pc = "idle" /\ v.ops > 0
       /\ v' = LET x == [v EXCEPT !.ops = @ - 1, !.req = [type |-> type, sector |-> sector], !.status = "none"]
               IN IF c.idx < 0 THEN [x EXCEPT !.q = back(back(back(c.q, a.idx), b.idx), c.idx), !.answer = "false"]
                  ELSE [x EXCEPT !.pc = "ring", !.buf = data, !.answer = "none", !.d = <<a.idx, b.idx, c.idx>>,
                              !.q = [c.q EXCEPT !.next = [@ EXCEPT ![a.idx] = b.idx, ![b.idx] = c.idx, ![c.idx] = 0],
                                                !.chain = [@ EXCEPT ![a.idx] = TRUE, ![b.idx] = TRUE, ![c.idx] = FALSE]]]
\* virtio_submit: first the ring's entry, then the index.
Submit == \/ v.pc = "ring" /\ v' = [v EXCEPT !.pc = "idx", !.q.avail[v.q.avail_idx % VIRTIO_RING_SIZE] = v.d[1]]
          \/ v.pc = "idx" /\ v' = [v EXCEPT !.pc = "poll", !.q.avail_idx = NextIndex(@)]
\* Mutant of virtio_poll: the device's verdict is not looked at.
PollTrusting ==
    /\ v.pc = "poll" /\ v.q.last_used_idx # v.q.used_idx
    /\ LET head == v.q.used[v.q.last_used_idx % VIRTIO_RING_SIZE]
       IN v' = [v EXCEPT !.pc = "idle", !.q = [virtio_free_chain(v.q, head) EXCEPT !.last_used_idx = NextIndex(@)],
                         !.answer = "true"]
\* virtio_poll once a request is in the used ring, and virtio_blk_rw's return.
virtio_poll ==
    /\ v.pc = "poll" /\ v.q.last_used_idx # v.q.used_idx
    /\ LET head == v.q.used[v.q.last_used_idx % VIRTIO_RING_SIZE]
       IN v' = [v EXCEPT !.pc = "idle", !.q = [virtio_free_chain(v.q, head) EXCEPT !.last_used_idx = NextIndex(@)],
                         !.answer = IF v.status = "ok" THEN "true" ELSE "false"]

(* ------------------------------------------------------------ the device *)
\* The device takes the next chain, which must be of three descriptors, serves
\* the request or fails it, and puts the chain into the used ring.
VirtioServe(ok) ==
    LET head == v.q.avail[v.seen % VIRTIO_RING_SIZE]
        whole == v.q.chain[head] /\ v.q.chain[v.q.next[head]] /\ ~v.q.chain[v.q.next[v.q.next[head]]]
        x == [v EXCEPT !.seen = NextIndex(@), !.q.used[v.q.used_idx % VIRTIO_RING_SIZE] = head,
                       !.q.used_idx = NextIndex(@)]
    IN /\ v.seen # v.q.avail_idx
       /\ v' = CASE ~ok \/ ~whole -> [x EXCEPT !.status = "error", !.broken = @ \/ ~whole]
                 [] v.req.type = "in" -> [x EXCEPT !.status = "ok", !.buf = v.media[v.req.sector]]
                 [] v.req.type = "out" -> [x EXCEPT !.status = "ok", !.media[v.req.sector] = v.buf]

VirtioInit ==
    \E slots \in VirtioSlots :
      v = [slots |-> slots, pc |-> "boot", q |-> NewQueue, seen |-> 0, req |-> [type |-> "in", sector |-> 0],
           status |-> "none", buf |-> 0, answer |-> "none", d |-> <<>>, ops |-> MaxVirtioOps, broken |-> FALSE,
           media |-> [s \in VirtioSectors |-> 0]]
VirtioNext == \/ virtio_blk_init \/ Submit \/ virtio_poll
              \/ \E ok \in BOOLEAN : VirtioServe(ok)
              \/ \E s \in VirtioSectors : virtio_blk_rw("in", s, 0) \/ \E w \in 1 .. 2 : virtio_blk_rw("out", s, w)

(* ------------------------------------------------------------- properties *)
FreeList == LET reach[n \in 0 .. VIRTIO_RING_SIZE] ==
                  IF n = 0 THEN <<>>
                  ELSE LET r == reach[n - 1]
                           i == IF r = <<>> THEN v.q.free_head ELSE v.q.next[r[Len(r)]]
                       IN Append(r, i)
            IN reach[v.q.num_free]

\* Every descriptor is on the free list or in the request's chain, once, and
\* between requests all are free: none is leaked by a failed request (virtio.c).
DescriptorsAccounted ==
    LET free == {FreeList[i] : i \in DOMAIN FreeList}
        busy == IF v.pc \in {"ring", "idx", "poll"} THEN {v.d[i] : i \in 1 .. 3} ELSE {}
    IN /\ Cardinality(free) = v.q.num_free /\ free \cap busy = {} /\ free \cup busy = DescIndex

\* The device never meets a chain that is not a whole request (virtio_submit).
ChainsWhole == ~v.broken

\* The driver never polls in vain: either the device still has the request, or
\* its answer is in the used ring (virtio_submit, virtio_poll).
PollAnswered == v.pc = "poll" => v.seen # v.q.avail_idx \/ v.q.last_used_idx # v.q.used_idx

\* A request that returns true was carried out, with wrapped indices too: the
\* buffer and the sector agree (virtio_blk_rw).
TransfersExact == v.pc = "idle" /\ v.answer = "true" => v.buf = v.media[v.req.sector]

\* The driver is exact: descriptors are never leaked, the device meets whole
\* requests only, no poll is in vain and a request that returns true was carried
\* out, with wrapped indices too (virtio.c, virtio-blk.c).
VirtioExact == DescriptorsAccounted /\ ChainsWhole /\ PollAnswered /\ TransfersExact
=============================================================================
