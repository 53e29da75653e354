-------------------------------- MODULE Net --------------------------------
(***************************************************************************)
(* The network stack: packet buffers (src/net/buf/pbuf.c), Ethernet and ARP*)
(* (net/link), IP and ICMP (net/inet), the device layer, the loopback and  *)
(* the E1000 drivers (net/driver) and the input thread (net/net.c).        *)
(*                                                                         *)
(* The stack is one record n and a C function one operator on it.  An      *)
(* action is what a thread does between two points where another one can   *)
(* see or change what it uses: arp_lock, the descriptor semaphore, the     *)
(* device queues.  Thread 0 is net_input_thread, the others send pings.    *)
(* A packet is its headers' meaning: kind, source, destination and, once   *)
(* framed, the destination MAC; a host's MAC is named by its IP address.   *)
(* Peers answer, stay silent or speak first; frames may be lost.           *)
(***************************************************************************)
EXTENDS Integers, Sequences, FiniteSets, Bags, SequencesExt, FiniteSetsExt

CONSTANTS MaxApp,      \* bound: threads that call icmp_echo_request
          MaxPbuf,     \* bound: packet buffers ever in use at once
          MaxPending,  \* ARP_MAX_PENDING
          Ring,        \* E1000_TX_RING_SIZE and E1000_RX_RING_SIZE
          OnLink,      \* peers in the device's subnet
          Gateway,     \* the device's gateway, one of them
          NetSystems   \* the systems to look at: see module MCNet

ASSUME NetAssumption == /\ {MaxApp, MaxPbuf, MaxPending} \subseteq Nat \ {0}
                        /\ \A s \in NetSystems : s.ARP_CACHE_SIZE \in Nat \ {0}
                        /\ Ring \in Nat /\ Ring > 1 /\ Gateway \in OnLink

Thread == 0 .. MaxApp
None == -1
Pbuf == 1 .. MaxPbuf
Us == "us"
Lo == "lo"
Bcast == "bcast"
PBUF_RAW == 0
ETH_HEADER_LEN == 14
IP_HEADER_LEN == 20

layer_header_size == [IP |-> 34, LINK |-> 14, RAW |-> PBUF_RAW]

VARIABLE n

NoMsg == [k |-> "none", src |-> Us, dst |-> Us, mac |-> Us]
NoPbuf == [ref |-> 0, room |-> 0, m |-> NoMsg]
NoArp == [ip |-> Us, mac |-> Us, st |-> "EMPTY", pend |-> <<>>]
Idle == [pc |-> "idle", p |-> 0, nh |-> Us, mac |-> Us]

Odd(x, why) == [x EXCEPT !.odd = @ \cup {why}]
Goto(x, t, l) == [x EXCEPT !.th[t].pc = l]
\* The thread is through with its packet: an app returns, the input thread polls.
Done(x, t) == [x EXCEPT !.th[t] = [Idle EXCEPT !.pc = IF t = 0 THEN "poll" ELSE "idle"]]
\* malloc fails while the system has failures left.
Outcomes == IF n.faults > 0 THEN BOOLEAN ELSE {TRUE}
Spend(x, ok) == IF ok THEN x ELSE [x EXCEPT !.faults = @ - 1]

(* --------------------------------------------------------- packet buffers *)
FreePbufs(x) == {p \in Pbuf : x.pb[p].ref = 0 /\ x.held[p] = {}}
NewPbuf(x) == Min(FreePbufs(x))
pbuf_alloc(x, layer, m) ==
    [x EXCEPT !.pb[NewPbuf(x)] = [ref |-> 1, room |-> layer_header_size[layer], m |-> m]]

\* held: which threads still have the address of p, to read it once more.
pbuf_free(x, p) ==
    IF x.pb[p].ref = 0 THEN Odd(x, "freed twice")
    ELSE IF x.pb[p].ref = 1 THEN [x EXCEPT !.pb[p] = NoPbuf, !.owed[p] = 0]
    ELSE [x EXCEPT !.pb[p].ref = @ - 1]
pbuf_ref(x, p) == [x EXCEPT !.pb[p].ref = @ + 1]
HasRoom(x, p, h) == x.pb[p].room >= h
\* pbuf_header: a negative delta takes headroom, a positive one gives it back.
pbuf_header(x, p, delta) == [x EXCEPT !.pb[p].room = @ + delta]

(* ---------------------------------------------------------------- devices *)
\* The receive queue of a device; without memory for the entry the packet goes.
netdev_input(x, q, p, ok) ==
    IF ok THEN [x EXCEPT ![q] = Append(@, p)] ELSE pbuf_free(Spend(x, ok), p)

\* e1000_transmit once tx_sem is down: the descriptor at TDT, which the
\* adapter sends at once; the packet stays in tx_bufs.
e1000_transmit(x, p) ==
    LET y == IF x.txbufs[x.tdt] # 0 THEN Odd(x, "overwritten") ELSE x
    IN [y EXCEPT !.txsem = @ - 1, !.txbufs[x.tdt] = p, !.tdt = (@ + 1) % Ring,
                 !.wire = @ (+) SetToBag({x.pb[p].m})]

\* One turn of the loop.  tx_tail is never written: it is never taken.
e1000_reclaim_tx(x) ==
    IF x.txhead = x.txtail THEN x
    ELSE [pbuf_free(x, x.txbufs[x.txhead]) EXCEPT
            !.txbufs[x.txhead] = 0, !.txhead = (@ + 1) % Ring, !.txsem = @ + 1]

\* ethernet_output and netdev_transmit; the guard is tx_sem.
CanSend(x) == x.txsem > 0
ethernet_output(x, p, mac) ==
    IF ~HasRoom(x, p, ETH_HEADER_LEN) THEN Odd(pbuf_free(x, p), "no room")
    ELSE e1000_transmit([pbuf_header(x, p, -ETH_HEADER_LEN) EXCEPT !.pb[p].m.mac = mac], p)

(* -------------------------------------------------------------------- ARP *)
\* Mutant of arp_find_entry: any entry in use will do.
FindAny(x, ip) ==
    LET hit == {i \in DOMAIN x.cache : x.cache[i].st # "EMPTY"}
    IN IF hit = {} THEN 0 ELSE Min(hit)

\* order lists the entries from the one that expires first.
arp_find_entry(x, ip) ==
    LET hit == {i \in DOMAIN x.cache : x.cache[i].st # "EMPTY" /\ x.cache[i].ip = ip}
    IN IF hit = {} THEN 0 ELSE Min(hit)
Victim(x) ==
    LET empty == {i \in DOMAIN x.cache : x.cache[i].st = "EMPTY"}
    IN IF empty # {} THEN Min(empty) ELSE Head(x.order)
arp_alloc_entry(x) ==
    LET i == Victim(x)
        y == FoldLeft(pbuf_free, x, x.cache[i].pend)
    IN [y EXCEPT !.cache[i].pend = <<>>]
\* expire_time is set: the entry is now the last to expire.
Refreshed(x, i) == [x EXCEPT !.order = Append(SelectSeq(@, LAMBDA j : j # i), i)]

\* arp_send_request and arp_send_reply, when pbuf_alloc succeeds.
arp_send(x, k, ip, mac) ==
    LET m == [k |-> k, src |-> Us, dst |-> ip, mac |-> mac]
    IN ethernet_output(pbuf_alloc(x, "LINK", m), NewPbuf(x), mac)

arp_resolve(x, t) ==
    LET nh == x.th[t].nh
        i == arp_find_entry(x, nh)
        v == Victim(x)
    IN IF i = 0
       THEN Goto(Refreshed([arp_alloc_entry(x) EXCEPT !.cache[v].ip = nh, !.cache[v].st = "PENDING"], v), t, "request")
       ELSE IF x.cache[i].st = "VALID" THEN [x EXCEPT !.th[t].mac = x.cache[i].mac, !.th[t].pc = "xmit"]
       ELSE Goto(x, t, "queue")

\* Mutant of arp_queue_packet: the queue takes no reference of its own.
QueueUnreferenced(x, t, ok) ==
    LET i == arp_find_entry(x, x.th[t].nh)
        p == x.th[t].p
    IN IF i = 0 \/ x.cache[i].st # "PENDING" THEN pbuf_free(x, p)
       ELSE [x EXCEPT !.cache[i].pend = Append(@, p), !.owed[p] = @ + 1]

\* The reference that the caller has is not given back when the packet is
\* queued: it is owed from then on.
arp_queue_packet(x, t, ok) ==
    LET i == arp_find_entry(x, x.th[t].nh)
        p == x.th[t].p
        full == Len(x.cache[i].pend) >= MaxPending
        y == IF full THEN [pbuf_free(x, Head(x.cache[i].pend)) EXCEPT !.cache[i].pend = Tail(@)] ELSE x
    IN IF i = 0 \/ x.cache[i].st # "PENDING" THEN pbuf_free(x, p)
       ELSE IF ~ok THEN pbuf_free(Spend(y, ok), p)
       ELSE [pbuf_ref(y, p) EXCEPT !.cache[i].pend = Append(@, p), !.owed[p] = @ + 1]

(* --------------------------------------------------------------------- IP *)
ip_is_local(ip) == ip \in {Us, Lo}
ip_is_broadcast(ip) == ip = Bcast
NextHop(dst) == IF dst \in OnLink THEN dst ELSE Gateway

\* ip_output to the point where it needs arp_lock or a descriptor.
ip_output(x, t, p, dev, src, dst, ok) ==
    LET y == [pbuf_header(x, p, -IP_HEADER_LEN) EXCEPT
                !.pb[p].m.src = src, !.pb[p].m.dst = dst, !.th[t].p = p, !.th[t].nh = NextHop(dst)]
    IN IF ~HasRoom(x, p, IP_HEADER_LEN) THEN Done(Odd(pbuf_free(x, p), "no room"), t)
       ELSE IF dev = Lo THEN Goto([netdev_input(y, "loq", p, ok) EXCEPT !.held[p] = @ \cup {t}], t, "stats")
       ELSE IF ip_is_broadcast(dst) THEN [y EXCEPT !.th[t].mac = Bcast, !.th[t].pc = "xmit"]
       ELSE Goto(y, t, "resolve")

\* icmp_echo_request: the device is the loopback for its own address.
Ping(t) ==
    /\ t # 0 /\ n.th[t].pc = "idle" /\ n.left > 0 /\ FreePbufs(n) # {}
    /\ \E dst \in n.sys.dsts, got \in Outcomes, ok \in Outcomes :
         LET x == [n EXCEPT !.left = @ - 1]
             p == NewPbuf(x)
             m == [NoMsg EXCEPT !.k = "echo"]
         IN /\ got \/ ok
            /\ ok \/ dst = Lo
            /\ n' = IF ~got THEN Spend(x, got)
                    ELSE ip_output(pbuf_alloc(x, "IP", m), t, p, dst, IF dst = Lo THEN Lo ELSE Us, dst, ok)

Resolve(t) == n.th[t].pc = "resolve" /\ n.alock = None /\ n' = arp_resolve(n, t)

Request(t) ==
    /\ n.th[t].pc = "request" /\ FreePbufs(n) # {}
    /\ \E got \in Outcomes :
         IF got THEN CanSend(n) /\ n' = Goto(arp_send(n, "arp request", n.th[t].nh, Bcast), t, "queue")
         ELSE n' = Goto(Spend(n, got), t, "queue")

Queue(t) ==
    /\ n.th[t].pc = "queue" /\ n.alock = None
    /\ \E ok \in Outcomes : n' = Done(arp_queue_packet(n, t, ok), t)

Xmit(t) ==
    /\ n.th[t].pc = "xmit" /\ CanSend(n)
    /\ LET x == ethernet_output(n, n.th[t].p, n.th[t].mac) IN
       n' = Goto([x EXCEPT !.held[n.th[t].p] = @ \cup {t}], t, "stats")

\* The end of netdev_transmit: tx_bytes += p->tot_len.
Stats(t) ==
    /\ n.th[t].pc = "stats"
    /\ LET p == n.th[t].p
           x == IF n.pb[p].ref = 0 THEN Odd(n, "read after free") ELSE n
       IN n' = Done([x EXCEPT !.held[p] = @ \ {t}], t)

(* ------------------------------------------------------------------ input *)

\* e1000_poll: one received frame becomes a packet of the device's queue.
PollOne ==
    /\ n.th[0].pc = "poll" /\ n.rx[n.rxtail] # NoMsg /\ FreePbufs(n) # {}
    /\ \E got \in Outcomes, ok \in Outcomes :
         LET x == [n EXCEPT !.rx[n.rxtail] = NoMsg, !.rdt = n.rxtail, !.rxtail = (@ + 1) % Ring]
         IN /\ got \/ ok
            /\ n' = IF ~got THEN Spend(x, got)
                    ELSE netdev_input(pbuf_alloc(x, "RAW", n.rx[n.rxtail]), "ethq", NewPbuf(x), ok)

PollDone == n.th[0].pc = "poll" /\ n.rx[n.rxtail] = NoMsg /\ n' = Goto(e1000_reclaim_tx(n), 0, "input")

\* icmp_input: an echo request is turned round in the same buffer.
icmp_input(x, p, dev, ok) ==
    IF x.pb[p].m.k # "echo" THEN Done(pbuf_free(x, p), 0)
    ELSE ip_output([x EXCEPT !.pb[p].m.k = "echo reply"], 0, p, dev, x.pb[p].m.dst, x.pb[p].m.src, ok)

\* "bad" stands for each of the malformed headers, "udp" for TCP and UDP.
ip_input(x, p, dev, ok) ==
    LET m == x.pb[p].m IN
    IF m.k = "bad" \/ ~(ip_is_local(m.dst) \/ ip_is_broadcast(m.dst)) \/ m.k = "udp" THEN Done(pbuf_free(x, p), 0)
    ELSE icmp_input(pbuf_header(x, p, IP_HEADER_LEN), p, dev, ok)

LoIn ==
    /\ n.th[0].pc = "input" /\ n.loq # <<>>
    /\ \E ok \in Outcomes :
         LET x == [n EXCEPT !.loq = Tail(@)]
         IN /\ ok \/ n.pb[Head(n.loq)].m.k = "echo"
            /\ n' = ip_input(x, Head(n.loq), Lo, ok)

\* Mutant of arp_input: the sender is learnt, its pending packets are not sent.
InputLearnsOnly(x, p) ==
    LET m == x.pb[p].m
        i == arp_find_entry(x, m.src)
    IN [x EXCEPT !.cache = IF i = 0 THEN @ ELSE [@ EXCEPT ![i].mac = m.src],
                 !.th[0].p = p, !.th[0].nh = m.src, !.th[0].pc = "answer"]

\* arp_input under arp_lock, which is kept while the pending packets go out.
arp_input(x, p) ==
    LET m == x.pb[p].m
        i == arp_find_entry(x, m.src)
        v == Victim(x)
        Learn(y, j) == Refreshed([y EXCEPT !.cache[j].ip = m.src, !.cache[j].mac = m.src, !.cache[j].st = "VALID"], j)
        y == IF i # 0 THEN [Learn(x, i) EXCEPT !.alock = 0]
             ELSE IF m.dst = Us THEN Learn(arp_alloc_entry(x), v) ELSE x
    IN [y EXCEPT !.th[0].p = p, !.th[0].nh = m.src, !.th[0].pc = IF i # 0 THEN "pending" ELSE "answer"]

\* ethernet_input of the next packet of the device.
EthIn ==
    /\ n.th[0].pc = "input" /\ n.loq = <<>> /\ n.ethq # <<>>
    /\ LET p == Head(n.ethq)
           m == n.pb[p].m
           x == pbuf_header([n EXCEPT !.ethq = Tail(@)], p, ETH_HEADER_LEN)
       IN IF m.mac \notin {Us, Bcast} \/ m.k = "other" THEN n' = Done(pbuf_free(x, p), 0)
          ELSE IF m.k \in {"arp request", "arp reply"} THEN n.alock = None /\ n' = arp_input(x, p)
          ELSE n' = ip_input(x, p, "eth", TRUE)

\* Nothing to do: timer_msleep, then poll again.
Sleep == n.th[0].pc = "input" /\ n.loq = <<>> /\ n.ethq = <<>> /\ n' = Goto(n, 0, "poll")

\* arp_send_pending, one packet at a time.
SendPending ==
    LET i == arp_find_entry(n, n.th[0].nh) IN
    /\ n.th[0].pc = "pending"
    /\ IF n.cache[i].pend = <<>> THEN n' = [n EXCEPT !.alock = None, !.th[0].pc = "answer"]
       ELSE /\ CanSend(n)
            /\ n' = ethernet_output([n EXCEPT !.cache[i].pend = Tail(@)], Head(n.cache[i].pend), n.cache[i].mac)

Answer ==
    /\ n.th[0].pc = "answer"
    /\ LET p == n.th[0].p
           m == n.pb[p].m
       IN IF m.k = "arp request" /\ m.dst = Us
          THEN /\ FreePbufs(n) # {}
               /\ \E got \in Outcomes :
                    IF got THEN CanSend(n) /\ n' = Done(pbuf_free(arp_send(n, "arp reply", m.src, m.src), p), 0)
                    ELSE n' = Done(pbuf_free(Spend(n, got), p), 0)
          ELSE n' = Done(pbuf_free(n, p), 0)

(* ----------------------------------------------------- adapter and peers *)
\* The adapter stores a frame at its head, short of RDT.
Stored(x, m) == [x EXCEPT !.rx[x.rxhead] = m, !.rxhead = (@ + 1) % Ring]
CanStore(x) == x.rxhead # x.rdt

\* What the host with that MAC answers, if anything.
Answers(m) ==
    IF m.k = "arp request" /\ m.dst \in OnLink THEN {[k |-> "arp reply", src |-> m.dst, dst |-> Us, mac |-> Us]}
    ELSE IF m.k = "echo" /\ m.mac \in OnLink THEN {[k |-> "echo reply", src |-> m.dst, dst |-> m.src, mac |-> Us]}
    ELSE {}
Peer ==
    \E f \in BagToSet(n.wire) :
      LET x == [n EXCEPT !.wire = @ (-) SetToBag({f})] IN
      IF Answers(f) = {} THEN n' = x
      ELSE CanStore(x) /\ \E m \in Answers(f) : n' = Stored(x, m)

Lose == /\ n.loss > 0
        /\ \E f \in BagToSet(n.wire) : n' = [n EXCEPT !.wire = @ (-) SetToBag({f}), !.loss = @ - 1, !.lost = TRUE]

\* A peer speaks first; each of the system's frames once.
Speak == \E m \in n.say : CanStore(n) /\ n' = [Stored(n, m) EXCEPT !.say = @ \ {m}]

(* ---------------------------------------------------------- specification *)
e1000_tx_init == [txsem |-> Ring, tdt |-> 0, txhead |-> 0, txtail |-> 0, txbufs |-> [i \in 0 .. Ring - 1 |-> 0]]
e1000_rx_init == [rx |-> [i \in 0 .. Ring - 1 |-> NoMsg], rxhead |-> 0, rxtail |-> 0, rdt |-> Ring - 1]
arp_init(size) == [cache |-> [i \in 1 .. size |-> NoArp], order |-> <<>>, alock |-> None]
netdev_register == [loq |-> <<>>, ethq |-> <<>>]
net_start == [th |-> [t \in Thread |-> IF t = 0 THEN [Idle EXCEPT !.pc = "poll"] ELSE Idle]]
\* net_init, then net_configure, which announces the address, and net_start.
net_init(sys) ==
    [sys |-> sys, faults |-> sys.faults, loss |-> sys.loss, lost |-> FALSE, say |-> sys.say, left |-> sys.acts,
     pb |-> [p \in Pbuf |-> NoPbuf], owed |-> [p \in Pbuf |-> 0], held |-> [p \in Pbuf |-> {}],
     wire |-> EmptyBag, odd |-> {}]
    @@ netdev_register @@ arp_init(sys.ARP_CACHE_SIZE) @@ e1000_tx_init @@ e1000_rx_init @@ net_start
arp_announce(x) == [arp_send(x, "arp request", Us, Bcast) EXCEPT !.wire = EmptyBag]
NetInit == \E sys \in NetSystems : n = arp_announce(net_init(sys))

Output(t) == Resolve(t) \/ Request(t) \/ Queue(t) \/ Xmit(t) \/ Stats(t)
Input == PollOne \/ PollDone \/ LoIn \/ EthIn \/ Sleep \/ SendPending \/ Answer
NetNext == Input \/ Peer \/ Lose \/ Speak \/ \E t \in Thread : Ping(t) \/ Output(t)
(* ------------------------------------------------------------- properties *)
\* The references to p that some queue, ring or thread will give back.
Holding == {"resolve", "request", "queue", "xmit", "pending", "answer"}
Holders(p) ==
    LET In(q) == Cardinality({i \in DOMAIN q : q[i] = p})
    IN In(n.loq) + In(n.ethq) + In(n.txbufs)
       + Cardinality({c \in DOMAIN n.cache : \E i \in DOMAIN n.cache[c].pend : n.cache[c].pend[i] = p})
       + Cardinality({t \in Thread : n.th[t].pc \in Holding /\ n.th[t].p = p})

\* The stack's state is well formed: descriptors, queues and the cache stay
\* within their sizes, and tx_sem counts the free transmit descriptors
\* (e1000.c, arp.c).
NetTypeOK ==
    /\ n.txsem = Ring - Cardinality({i \in 0 .. Ring - 1 : n.txbufs[i] # 0})
    /\ {n.tdt, n.txhead, n.txtail, n.rxhead, n.rxtail, n.rdt} \subseteq 0 .. Ring - 1
    /\ \A i \in DOMAIN n.cache : Len(n.cache[i].pend) <= MaxPending /\ n.cache[i].st \in {"EMPTY", "PENDING", "VALID"}
    /\ n.alock \in {None} \cup Thread
    /\ \A t \in Thread : n.th[t].pc \in Holding \cup {"idle", "poll", "input", "stats"}

\* Every reference to a packet buffer is held by exactly one queue, ring slot
\* or thread that will give it back, but for the one that ip_output keeps of
\* a packet it has queued for ARP (arp.c:203, ip.c:205).
PbufsAccounted == \A p \in Pbuf : n.pb[p].ref = Holders(p) + n.owed[p]

\* No buffer is freed twice, no descriptor overwritten before it is reclaimed
\* and no layer runs out of the headroom pbuf_alloc left for it (pbuf.c).
BuffersSound == n.odd \subseteq {"read after free"}

\* arp_cache has at most one entry of an address, and outside arp_lock
\* only an entry without an answer has packets pending (arp.c).
CacheSound ==
    /\ \A i, j \in DOMAIN n.cache :
         n.cache[i].st # "EMPTY" /\ n.cache[j].st # "EMPTY" /\ n.cache[i].ip = n.cache[j].ip => i = j
    /\ n.alock = None => \A i \in DOMAIN n.cache : n.cache[i].pend # <<>> => n.cache[i].st = "PENDING"

\* An IP packet is sent to the MAC of its next hop, however the cache changes
\* between arp_resolve, arp_queue_packet and the transmission (ip.c, arp.c).
FramesAddressed ==
    \A f \in BagToSet(n.wire) :
      f.k \in {"echo", "echo reply"} => f.mac = (IF f.dst = Bcast THEN Bcast ELSE IF f.dst \in OnLink THEN f.dst ELSE Gateway)

\* Received frames are handed up once and in order: the frames not yet
\* polled are those from rx_tail to the adapter's head, and the adapter
\* has all the other descriptors but one (e1000.c, e1000_poll).
RingExact ==
    LET full == (n.rxhead - n.rxtail + Ring) % Ring IN
    /\ \A i \in 0 .. Ring - 1 : n.rx[i] # NoMsg <=> (i - n.rxtail + Ring) % Ring < full
    /\ ((n.rdt - n.rxhead + Ring) % Ring) + full = Ring - 1

\* The packets queued for ARP leave their queue, unless a frame was lost, memory
\* ran out or the transmit ring is used up (arp.c, arp_send_pending).
PendingLeaves ==
    LET pending == \E i \in DOMAIN n.cache : n.cache[i].pend # <<>>
    IN pending ~> (~pending \/ n.lost \/ n.faults < n.sys.faults \/ n.txsem = 0)

\* Buffers are exact: every reference is held by one queue, ring slot or thread,
\* none is freed twice, headers fit the headroom, the rings and queues keep
\* within their sizes and received frames are handed up once and in order
\* (pbuf.c, e1000.c, netdev.c, arp.c).
BuffersExact == NetTypeOK /\ PbufsAccounted /\ BuffersSound /\ RingExact

\* A packet goes to the MAC of its next hop, and the cache has one entry of an
\* address, however entries are answered, replaced and reused between
\* arp_resolve, arp_queue_packet and the transmission (arp.c, ip.c).
PacketsAddressed == CacheSound /\ FramesAddressed
=============================================================================
