-------------------------------- MODULE Udp --------------------------------
(***************************************************************************)
(* UDP protocol control blocks (src/net/transport/udp.c): udp_new, udp_bind*)
(* and udp_free by their owners, udp_recv by any thread and udp_input by   *)
(* the thread that has a datagram.  An action is what runs between two     *)
(* lock or semaphore operations; a datagram is a number, in order of       *)
(* arrival.  The stack does not call udp_input yet: see the README.        *)
(***************************************************************************)
EXTENDS Integers, Sequences, FiniteSets, SequencesExt, FiniteSetsExt

CONSTANTS MaxPcb,              \* bound: control blocks
          Receivers,           \* threads in udp_recv
          MaxDatagram,         \* bound: datagrams
          UDP_RECV_QUEUE_MAX,
          FirstPort, LastPort  \* 49152 and 2^16 - 1; the ports below are explicit

ASSUME UdpAssumption == /\ {MaxPcb, MaxDatagram, UDP_RECV_QUEUE_MAX, FirstPort} \subseteq Nat \ {0}
                        /\ LastPort \in Nat /\ LastPort >= FirstPort

VARIABLE u

Pcb == 1 .. MaxPcb
NoInput == [pc |-> "idle", d |-> 0, pcb |-> 0]
NewPcb == [live |-> TRUE, bound |-> FALSE, port |-> 0, eph |-> FALSE, queue |-> <<>>, sem |-> 0]
NoPcb == [NewPcb EXCEPT !.live = FALSE]

udp_new == LET i == Min({j \in Pcb : u.free[j]}) IN
    (\E j \in Pcb : u.free[j]) /\ u' = [u EXCEPT !.pcb[i] = NewPcb, !.free[i] = FALSE]

InUse(port) == \E i \in Pcb : u.pcb[i].live /\ u.pcb[i].bound /\ u.pcb[i].port = port
\* Port 0 asks for the next ephemeral port, in use or not.
udp_bind(i, port) ==
    LET p == IF port = 0 THEN u.next ELSE port IN
    /\ u.pcb[i].live /\ ~u.pcb[i].bound
    /\ port # 0 => ~InUse(port)
    /\ u' = [u EXCEPT !.pcb[i].bound = TRUE, !.pcb[i].port = p, !.pcb[i].eph = (port = 0),
                      !.next = IF port # 0 THEN @ ELSE IF @ = LastPort THEN FirstPort ELSE @ + 1]

\* The owner frees a block no receiver waits on; what is queued goes with it.
udp_free(i) ==
    /\ u.pcb[i].live /\ \A r \in Receivers : u.recv[r] # i
    /\ u' = [u EXCEPT !.pcb[i] = NoPcb, !.gone = @ \cup Range(u.pcb[i].queue)]

(* ------------------------------------------------------------------ input *)
\* A datagram comes in (its checksum has been found right) and its block is
\* looked for under udp_lock.
Match(port) == {i \in Pcb : u.pcb[i].live /\ u.pcb[i].bound /\ u.pcb[i].port = port}
udp_input(port) ==
    /\ u.input.pc = "idle" /\ u.arrived < MaxDatagram
    /\ LET d == u.arrived + 1
           x == [u EXCEPT !.arrived = d]
       IN u' = IF Match(port) = {} THEN [x EXCEPT !.gone = @ \cup {d}]
               ELSE [x EXCEPT !.input = [pc |-> "queue", d |-> d, pcb |-> Min(Match(port))]]

\* Under the block's lock; a block freed meanwhile is used all the same.
Enqueue ==
    LET i == u.input.pcb
        drop == [u EXCEPT !.input = NoInput, !.gone = @ \cup {u.input.d}]
    IN /\ u.input.pc = "queue"
       /\ \/ ~u.pcb[i].live /\ u' = [drop EXCEPT !.stale = TRUE]
          \/ /\ u.pcb[i].live
             /\ \/ u' = drop          \* the queue is full, or no memory
                \/ /\ Len(u.pcb[i].queue) < UDP_RECV_QUEUE_MAX
                   /\ u' = [u EXCEPT !.pcb[i].queue = Append(@, u.input.d), !.input.pc = "up"]
Signal ==
    /\ u.input.pc = "up"
    /\ u' = IF u.pcb[u.input.pcb].live THEN [u EXCEPT !.pcb[u.input.pcb].sem = @ + 1, !.input = NoInput]
            ELSE [u EXCEPT !.input = NoInput, !.stale = TRUE]

(* ---------------------------------------------------------------- receive *)
\* udp_recv: wait, then take the front of the queue under the block's lock.
udp_recv(r) == \E i \in Pcb : u.recv[r] = 0 /\ u.pcb[i].live /\ u' = [u EXCEPT !.recv[r] = i]
Down(r) == LET i == u.recv[r] IN
    i # 0 /\ ~u.has[r] /\ u.pcb[i].sem > 0 /\ u' = [u EXCEPT !.pcb[i].sem = @ - 1, !.has[r] = TRUE]
Dequeue(r) == LET i == u.recv[r] IN
    /\ u.has[r]
    /\ u' = IF u.pcb[i].queue = <<>> THEN [u EXCEPT !.empty = TRUE, !.has[r] = FALSE, !.recv[r] = 0]
            ELSE [u EXCEPT !.pcb[i].queue = Tail(@), !.gone = @ \cup {Head(u.pcb[i].queue)},
                           !.has[r] = FALSE, !.recv[r] = 0]

UdpInit == u = [pcb |-> [i \in Pcb |-> NoPcb], free |-> [i \in Pcb |-> TRUE], next |-> FirstPort,
                input |-> NoInput, arrived |-> 0, gone |-> {}, stale |-> FALSE, empty |-> FALSE,
                recv |-> [r \in Receivers |-> 0], has |-> [r \in Receivers |-> FALSE]]
UdpNext == \/ udp_new \/ Enqueue \/ Signal
           \/ \E i \in Pcb : udp_free(i) \/ \E p \in 0 .. LastPort : udp_bind(i, p)
           \/ \E p \in 1 .. LastPort : udp_input(p)
           \/ \E r \in Receivers : udp_recv(r) \/ Down(r) \/ Dequeue(r)

(* ------------------------------------------------------------- properties *)
\* Two blocks are bound to one port only if it was handed out as an ephemeral
\* port while it was in use (udp.c:215): an explicit bind never does that.
PortsUnique ==
    \A i, j \in Pcb :
      i # j /\ u.pcb[i].bound /\ u.pcb[j].bound /\ u.pcb[i].port = u.pcb[j].port
        => u.pcb[i].eph \/ u.pcb[j].eph

\* A receiver that got past recv_sem finds a datagram: list_pop_front is never
\* called on an empty queue, however many receivers there are (udp.c:256).
RecvFindsOne == ~u.empty

\* Every datagram that came in is in one place: with udp_input, in one queue,
\* at most UDP_RECV_QUEUE_MAX long, or delivered or dropped (udp.c).
DatagramsAccounted ==
    LET queued(i) == Range(u.pcb[i].queue)
        held == IF u.input.pc = "queue" THEN {u.input.d} ELSE {}
    IN /\ u.gone \cup held \cup UNION {queued(i) : i \in Pcb} = 1 .. u.arrived
       /\ u.gone \cap (held \cup UNION {queued(i) : i \in Pcb}) = {}
       /\ \A i \in Pcb : Len(u.pcb[i].queue) <= UDP_RECV_QUEUE_MAX

=============================================================================
