------------------------------- MODULE MCNet -------------------------------
(* Small networks for module Net, and beside them small instances of Udp   *)
(* and NetTables: a behaviour is one of the three parts, chosen at first.   *)
EXTENDS Net, Udp, NetTables

SomeDsts == {<<0, 0, 0, 0>>, <<1, 0, 0, 0>>, <<1, 0, 1, 1>>, <<0, 0, 1, 0>>}

VARIABLE part
vars == <<n, u, tab, part>>

Frame(k, src, dst, mac) == [k |-> k, src |-> src, dst |-> dst, mac |-> mac]
Sys(size, acts, dsts, say, loss, faults) ==
    [ARP_CACHE_SIZE |-> size, acts |-> acts, dsts |-> dsts, say |-> say, loss |-> loss, faults |-> faults]

\* Two threads ping a neighbour while a frame is lost.
Lan == Sys(2, 2, {"a"}, {}, 1, 0)
\* Pings of the loopback, without memory at times.
Loop == Sys(1, 2, {Lo}, {}, 0, 1)
\* Through the gateway and to everyone, without memory at times.
Far == Sys(1, 2, {"far", Bcast}, {}, 0, 1)
\* More neighbours than cache entries: the pending packets are dropped.
Crowd == Sys(1, 2, {"a", "b"}, {}, 0, 0)
\* Peers that ask, ping and send what is dropped.
Old == Sys(2, 1, {"g"}, {Frame("arp request", "a", Us, Bcast), Frame("arp request", "b", Us, Bcast)}, 0, 0)
Asked == Sys(1, 1, {"a"}, {Frame("arp request", "b", "g", Bcast), Frame("echo", "a", Us, Us)}, 0, 0)
Everyone == Sys(1, 0, {}, {Frame("echo", "b", Bcast, Bcast), Frame("arp request", "a", Us, Us)}, 0, 1)
Dropped == {Frame("udp", "a", Us, Us), Frame("bad", "a", Us, Us), Frame("other", "a", Us, Us),
            Frame("echo", "a", "b", "b"), Frame("echo", "a", "far", Us)}
AllSystems == {Lan, Loop, Far, Crowd, Old, Asked, Everyone} \cup {Sys(1, 1, {"b"}, {f}, 0, 0) : f \in Dropped}

\* The parts that are not looked at stay in their first initial state.
Still == CHOOSE x \in NetSystems : TRUE
Init == /\ part \in {"stack", "udp", "tables"}
        /\ NetInit /\ UdpInit /\ TablesInit
        /\ part # "stack" => n.sys = Still
Next == \/ part = "stack" /\ NetNext /\ UNCHANGED <<u, tab, part>>
        \/ part = "udp" /\ UdpNext /\ UNCHANGED <<n, tab, part>>
        \/ part = "tables" /\ TablesNext /\ UNCHANGED <<n, u, part>>
Fair == /\ WF_vars(part = "stack" /\ (Input \/ Output(0)) /\ UNCHANGED <<u, tab, part>>)
        /\ WF_vars(part = "stack" /\ Peer /\ UNCHANGED <<u, tab, part>>)
        /\ \A t \in Thread \ {0} : WF_vars(part = "stack" /\ Output(t) /\ UNCHANGED <<u, tab, part>>)
Spec == Init /\ [][Next]_vars /\ Fair
=============================================================================
