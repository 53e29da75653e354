----------------------------- MODULE NetTables -----------------------------
(***************************************************************************)
(* What the stack computes rather than keeps: the route of an address      *)
(* (src/net/inet/route.c over the devices of net/driver/netdev.c) and the  *)
(* Internet checksum (net/util/checksum.c), with the tables they read as   *)
(* the state.  An address is its bits in network order; a byte has         *)
(* ByteBits of them and an address two bytes, so that the byte order in    *)
(* which the code compares two masks shows.                                *)
(***************************************************************************)
EXTENDS Integers, Sequences, FiniteSets, SequencesExt, FiniteSetsExt

CONSTANTS MAX_ROUTES,
          Dsts,        \* destinations routes are added for
          MaxData      \* bound: bytes under one checksum

ByteBits == 2
Base == 2 ^ ByteBits
Addr == [1 .. 2 * ByteBits -> 0 .. 1]
Zero == [i \in 1 .. 2 * ByteBits |-> 0]
And(a, m) == [i \in DOMAIN a |-> a[i] * m[i]]
Mask(len) == [i \in 1 .. 2 * ByteBits |-> IF i <= len THEN 1 ELSE 0]
\* The integer a little-endian machine reads from an address in memory.
Value(a) == (2 * a[1] + a[2]) + Base * (2 * a[3] + a[4])
\* The loopback network, 127 in the code, is the first byte all ones.
IsLoopback(a) == a[1] = 1 /\ a[2] = 1
EthMask == Mask(2)

VARIABLE tab

Route(dev, gw) == [ok |-> TRUE, dev |-> dev, gw |-> gw]
NoRoute == [ok |-> FALSE, dev |-> "none", gw |-> Zero]

netdev_get_default == IF tab.up THEN "eth" ELSE "none"
netdev_find_by_ip(a) == IF a = tab.ip THEN "eth" ELSE "none"

\* Mutant of Best: the first matching route is kept.
BestFirst(dst) == Min({i \in DOMAIN tab.routes : And(dst, tab.routes[i].mask) = tab.routes[i].dst})
\* The loop over the routes: the last one whose mask is no smaller.
Best(dst) ==
    LET match == {i \in DOMAIN tab.routes : And(dst, tab.routes[i].mask) = tab.routes[i].dst}
        top == Max({Value(tab.routes[i].mask) : i \in match})
    IN Max({i \in match : Value(tab.routes[i].mask) = top})

route_lookup(dst) ==
    IF IsLoopback(dst) THEN Route("lo", Zero)
    ELSE IF netdev_find_by_ip(dst) # "none" THEN Route(netdev_find_by_ip(dst), Zero)
    ELSE IF \E i \in DOMAIN tab.routes : And(dst, tab.routes[i].mask) = tab.routes[i].dst
         THEN Route(tab.routes[Best(dst)].dev, tab.routes[Best(dst)].gateway)
    ELSE IF tab.default # Zero THEN Route("eth", tab.default)
    ELSE IF netdev_get_default = "none" THEN NoRoute
    ELSE Route("eth", IF And(dst, EthMask) = And(tab.ip, EthMask) THEN Zero ELSE tab.gateway)

route_add(dst, len, gw) ==
    /\ Len(tab.routes) < MAX_ROUTES
    /\ tab' = [tab EXCEPT !.routes = Append(@, [dst |-> And(dst, Mask(len)), mask |-> Mask(len), gateway |-> gw, dev |-> "eth"])]
route_set_default(gw) == tab' = [tab EXCEPT !.default = gw]
netdev_set_ip(ip, gw) == ~tab.up /\ tab' = [tab EXCEPT !.ip = ip, !.gateway = gw, !.up = TRUE]
netdev_down == tab.up /\ tab' = [tab EXCEPT !.up = FALSE]

(* --------------------------------------------------------------- checksum *)
\* The data has two-byte words; an odd byte is the high one of the last word.
Word(d, i) == Base * d[i] + (IF i < Len(d) THEN d[i + 1] ELSE 0)
checksum_partial(d, sum) ==
    FoldLeft(LAMBDA s, i : IF i % 2 = 1 THEN s + Word(d, i) ELSE s, sum, [i \in 1 .. Len(d) |-> i])
Folded[s \in Nat] == IF s < Base * Base THEN s ELSE Folded[(s % (Base * Base)) + (s \div (Base * Base))]
checksum_finish(s) == Base * Base - 1 - Folded[s]
checksum(d) == checksum_finish(checksum_partial(d, 0))
AddByte(b) == Len(tab.data) < MaxData /\ tab' = [tab EXCEPT !.data = Append(@, b)]

TablesInit == tab = [routes |-> <<>>, default |-> Zero, ip |-> Zero, gateway |-> Zero, up |-> FALSE, data |-> <<>>]
Gate == [i \in 1 .. 2 * ByteBits |-> IF i = 1 THEN 1 ELSE 0]
TablesNext ==
    \/ /\ tab.data = <<>>
       /\ \/ \E d \in Dsts, len \in 0 .. 2 * ByteBits, gw \in {Zero, Gate} : route_add(d, len, gw)
          \/ tab.default = Zero /\ route_set_default(Gate)
          \/ \E gw \in {Zero, Gate} : netdev_set_ip([Gate EXCEPT ![2 * ByteBits] = 1], gw)
          \/ netdev_down
    \/ tab.routes = <<>> /\ ~tab.up /\ tab.default = Zero /\ \E b \in {0, 1, Base - 1} : AddByte(b)

(* ------------------------------------------------------------- properties *)
\* The route found is a matching one whose prefix is the longest, although
\* masks are compared as little-endian integers (route.c:77).
LongestPrefix ==
    \A dst \in Addr :
      LET ones(m) == Cardinality({i \in DOMAIN m : m[i] = 1})
          match == {i \in DOMAIN tab.routes : \A b \in 1 .. ones(tab.routes[i].mask) : dst[b] = tab.routes[i].dst[b]}
      IN match = {} \/ IsLoopback(dst) \/ dst = tab.ip
         \/ \E i \in match : /\ route_lookup(dst).gw = tab.routes[i].gateway
                             /\ \A j \in match : ones(tab.routes[j].mask) <= ones(tab.routes[i].mask)

\* A packet that carries its own checksum sums to zero at the receiver,
\* whatever its length and however often the sum carries (checksum.c:29).
ChecksumVerifies ==
    LET c == checksum(<<0, 0>> \o tab.data)
    IN checksum(<<c \div Base, c % Base>> \o tab.data) = 0

\* The algorithms agree with their definitions: route_lookup finds the longest
\* matching prefix and checksum makes a packet that verifies (route.c,
\* checksum.c).
TablesExact == LongestPrefix /\ ChecksumVerifies
=============================================================================
