--------------------------- MODULE MCBufferCache ---------------------------
(***************************************************************************)
(* Small instances of the buffer cache.  The sectors start with different  *)
(* contents, so that data of the wrong sector shows.  The periodic flusher *)
(* only calls cache_flush, which the clients here do at any time.          *)
(***************************************************************************)
EXTENDS BufferCache, TLC

CONSTANTS c1, c2, pf

Clients1 == {c1}
Clients2 == {c1, c2}
ClientSymmetry == Permutations(Clients2)
Empty == {}
ThePrefetcher == {pf}

OneCell == {1}
WholeOnly == {{1}}
TwoCells == {1, 2}
PartAndWhole == {{1}, {1, 2}}
Bits == {0, 1}
Zero == {0}
Contents2 == [s \in 0..1 |-> [c \in Cell |-> s]]
Blank == [s \in 0..(SectorCount - 1) |-> [c \in Cell |-> 0]]

=============================================================================
