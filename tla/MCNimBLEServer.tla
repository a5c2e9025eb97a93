--------------------------- MODULE MCNimBLEServer ---------------------------
\* Instances of NimBLEServer for TLC.
EXTENDS NimBLEServer, TLC

CONSTANTS s1, s2, c1, d1

\* Two services of one UUID; the first has a characteristic with a descriptor.
SmallTree == [a \in Attrs |-> CASE a = c1 -> s1 [] a = d1 -> c1 [] OTHER -> Server]

SameUUIDs == [a \in Attrs |-> 0]

\* The peers are interchangeable.
AnyPeer == Permutations(Peers)

\* A second connection, and its slot, only while two objects at most were created.
SmallWhenFull ==
  Cardinality(stk.links) = 2 \/ srv.peers[2] # NoPeer =>
    Cardinality({a \in Attrs : att[a].state # "none"}) <= 2
=============================================================================
