---------------------------- MODULE MCNimBLEPeers ----------------------------
(***************************************************************************)
(* Several peers: those that a stream has, or those to which the clients   *)
(* of a device connect.  A behaviour is one of either.                     *)
(***************************************************************************)
EXTENDS NimBLEStream, NimBLEClientTable, TLC

VARIABLE part  \* "stream" or "table"

PartInit == part \in {"stream", "table"} /\ Init /\ TableInit
StreamPart == part = "stream" /\ Next /\ UNCHANGED <<part, tableVars>>
TablePart == part = "table" /\ TableNext /\ UNCHANGED <<part, vars>>

PartSpec == PartInit /\ [][StreamPart \/ TablePart]_<<part, vars, tableVars>>

Stream1(role, secure) == [role |-> role, secure |-> secure]
AllStreams == {Stream1("server", FALSE), Stream1("server", TRUE), Stream1("client", FALSE)}

DeleteAlways == {<<TRUE, TRUE>>}

\* The peers of a stream, the clients of the table, and the stack's connection
\* handles are interchangeable.
Symmetry == Permutations(Peers) \cup Permutations(Clients) \cup Permutations(Conns)
=============================================================================
