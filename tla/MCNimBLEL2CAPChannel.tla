------------------------- MODULE MCNimBLEL2CAPChannel -------------------------
(***************************************************************************)
(* An open L2CAP channel, or the life of the objects: a behaviour is one   *)
(* of either.                                                              *)
(***************************************************************************)
EXTENDS NimBLEL2CAPChannel, NimBLEL2CAPServer, TLC

VARIABLE part  \* "channel" or "objects"

PartInit == part \in {"channel", "objects"} /\ Init /\ CocInit
ChannelPart == part = "channel" /\ Next /\ UNCHANGED <<part, cocVars>>
ObjectsPart == part = "objects" /\ CocNext /\ UNCHANGED <<part, vars>>

PartSpec == PartInit /\ [][ChannelPart \/ ObjectsPart]_<<part, vars, cocVars>>

\* The tasks that write to the channel, the objects, the stack's channels and the
\* tasks that make objects are interchangeable.
Symmetry == Permutations(Tasks) \cup Permutations(Objects) \cup Permutations(Links)
              \cup Permutations(Makers)
===============================================================================
