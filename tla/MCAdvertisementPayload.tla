----------------------- MODULE MCAdvertisementPayload -----------------------
(* Four UUIDs, two of them the same service in two sizes, made from texts; *)
(* a name that fits several times and one that has to be cut; a value and  *)
(* none; a beacon.                                                         *)
EXTENDS AdvertisementPayload

MCTexts ==
  {Text(UUID16(43981), FALSE), Text(UUID16(4660), TRUE), Text(UUID32(7412345), TRUE),
   Text(UUID128(43981, TRUE), FALSE)}
MCUuids == {FromString(t) : t \in MCTexts}
MCNames == {[i \in 1..5 |-> 110], [i \in 1..30 |-> 111]}
MCValues == {<< >>, [i \in 1..12 |-> 100 + i]}
MCBeacons ==
  {[uuid |-> UUID32(7412345), major |-> 258, minor |-> 65, power |-> -59, temp |-> 6020, time |-> 20]}
=============================================================================
