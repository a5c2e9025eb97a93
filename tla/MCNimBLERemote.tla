---------------------------- MODULE MCNimBLERemote ----------------------------
\* A peer for the model checker.
EXTENDS NimBLERemote, TLC

Attr(kind, uuid, chunks) == [kind |-> kind, uuid |-> uuid, chunks |-> chunks]

\* Two services: one with two characteristics, of which only the second has a CCCD
\* and the value of the second is too long, and one with UUIDs of 128 bits.
SmallPeer == <<
  Attr("svc", UUID16(0), 0),
  Attr("chr", UUID16(1), 0), Attr("val", UUID16(1), 2),
  Attr("chr", UUID16(2), 0), Attr("val", UUID16(2), 3), Attr("dsc", UUID16(3), 1),
  Attr("svc", UUID128(1, TRUE), 0),
  Attr("chr", UUID128(0, FALSE), 0), Attr("val", UUID128(0, FALSE), 1) >>

SomeLookups == [
  svc |-> {UUID128(0, TRUE), UUID16(1), UUID16(2)},
  chr |-> {UUID16(2), UUID128(1, TRUE), UUID128(0, FALSE)},
  dsc |-> {UUID128(3, TRUE)}]

Guard == {3}
TheCCCD == UUID16(3)
TheDeclaration == UUID16(4)

\* The hypothesis of the theorems is true of this peer and these lookups.
ASSUME PlainAssumption == LookupsArePlain
===============================================================================
