SPECIFICATION Spec
CONSTANTS
  s1 = s1
  s2 = s2
  c1 = c1
  d1 = d1
  Services = {s1, s2}
  Children = {c1, d1}
  Parent <- SmallTree
  UUID <- SameUUIDs
  Server = Server
  Peers = {p1, p2}
  NoPeer = NoPeer
  Slots = 2
INVARIANTS HandleIsOwn StartApplies ChangeIsIndicated PeersAreCounted
SYMMETRY AnyPeer
CONSTRAINT SmallWhenFull
