SPECIFICATION PartSpec
CONSTANTS
  Peers = {p1, p2}
  NoPeer = NoPeer
  Slots = 2
  Streams <- AllStreams
  Capacity = 2
  Chunk = 1
  Overlap = FALSE
  MaxBytes = 3
  Clients = {c1, c2}
  NoClient = NoClient
  Addresses = {a1, a2}
  Conns = {n1, n2}
  NoConn = NoConn
  TableSize = 2
  DeleteFlags <- DeleteAlways
SYMMETRY Symmetry
INVARIANTS BytesInOrder DataIsScheduled ClientsAreFound
PROPERTY SecureGetsData
CHECK_DEADLOCK FALSE
