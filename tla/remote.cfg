SPECIFICATION FairRemoteSpec
CONSTANTS
  Short = 5
  Long = 8
  Peer <- SmallPeer
  Guarded <- Guard
  MaxChunks = 2
  Lookups <- SomeLookups
  CCCD <- TheCCCD
  Declared <- TheDeclaration
  NoAttr = 0
INVARIANTS LookupFinds DescriptorsAreOwn
PROPERTY CallsReturn
