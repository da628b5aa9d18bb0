\* One relay too many, two rows that decode and one that does not, entries read
\* two at a time.
SPECIFICATION Spec
CONSTANTS
  Relays = {r1, r2}
  ClaimLimit = 1
  ReadCount = 2
  MaxRows = 3
  MaxEntries = 2
  None = None
  Conns = {c1}
  ChannelCap = 1
  SendCap = 1
  MaxConnections = 1
  Unknown = {3}
SYMMETRY Symmetry
INVARIANTS
  TypeOK
  ShippedWasPublished
  SettledWasOffered
  FanOutInOrder
CHECK_DEADLOCK FALSE
