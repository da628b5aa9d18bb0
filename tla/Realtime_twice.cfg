\* Two relays that claim the same row, and a client that gets both entries.
SPECIFICATION Spec
CONSTANTS
  Relays = {r1, r2}
  ClaimLimit = 1
  ReadCount = 1
  MaxRows = 1
  MaxEntries = 2
  None = None
  Conns = {c1}
  ChannelCap = 1
  SendCap = 1
  MaxConnections = 1
  Unknown = {}
INVARIANTS
  EventsReachClientsOnce
\* The pools of rows and entries are used up.
CHECK_DEADLOCK FALSE
