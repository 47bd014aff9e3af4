CONSTANTS
  Clients = {c1, c2, c3}
  Descriptors = {d1, d2, d3}
  MaxConnections = 2
  Reconnects = {c1, c2}
  Backlog = 2
  NoClient = NoClient
SPECIFICATION FairLinkSpec
INVARIANTS OpenIsKept
PROPERTIES RetriesForever
CHECK_DEADLOCK FALSE
