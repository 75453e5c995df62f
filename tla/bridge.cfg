SPECIFICATION BridgeSpec
CONSTANTS
  g1 = g1
  g2 = g2
  r1 = r1
  r2 = r2
  Guilds = {g1, g2}
  Requests = {r1, r2}
  Target <- OneTarget
  Everyone = {r1}
  Chunks = 2
  MaxQueued = 2
  MaxSessions = 2
  MaxArrivals = 5
  MaxBusy = 3
  Populations <- NoneOrAll
INVARIANTS
  SessionsAreTold
  RepliesMatch
PROPERTIES
  InOrder
  ReadyIsAnnounced
  GuildsAreTold
  RequestsEnd
CHECK_DEADLOCK FALSE
