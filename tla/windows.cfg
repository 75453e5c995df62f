SPECIFICATION WindowsSpec
CONSTANTS
  Limit = 2
  Window = 3
  Requests = {a, b, x}
  Exempt = {x}
  Ceiling = 3
  MaxBlock = 3
  MaxTime = 6
  MaxSends = 5
  SlotCount = 3
  SlotTicks = 2
  Threshold = 2
  InFlight = 2
  MaxInstant = 14
  MaxInvalid = 6
  c1 = c1
  c2 = c2
  c3 = c3
  Connections = {c1, c2, c3}
  ShardOf <- SharedShardOf
  MaxConcurrency = 2
  IdentifyWindow = 3
  Early = 1
  MaxClock = 10
  MaxGrants = 4
SYMMETRY Interchangeable
INVARIANTS
  LimitRespected
  CountIsTrue
  SpanBounded
  OnePerWindow
CHECK_DEADLOCK FALSE
