SPECIFICATION Spec
CONSTANTS
  d1 = d1
  w1 = w1
  None = None
  Fleets = {{0}, {0, 1}}
  MaxShards = 2
  Logins = {1, 2}
  Waits = {w1}
  Destroys = {d1}
  MaxDrops = 1
INVARIANTS
  StopsForGood
CHECK_DEADLOCK FALSE
