SPECIFICATION QueuesSpec
CONSTANTS
  Callers = {a, b, c, d}
  MaxSlots = 6
  rt1 = rt1
  mj1 = mj1
  h1 = h1
  q1 = q1
  q2 = q2
  q3 = q3
  None = None
  Routes = {rt1}
  Majors = {mj1}
  Hashes = {h1}
  Requests = {q1, q2, q3}
  Of <- LineOf
  First <- LineFirst
  Moving = {}
  Limit = 2
  Window = 2
  Retries = 1
  Ceiling = 2
INVARIANTS
  SizeCounts
PROPERTIES
  ServesInOrder
  QueuesServeInOrder
  NobodyIsStranded
CHECK_DEADLOCK FALSE
