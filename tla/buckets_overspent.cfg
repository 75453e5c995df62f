SPECIFICATION Spec
CONSTANTS
  rt1 = rt1
  rt2 = rt2
  mj1 = mj1
  mj2 = mj2
  h1 = h1
  h2 = h2
  q1 = q1
  q2 = q2
  q3 = q3
  None = None
  Routes = {rt1, rt2}
  Majors = {mj1}
  Hashes = {h1}
  Requests = {q1, q2}
  Of <- TwoRoutesOf
  First <- TwoRoutesFirst
  Moving = {}
  Limit = 2
  Window = 2
  Retries = 1
  Ceiling = 2
INVARIANTS
  NeverOverspent
CHECK_DEADLOCK FALSE
