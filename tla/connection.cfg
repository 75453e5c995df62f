SPECIFICATION ConnectionSpec
CONSTANTS
  Limit = 3
  Window = 3
  Reserve = 2
  Senders = {a, b}
  SendTimeout = 2
  MaxTime = 7
  MaxSends = 4
  Interval = 3
  Rtt = 2
  MaxAsked = 2
SYMMETRY
  Symmetry
INVARIANTS
  Allowance
  Liveliness
  CommandsNeverKill
CHECK_DEADLOCK FALSE
