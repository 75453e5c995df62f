SPECIFICATION ShapesSpec
CONSTANTS
  MaxPatches = 3
  Administrator = Administrator
  Flags = {Administrator, ViewChannel, SendMessages}
  Spared = {ViewChannel}
  everyone = everyone
  member = member
  Roles = {everyone, a, b}
  MaxEdits = 4
  Ids = {i, j}
  Tokens = {t, u}
  Emojis = {e, f}
  Codes = {c, d}
  MaxRequests = 2
SYMMETRY Interchangeable
INVARIANTS
  StructuresAgree
  NeverOverstated
  RoutesKeepApart
CHECK_DEADLOCK FALSE
