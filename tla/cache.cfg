SPECIFICATION Spec
CONSTANTS
  Scope <- ScopeOf
  Guild <- GuildOf
  Parent <- ParentOf
  User <- UserOf
  Member <- MemberOf
  Founding <- FoundingOf
  Policies <- PoliciesOf
  Themes <- SomeThemes
  MaxChanges = 2
  MaxPending = 1
  MaxReconnects = 1
  MaxReplayed = 2
  MaxTime = 2
INVARIANTS
  StoresAreSound
  InSync
  NothingLost
  TwiceIsOnce
VIEW Ahead
CHECK_DEADLOCK FALSE
