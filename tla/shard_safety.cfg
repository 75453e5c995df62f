SPECIFICATION Spec
CONSTANTS
  Slots = {1, 2, 3}
  Sids = {1, 2}
  MaxSeq = 3
  PeerCodes <- EveryClass
  MaxResumeAttempts = 1
  GivesUp = TRUE
  MaxAttempts = 2
  CapAttempt = 1
  Calls = {1}
  MaxTimers = 0
  Recovers = {"none", "resume"}
  SerialCaller = TRUE
  PromptStore = TRUE
INVARIANTS
  OneSocket
  TimersAgree
  NoSkippedDispatch
  SessionAgrees
  BoundedRetries
PROPERTIES
  FatalIsTerminal
  OnlyOpcode9LeavesTimeout
