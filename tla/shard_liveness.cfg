SPECIFICATION FairSpec
CONSTANTS
  Slots = {1, 2}
  Sids = {1}
  MaxSeq = 2
  PeerCodes <- NoFatal
  MaxResumeAttempts = 1
  GivesUp = FALSE
  MaxAttempts = 0
  CapAttempt = 0
  Calls = {1}
  MaxTimers = 0
  Recovers = {"none"}
  SerialCaller = TRUE
  PromptStore = TRUE
PROPERTIES
  ReconnectingEnds
  SilentPeerNoticed
