SPECIFICATION FairSpec
CHECK_DEADLOCK FALSE
CONSTANTS
  QueueSize = 2
  MaxChunks = 2
  Failures = {"provider"}
PROPERTIES
  HangUpEndsTurn
