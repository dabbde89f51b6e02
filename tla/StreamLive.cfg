SPECIFICATION FairSpec
CONSTANTS
  QueueSize = 1
  MaxChunks = 3
  Failures = {"bug", "db", "delete"}
PROPERTIES
  CallIsLogged
  HangUpEndsTurn
