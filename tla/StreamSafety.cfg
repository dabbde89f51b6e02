SPECIFICATION FairSpec
CHECK_DEADLOCK FALSE
CONSTANTS
  QueueSize = 2
  MaxChunks = 3
  Failures = {"provider", "bug", "db", "delete", "clock"}
INVARIANTS
  TypeOK
  OneEventPerCall
  AtMostOneReply
  
  ClientIsToldTheTruth
PROPERTIES
  FollowsProtocol
  Answered
