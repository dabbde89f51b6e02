SPECIFICATION Spec
CONSTANTS
  e1 = e1
  e2 = e2
  e3 = e3
  c1 = c1
  c2 = c2
  w1 = w1
  w2 = w2
  Events = {e1, e2, e3}
  Kind <- ScalarKinds
  Convs = {c1}
  ConvOf <- OneConv
  NoConv = NoConv
  Workers = {w1, w2}
  BatchSize = 2
  MaxLen = 2
  Faults = {"publish", "crash", "stop", "redis", "db", "delete"}
  MaxFaults = 2
INVARIANTS
  TypeOK
  AckedIsAccounted
  OutcomesAgree
  NoDanglingConversation
  ExclusiveDelivery
  AcceptedIsKept
PROPERTIES
  LogRowsAreFinal
  OneOutcome
SYMMETRY ReplicaSymmetry
