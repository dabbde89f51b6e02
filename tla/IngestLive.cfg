SPECIFICATION FairSpec
CONSTANTS
  e1 = e1
  e2 = e2
  e3 = e3
  c1 = c1
  c2 = c2
  w1 = w1
  w2 = w2
  Events = {e1, e2, e3}
  Kind <- GarbledKinds
  Convs = {c1}
  ConvOf <- OneConv
  NoConv = NoConv
  Workers = {w1, w2}
  BatchSize = 2
  MaxLen = 6
  Faults = {"publish", "stop", "group", "stream"}
  MaxFaults = 2
PROPERTIES
  Ingested
