SPECIFICATION FairSpec
CONSTANTS
  e1 = e1
  e2 = e2
  e3 = e3
  c1 = c1
  c2 = c2
  w1 = w1
  w2 = w2
  Events = {e1, e2}
  Kind <- TwoValid
  Convs = {c1, c2}
  ConvOf <- TwoConvs
  NoConv = NoConv
  Workers = {w1, w2}
  BatchSize = 2
  MaxLen = 6
  Faults = {"delete"}
  MaxFaults = 1
PROPERTIES
  LogsSurviveDeletion
