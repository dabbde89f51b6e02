SPECIFICATION Spec
CONSTANTS
  t1 = t1
  t2 = t2
  t3 = t3
  c1 = c1
  Turns = {t1, t2, t3}
  Convs = {c1}
  ConvOf <- OneConv
  NoTurn = NoTurn
  Length <- OneLongQuestion
  MaxMessages = 3
  MaxChars = 2
  Failures = {"db", "provider", "delete"}
INVARIANTS
  TypeOK
  TranscriptIsDense
  NoConflict
  TitleIsOpening
  QuestionIsLast
  WindowIsLongest
  NewestTouchedLast
  SomeoneGoesOn
PROPERTIES
  KeepsTranscript
SYMMETRY TurnSymmetry
