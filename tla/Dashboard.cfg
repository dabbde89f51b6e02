CONSTANTS
  Calls <- ThreeCalls
  Histories <- SomeHistories
  Limits <- OneOrTwo
  Filters <- SomeFilters
  Froms <- AnyTimeOrOne
  Widths <- OneOrTwo
  Skews <- InStepOrAhead
  Window = 1
  StalledAfter = 1
  MaxTime = 2
  None = None
SPECIFICATION Spec
CHECK_DEADLOCK FALSE
INVARIANTS
  TypeOK
  PagesListWhatWasThere
  SummaryAddsUp
  FiguresAreOfCalls
  StalledMeansSilence
