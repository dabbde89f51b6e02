CONSTANTS
  c1 = c1
  c2 = c2
  None = None
  Calls <- TwoCalls
  Timeouts <- ShortAndLong
  Grace = 2
  KillAfter = 4
  MaxTime = 7
SPECIFICATION Spec
CHECK_DEADLOCK FALSE
SYMMETRY CallSymmetry
INVARIANTS
  TypeOK
  NothingAwaitedIsCut
  ShutdownIsPrompt
