CONSTANTS
  c1 = c1
  c2 = c2
  None = None
  Calls <- TwoCalls
  Timeouts <- ShortAndLong
  Grace = 2
  KillAfter = 4
  MaxTime = 6
SPECIFICATION Spec
CHECK_DEADLOCK FALSE
SYMMETRY CallSymmetry
INVARIANT DrainCountsLost
