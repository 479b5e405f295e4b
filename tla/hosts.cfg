CONSTANTS
  MaxPrs = 3
  MaxComments = 2
  PageSize = 1
  MaxEdits = 2
  Callers = {c1}
  MaxPages = 2
  Reviews = {1}
  LineParts = 1
  MaxFaults = 1
  Runs = {r1, r2}
SPECIFICATION Spec
INVARIANTS
  ListingExact
  VoteHasReasons
  AppliedIsVerified
  CleanApplyWritesNothing
  SweepComplete
SYMMETRY MCSymmetry
CHECK_DEADLOCK FALSE
