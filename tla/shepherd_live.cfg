CONSTANTS
  p1 = p1
  p2 = p2
  PRs = {p1}
  MaxRev = 3
  HeadOf <- HeadsABA
  UpdatedAtMoves = TRUE
  Host <- GithubCom
  Env = {}
  Faults = {}
  MaxFaults = 0
  MaxRestarts = 1
  MaxMonitors = 0
  BusCap = 4
SPECIFICATION FairSpec
INVARIANTS
  EachEventOnce
  QuiescentReviewed
PROPERTIES
  LastStateReviewed
  ClosedCompletes
CHECK_DEADLOCK FALSE
