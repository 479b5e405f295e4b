CONSTANTS
  p1 = p1
  p2 = p2
  PRs = {p1, p2}
  MaxRev = 1
  HeadOf <- OneHead
  UpdatedAtMoves = TRUE
  Host <- GithubCom
  Env = {}
  Faults = {"list", "short", "twice", "record", "get", "agent"}
  MaxFaults = 1
  MaxRestarts = 1
  MaxMonitors = 0
  BusCap = 2
SPECIFICATION Spec
INVARIANTS
  TypeOK
  AnnouncedIsTracked
  OneMonitorPerPr
  CompletedMeansClosed
SYMMETRY Symmetry
CHECK_DEADLOCK FALSE
