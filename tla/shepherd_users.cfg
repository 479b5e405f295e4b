CONSTANTS
  p1 = p1
  p2 = p2
  PRs = {p1}
  MaxRev = 2
  HeadOf <- HeadsTwo
  UpdatedAtMoves = FALSE
  Host <- GithubCom
  Env = {"reopen", "task_add", "unwatch"}
  Faults = {"panic"}
  MaxFaults = 1
  MaxRestarts = 0
  MaxMonitors = 1
  BusCap = 2
SPECIFICATION Spec
INVARIANTS
  DiffNotOlderThanEvent
CHECK_DEADLOCK FALSE
