CONSTANTS
  Asks = {a1, a2, a3}
  Policies = {"Ask", "AutoApprove", "DryRun"}
  ReqCap = 3
  RespCap = 1
  LateAnswers = FALSE
SPECIFICATION FairSpec
INVARIANTS
  TypeOK
  GrantedWasConsented
PROPERTIES
  AskEnds
CHECK_DEADLOCK FALSE
