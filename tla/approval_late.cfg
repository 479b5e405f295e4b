CONSTANTS
  Asks = {a1, a2, a3}
  Policies = {"Ask"}
  ReqCap = 2
  RespCap = 2
  LateAnswers = TRUE
SPECIFICATION Spec
INVARIANTS
  GrantedWasConsented
CHECK_DEADLOCK FALSE
