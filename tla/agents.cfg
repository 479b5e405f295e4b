CONSTANTS
  Clients = {t1, chat}
  Tasks = {t1}
  MaxPending = 2
  OutCap = 1
  AuthCalled = TRUE
  ChunkCap = 1
  AgentFaults = {"spawn", "error", "die", "garbage"}
  MaxFaults = 1
  MaxExtras = 1
  MaxPrompts = 2
SPECIFICATION FairSpec
INVARIANTS
  PendingIsWaiting
  AnswerNotLost
  SessionsApart
PROPERTIES
  
  ToolCallsEnd
CHECK_DEADLOCK FALSE
