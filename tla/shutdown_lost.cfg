CONSTANTS
  Daemons = {d1}
  Clients = {c1}
  Writes = {w1}
  AskBeside = TRUE
  None = None
SPECIFICATION FairSpec
PROPERTIES DownStops
CHECK_DEADLOCK FALSE
