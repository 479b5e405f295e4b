CONSTANTS
  Daemons = {d1, d2}
  Clients = {c1}
  Writes = {w1}
  AskBeside = FALSE
  None = None
SPECIFICATION FairSpec
INVARIANTS
  TypeOK
  SingleInstance
  CheckpointWhole
  WritesComeBack
PROPERTIES
  StopCompletes
CHECK_DEADLOCK FALSE
