CONSTANTS
  Keys = {k1, k2}
  Workers = {w1, w2}
  PruneConcurrent = FALSE
  TornWrites = FALSE
  MaxTime = 1
  MaxLines = 4
  MaxCrashes = 2
SPECIFICATION Spec
INVARIANTS
  SeenIsDurable
PROPERTIES
  Implements
CHECK_DEADLOCK FALSE
