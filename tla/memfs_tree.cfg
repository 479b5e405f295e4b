CONSTANTS
  Names = {1, 2}
  MaxIno = 4
  Limit = 2
  MaxLinks = 3
  MaxHops = 3
  Targets <- MCTargets
  Paths <- MCPaths
SPECIFICATION Spec
INVARIANTS
  TypeOK
  TreeShape
  LinkCounts
  BytesExact
  RestoreIsIdentity
  ResolveIsWalk
  WrittenReadsBack
CHECK_DEADLOCK FALSE
