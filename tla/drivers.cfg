CONSTANTS
  Names = {1, 2}
  MaxIno = 4
  Limit = 1
  MaxLinks = 2
  MaxHops = 3
  Targets <- MCTargets
  Paths <- MCPaths
  Handles = {h1, h2}
  PageSize = 1
SPECIFICATION DriversSpec
INVARIANTS
  ListingComplete
  NoOrphans
PROPERTIES
  CleanupRemovesOwn
  GoneStaysGone
SYMMETRY MCSymmetry
CHECK_DEADLOCK FALSE
