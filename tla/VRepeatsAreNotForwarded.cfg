CONSTANTS
  SwCount = 2
  HashSize = 3
  MaxPort = 2
  Timeout = 2
  Self = 1
  Routes <- MCRoutes
  Upstream <- MCUpstream
  HeardPrice = {0, 2}
  MinPrice = 2
  MaxPrice = 3
  MaxOccupied = 3
SPECIFICATION Spec
CONSTRAINT Bounds
PROPERTY RepeatsAreNotForwarded
