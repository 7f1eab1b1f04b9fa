CONSTANTS
  SwCount = 3
  HashSize = 2
  MaxPort = 2
  Timeout = 1
  Self = 1
  Routes <- MCRoutes
  Upstream <- MCUpstream
  HeardPrice = {1}
  MinPrice = 1
  MaxPrice = 2
  MaxOccupied = 3
SPECIFICATION Spec
CONSTRAINT Bounds
INVARIANT TypeOK
INVARIANT FlowletsFollowRoutes
INVARIANT AdvertisedPricesNonNegative
INVARIANT TotalChargeBounded
PROPERTY ReassignmentIsTold
