CONSTANTS
  SwCount = 3
  HashSize = 2
  MaxPort = 2
  Timeout = 1
  k1 = k1
  k2 = k2
  k3 = k3
  k4 = k4
  Wire <- MCWire
  Routes <- MCRoutes
  Rank <- MCRank
  Packet = {k1, k2, k4}
  Source <- MCSource
  Target <- MCTarget
  SlotOf <- MCSlotOf
  IsSyn <- MCIsSyn
  MaxLosses = 1
SPECIFICATION FairSpec
INVARIANT NoForwardingLoop
PROPERTY Settles
PROPERTY ImplementsDelivery
