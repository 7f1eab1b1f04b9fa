CONSTANTS
  SwCount = 4
  HashSize = 2
  MaxPort = 3
  Timeout = 1
  k1 = k1
  k2 = k2
  k3 = k3
  k4 = k4
  Wire <- MCWire
  Routes <- MCRoutes
  Rank <- MCRank
  Packet = {k1, k2, k4}
  Source <- MCSource
  Target <- MCTarget
  SlotOf <- MCSlotOf
  IsSyn <- MCIsSyn
  MaxLosses = 0
SPECIFICATION Spec
INVARIANT TypeOK
INVARIANT UpdatesGoUpTheTree
INVARIANT NoForwardingLoop
INVARIANT HeardIsLastSent
