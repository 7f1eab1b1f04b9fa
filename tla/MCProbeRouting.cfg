CONSTANTS
  Wire <- MCWire
  Origin = 0
  Leaf = {0, 1}
  Util = {0, 1}
  MaxVersion = 2
  MaxLosses = 1
SPECIFICATION FairSpec
CHECK_DEADLOCK FALSE
INVARIANT TypeOK
INVARIANT EntriesAreCurrent
INVARIANT NextHopIsNoOlder
INVARIANT LoopFree
PROPERTY RoundsImprove
PROPERTY RoundReachesAll
