CONSTANTS
  Wire <- MCWire
  Origin = 0
  Leaf = {0, 1}
  Util = {0, 1}
  MaxVersion = 2
  MaxLosses = 0
SPECIFICATION Spec
CHECK_DEADLOCK FALSE
PROPERTY RoundsAlwaysImprove
