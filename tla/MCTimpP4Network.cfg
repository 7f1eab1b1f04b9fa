SPECIFICATION FairSpec
CONSTANTS
  Switch = {1, 2, 3, 4}
  Dst = {1, 2}
  AltPorts <- MCAltPorts
  GroupOffset <- MCGroupOffset
  Group <- MCGroup
  PriceCount = 256
  TableSize = 1
  MaxTime = 1
  Wire <- MCWire
  Packet <- MCPacket
  MaxTicks = 2
  MaxBacklog = 0
CHECK_DEADLOCK FALSE
INVARIANT TypeOK
INVARIANT NotLost
INVARIANT OneIsIntact
PROPERTY Settles
