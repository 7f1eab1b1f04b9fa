SPECIFICATION Spec
CONSTANTS
  Switch = {1, 2, 3, 4}
  Dst = {1, 2}
  AltPorts <- MCAltPorts
  GroupOffset <- MCGroupOffset
  Group <- MCGroup
  PriceCount = 4
  TableSize = 2
  MaxTime = 1
  Packet <- MCPacket
  LinkPorts <- MCLinkPorts
  MaxPrice = 0
  MaxPending = 2
CHECK_DEADLOCK FALSE
INVARIANT DataIsNotDuplicated
