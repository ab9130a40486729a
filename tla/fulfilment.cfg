SPECIFICATION FairSpec
CONSTANTS
  Workers = {a, b}
  a = a
  b = b
  l1 = l1
  l2 = l2
  Lines = {l1, l2}
  Ordered <- MCOrdered
  near = near
  far = far
  Locations = {near, far}
  Home <- MCHome
  UnitCost <- MCUnitCost
  Requests <- OrderRequests
  Perpetual = TRUE
  MaxPicks = 4
  MaxShipments = 2
  NoWorker = NoWorker
INVARIANTS
  TypeOK
  PicksAgree
  OrderStateAgrees
PROPERTY
  FulfilmentEnds
CHECK_DEADLOCK FALSE
