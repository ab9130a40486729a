SPECIFICATION Spec
CONSTANTS
  Workers = {a, b}
  a = a
  b = b
  l1 = l1
  l2 = l2
  Lines = {l1, l2}
  Ordered <- MCOrdered
  near = near
  far = near
  Locations = {near}
  Home <- MCHome
  UnitCost <- MCUnitCost
  Requests <- OrderRequests
  Perpetual = TRUE
  MaxPicks = 4
  MaxShipments = 2
  NoWorker = NoWorker
CHECK_DEADLOCK FALSE
PROPERTY
  OnlyPickedIsCancelled
