SPECIFICATION Spec
CONSTANTS
  Txs = {t1, t2}
  t1 = t1
  t2 = t2
  MaxOpen = 2
  dock = dock
  quar = quar
  shelfA = shelfA
  shelfB = shelfB
  far = far
  p1 = p1
  p2 = p2
  l1 = l1
  l2 = l2
  l3 = l3
  l4 = l4
  s1 = s1
  Products <- MCProducts
  Bins <- MCBins
  BinType <- MCBinType
  Location <- MCLocation
  HandlingBins = {dock, quar}
  ReceivingBins = {dock}
  QuarantineBin = quar
  PutLines <- MCLines
  LineProduct <- MCLineProduct
  LineQty <- MCLineQty
  LineRatio <- MCLineRatio
  DockBin <- MCDock
  MatchedLines = {l1, l2, l4}
  Stocktakes = {s1}
  DocNumber <- MCDocNumber
  InitialStock <- MCInitialStock
  Dtos <- OverdrawDtos
  AllowNegative = FALSE
  NoBin = NoBin
  NoLine = NoLine
  NoTotal = NoTotal
INVARIANT
  NoNegativeStock
CHECK_DEADLOCK FALSE
