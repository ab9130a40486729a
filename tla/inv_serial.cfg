SPECIFICATION Spec
CONSTANTS
  Txs = {t1, t2, t3}
  t1 = t1
  t2 = t2
  t3 = t3
  MaxOpen = 1
  dock = dock
  quar = quar
  shelfA = shelfA
  shelfB = shelfB
  far = far
  p1 = p1
  p2 = p2
  l1 = l1
  l2 = l2
  l3 = l3
  l4 = l4
  s1 = s1
  Products <- MCProducts
  Bins <- MCBins
  BinType <- MCBinType
  Location <- MCLocation
  HandlingBins = {dock, quar}
  ReceivingBins = {dock}
  QuarantineBin = quar
  PutLines <- MCLines
  LineProduct <- MCLineProduct
  LineQty <- MCLineQty
  LineRatio <- MCLineRatio
  DockBin <- MCDock
  MatchedLines = {l1, l2, l4}
  Stocktakes = {s1}
  DocNumber <- MCDocNumber
  InitialStock <- MCInitialStock
  Dtos <- SerialDtos
  AllowNegative = FALSE
  NoBin = NoBin
  NoLine = NoLine
  NoTotal = NoTotal
INVARIANTS
  NoNegativeStock
  LinesAccountForStagedStock
PROPERTIES
  CompletedIsFinal
CHECK_DEADLOCK FALSE
