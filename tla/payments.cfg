SPECIFICATION FairSpec
CONSTANTS
  Workers = {a, b}
  a = a
  b = b
  p1 = p1
  p2 = p2
  p3 = p3
  p4 = p4
  d1 = d1
  d2 = d2
  Payments = {p1, p2, p3, p4}
  Invoices = {d1, d2}
  PayTotal <- MCPayTotal
  PayRate <- MCPayRate
  InvTotal <- MCInvTotal
  InvRate <- MCInvRate
  MaxDiscount <- MCMaxDiscount
  Requests <- DailyRequests
  MaxBank = 13
  NoWorker = NoWorker
INVARIANTS
  TypeOK
  UnallocatedAgrees
  OutstandingExplained
  LedgersAgree
  PromisesFit
PROPERTIES
  StatesFollowMachine
  PaymentsFinish
CHECK_DEADLOCK FALSE
