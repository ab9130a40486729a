SPECIFICATION FairSpec
CONSTANTS
  Txs = {t1, t2}
  t1 = t1
  t2 = t2
  jan = jan
  bank = bank
  ar = ar
  group = group
  cust = cust
  noParty = noParty
  cc1 = cc1
  cc2 = cc2
  payment = payment
  invoice = invoice
  DocRows = {payment, invoice}
  Requests <- ClosingRequests
  Periods = {jan}
  NoPeriod = NoPeriod
  Accounts <- MCAccounts
  Postable <- MCPostable
  Parties = {cust, noParty}
  Dims = {cc1, cc2}
  MaxDay = 1
  Genesis = Genesis
  NoTx = NoTx
PROPERTY
  ClosedPeriodsReceiveNothing
CHECK_DEADLOCK FALSE
