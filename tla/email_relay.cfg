SPECIFICATION FairSpec
CONSTANTS
  m1 = m1
  m2 = m2
  m3 = m3
  Mails = {m1, m2, m3}
  OfEntity = {m1}
  BatchLimit = 2
  MaxRetries = 2
  MaxMishaps = 1
  MaxOrders = 1
  NoMail = NoMail
INVARIANTS
  TypeOK
  RepeatsAreMishaps
  FailuresAreTold
PROPERTIES
  DeliversMails
  MailsEnd
CHECK_DEADLOCK FALSE
