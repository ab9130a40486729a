SPECIFICATION FairSpec
CONSTANTS
  e1 = e1
  e2 = e2
  w1 = w1
  w2 = w2
  invoiced = invoiced
  Events = {e1, e2}
  Webhooks = {w1, w2}
  EventType <- MCEventType
  Subscribed <- MCSubscribed
  Limit = 1
  MaxAttempts = 2
  MaxMishaps = 1
  NoEvent = NoEvent
INVARIANTS
  TypeOK
  ProcessedMeansDelivered
  NotifiedIsSeen
  DeadLettersRecorded
PROPERTY
  DeliversEvents
  EventsEnd
