SPECIFICATION FairSpec
CONSTANTS
  e1 = e1
  e2 = e2
  w1 = w1
  w2 = w2
  invoiced = invoiced
  Events = {e1}
  Webhooks = {w1}
  EventType <- MCEventType
  Subscribed <- MCSubscribed
  Limit = 1
  MaxAttempts = 2
  MaxMishaps = 2
  NoEvent = NoEvent
PROPERTY
  EventsEnd
