CONSTANTS
  e1 = e1
  e2 = e2
  c1 = c1
  c2 = c2
  w1 = w1
  w2 = w2
  Events = {e1}
  Channels = {c1, c2}
  Workers = {w1}
  None = None
  BatchSize = 2
  MaxAttempts = 2
  Minute = 2
  MaxCount = 2
SPECIFICATION FairSpec
PROPERTY
  HealthyChannelDelivers
