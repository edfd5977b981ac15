CONSTANTS
  e1 = e1
  e2 = e2
  w1 = w1
  w2 = w2
  Events = {e1, e2}
  Channels = {c1}
  Workers = {w1, w2}
  None = None
  BatchSize = 2
  MaxAttempts = 2
  Minute = 2
  MaxCount = 2
  Checks = {w1, w2}
  Slots = 2
  Lifetime = 1
  MaxClock = 1
SPECIFICATION MCSpec
SYMMETRY Symmetry
INVARIANTS
  NoDoubleDelivery
  NothingSilentlyLost
  BestAnswerWins
