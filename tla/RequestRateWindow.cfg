CONSTANTS
  h1 = h1
  h2 = h2
  h3 = h3
  Handlers = {h1, h2, h3}
  Keys = {k1}
  NoKey = NoKey
  MaxConcurrent = 3
  MaxPerKey = 3
  MaxPerMinute = 1
  Reservations = {}
  BodyLimit = 0
  ResponseMax = 1
  ResponseLimit = 0
  MaxMinute = 2
SPECIFICATION Spec
INVARIANTS
  AtMostMaxPerMinute
