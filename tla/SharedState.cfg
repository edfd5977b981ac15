CONSTANTS
  h1 = h1
  h2 = h2
  s1 = s1
  s2 = s2
  Handlers = {h1, h2, h3}
  Keys = {k1, k2}
  Probes = {m1}
  Markers = {h1, h2}
  States = {s1, s2}
  NoState = NoState
  Threshold = 2
  MaxVersion = 2
  NoKey = NoKey
  MaxConcurrent = 2
  MaxPerKey = 1
  MaxPerMinute = 1
  Reservations = {1, 2}
  BodyLimit = 3
  ResponseMax = 3
  ResponseLimit = 6
  MaxMinute = 2
  Rates <- MCRates
  Requests <- MCRequests
  Legacy <- MCLegacy
  Budgets <- MCBudgets
  Nil = Nil
  ValidFroms = {Nil, 1}
  MaxTime = 3
  DayHours = 2
  Retention = 2
  HistoryLimit = 2
SPECIFICATION MCSpec
SYMMETRY Symmetry
INVARIANTS
  SemaphoreIsSound
  OwedFailureIsRemembered
  CircuitMatchesHealth
  ResourcesAreExact
  RateLimitHolds
  RatesAreTheTables
  LedgerAgrees
PROPERTIES
  HealthIsEarned
  HistoryStands
  BackfillSettles
\* Every computation comes to an end.
CHECK_DEADLOCK FALSE
