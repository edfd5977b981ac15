CONSTANTS
  r1 = r1
  r2 = r2
  b1 = b1
  Requests = {r1, r2, b1}
  Bad = {b1}
  Attributed = {r1, b1}
  Runner = Runner
  Main = Main
  Closers = {Main}
  QueueCap = 1
  BatchSize = 3
  FallbackSlots = 1
  FallbackWaiters = 1
  MaxTries = 2
SPECIFICATION MCSpec
INVARIANTS
  LedgerIsExact
  RefusedRecordsAreIsolated
  NilExitIsClean
  DoneMeansDrained
PROPERTIES
  CallsReturn
  ShutdownReturns
\* Nothing happens once everything is recorded and closed.
CHECK_DEADLOCK FALSE
