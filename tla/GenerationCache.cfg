CONSTANTS
  k1 = k1
  k2 = k2
  a1 = a1
  a2 = a2
  Keys = {k1, k2}
  Readers = {a1, a2}
  Writers = {w1, w2}
  Capacity = 1
  Gated = TRUE
  None = None
  MaxChanges = 1
SPECIFICATION FairSpec
INVARIANTS
  SingleFlight
PROPERTIES
  LookupsAreFresh
  LookupReturns
