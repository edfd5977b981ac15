CONSTANTS
  h1 = h1
  h2 = h2
  s1 = s1
  s2 = s2
  Markers = {h1, h2}
  Probes = {m1}
  States = {s1, s2}
  NoState = NoState
  Threshold = 1
  MaxVersion = 2
SPECIFICATION LiveSpec
PROPERTIES
  Recovers
  MarkReturns
