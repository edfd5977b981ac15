CONSTANTS
  h1 = h1
  h2 = h2
  s1 = s1
  s2 = s2
  Markers = {h1}
  Probes = {m1}
  States = {s1}
  NoState = NoState
  Threshold = 2
  MaxVersion = 2
SPECIFICATION HealthFairSpec
PROPERTIES
  AuthFailureOpensCircuit
