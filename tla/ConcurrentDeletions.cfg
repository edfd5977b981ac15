CONSTANTS
  u1 = u1
  u2 = u2
  r1 = r1
  r2 = r2
  g1 = g1
  g2 = g2
  Upstreams = {u1, u2}
  Groups = {g1, g2}
  Keys = {k1}
  Handlers = {r1, r2}
  Nil = Nil
  MaxDeletions = 2
  Logins = {r1, r2}
  Changers = {c1}
  Addresses = {g1, g2}
  Account = Account
  Nobody = Nobody
  Limit = 2
  Window = 2
  Capacity = 2
  MaxHashes = 2
SPECIFICATION MCSpec
SYMMETRY MCSymmetry
INVARIANT
  EnabledGroupHasMember
