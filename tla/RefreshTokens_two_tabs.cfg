CONSTANTS
  Requests = {r1, r2, r3}
  Tokens = {t1, t2, t3}
  Families = {f1}
  Users = {u1}
  Null = Null
  TTL = 2
  Grace = 1
  Lag = 1
  MaxTime = 2
SYMMETRY Symmetry
SPECIFICATION Spec
INVARIANT
  GraceCoversRaces
