CONSTANTS
  Requests = {r1, r2, r3}
  Tokens = {t1, t2, t3}
  Families = {f1}
  Users = {u1}
  Null = Null
  TTL = 2
  Grace = 1
  Lag = 0
  MaxTime = 1
  AccessTTL = 1
  MaxVersion = 0
SYMMETRY Symmetry
SPECIFICATION SessionSpec
INVARIANTS
  LogoutEndsSession
