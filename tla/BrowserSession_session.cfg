CONSTANTS
  Requests = {r1, r2, r3}
  Tokens = {t1, t2, t3}
  Families = {f1, f2}
  Users = {u1, u2}
  Null = Null
  TTL = 2
  Grace = 1
  Lag = 0
  MaxTime = 2
  AccessTTL = 1
  MaxVersion = 1
SYMMETRY Symmetry
SPECIFICATION SessionSpec
INVARIANTS
  SessionTypeOK
  JarHoldsLiveToken
  RetryWithinGrace
  CookiesAgree
