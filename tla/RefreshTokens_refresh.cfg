\* A login and two more requests, on one session or two, with clocks that may
\* lag a tick, and a time that passes the grace period by any of them and the
\* expiry of a token.  No symmetry: Answered speaks of each request.
CONSTANTS
  Requests = {r1, r2, r3}
  Tokens = {t1, t2, t3}
  Families = {f1, f2}
  Users = {u1}
  Null = Null
  TTL = 1
  Grace = 1
  Lag = 1
  MaxTime = 3
SPECIFICATION FairSpec
INVARIANTS
  TypeOK
  LiveTokensExplained
  EndedFamily
  GraceServesStaleTab
PROPERTIES
  RevocationIsFinal
  SessionsImplemented
  GraceFailsInWindow
  OnlyPendingRevives
  StaleReplayIsReuse
  Answered
