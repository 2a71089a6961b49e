CONSTANTS
  Requests = {r1, r2, r3}
  Clients = {c1, c2}
  Users = {u1}
  Uris = {x1}
  Verifiers = {v1}
  Codes = {k1, k2}
  ATokens = {a1, a2}
  RTokens = {f1, f2}
  Null = Null
  CodeTTL = 1
  AccessTTL = 1
  RefreshTTL = 1
  McpAccessTTL = 2
  McpRefreshTTL = 2
  MaxTime = 1
  UserOnRequest = TRUE
SYMMETRY Symmetry
SPECIFICATION Spec
INVARIANTS
  OAuthTypeOK
  CodeUsedOnce
  TokensGranted
  SpentNotServed
  CascadeReachesGranted
  RevokedNotAccepted
  CascadeMissesOverlap
PROPERTIES
  GrantsImplemented
