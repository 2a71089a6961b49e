CONSTANTS
  Requests = {r1, r2}
  Clients = {c1}
  Users = {u1}
  Uris = {x1}
  Verifiers = {v1}
  Codes = {k1}
  ATokens = {a1}
  RTokens = {f1}
  Null = Null
  CodeTTL = 1
  AccessTTL = 1
  RefreshTTL = 1
  McpAccessTTL = 2
  McpRefreshTTL = 2
  MaxTime = 0
  UserOnRequest = FALSE
SYMMETRY Symmetry
SPECIFICATION Spec
INVARIANTS
  AuthorizationStarts
