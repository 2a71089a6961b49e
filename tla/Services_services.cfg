CONSTANTS
  Runs = {r1, r2, r3}
  Raw <- RawValues
  RolePermissions <- RoleSets
  DefaultMaxRetries = 2
  DefaultBaseDelayMs = 2
  DefaultMaxDelayMs = 3
  Reads = {d1, d2}
  MaxStarts = 2
  Requests = {q1, q2}
  Users = {u1}
  Roles = {admin, user}
  Admin = admin
  Member = user
  Actions = {read}
  Null = Null
  JwtTTL = 2
  CacheTTL = 1
  MaxTime = 3
  MaxChanges = 2
SYMMETRY Symmetry
SPECIFICATION ServicesSpec
INVARIANTS
  RetryTypeOK
  AppliedOnce
  TriesCounted
  ConflictsAreWon
  ReadsFollowLogin
  KeysMeanArguments
  PermittedBeforeCalled
  TextsArrive
  ServerErrorsExplained
  AccessTypeOK
  OneSignUp
  PermissionLag
  GrantLag
  RoleLag
  ProductionNeedsIdentity
