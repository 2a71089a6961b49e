CONSTANTS
  Requests = {r1, r2}
  MaxCalls = 3
  TaskIds = {a}
  List = list
  Replicas = {p1, p2}
  Redis = redis
  Null = Null
  MaxFaults = 1
SPECIFICATION FairSpec
INVARIANTS
  TasksTypeOK
  CacheCoherent
PROPERTIES
  TasksAnswered
