---------------------------- MODULE TaskCacheProofs ----------------------------
(***************************************************************************)
(* Theorems about TaskCache, for any tasks, replicas and calls, in each of *)
(* the three modes, and with any number of faults: the types, and that no  *)
(* stale entry is left that nothing will remove.                           *)
(***************************************************************************)
EXTENDS TaskCache, FiniteSetTheorems, TLAPS

----------------------------------------------------------------------------
(* The one replica that serves where there is no second layer.             *)
Only == CHOOSE p \in Replicas : TRUE

(* What a factory has read so far is what the table holds, unless a write  *)
(* was committed since.                                                    *)
ListRead(r) ==
  /\ got[r].items \in Snapshots \cup {Null} /\ got[r].count \in Counts \cup {Null}
  /\ ~got[r].raced => got[r].items \in {Null, Snapshot} /\ got[r].count \in {Null, Count}
  /\ pc[r] = "store" => got[r].items # Null /\ got[r].count # Null

TaskRead(r) ==
  /\ got[r].items \in Nat \cup {Null} /\ got[r].count = Null
  /\ ~got[r].raced => got[r].items \in {Null, db[call[r].key]}
  /\ IF pc[r] = "store" THEN got[r].items # Null ELSE got[r].items = Null

(* A call knows where it runs and what it is about.                        *)
Underway(r) ==
  /\ call[r] \in Calls
  /\ mode # "shared" => call[r].at = Only
  /\ pc[r] \in {"write", "publish"} => call[r].key \in TaskIds /\ call[r].op # "get"

Placed(r) ==
  /\ pc[r] # "idle" => Underway(r)
  /\ pc[r] \notin {"read", "store"} => got[r] = Unread
  /\ pc[r] \in {"read", "store"} =>
       IF call[r].key = List THEN ListRead(r) ELSE TaskRead(r)

(* The types of the requests, of what the requests and the handlers work   *)
(* on, and of the cache; only one replica has anything where there is no   *)
(* second layer.                                                           *)
Progress == [items : Snapshots \cup Nat \cup {Null}, count : Counts \cup {Null},
             raced : BOOLEAN]

RequestTypes ==
  /\ pc \in [Requests -> {"idle", "lookup", "read", "store", "write", "publish"}]
  /\ call \in [Requests -> Calls \cup {Null}]
  /\ got \in [Requests -> Progress]
  /\ \A r \in Requests : Placed(r)

SharedTypes ==
  /\ mode \in {"none", "memory", "shared"}
  /\ db \in [TaskIds -> Rows]
  /\ bus \subseteq Messages
  /\ handlers \subseteq Handlers
  /\ mode # "shared" => \A h \in handlers : h.at = Only
  /\ calls \in 0..MaxCalls
  /\ faults \in 0..MaxFaults

Held == UNION {Entries(k) \cup {Null} : k \in Keys}

CacheTypes ==
  /\ cache \in [Layers -> [Keys -> Held]]
  /\ \A l \in Layers, k \in Keys : cache[l][k] \in Entries(k) \cup {Null}
  /\ mode # "shared" => \A l \in Layers \ {Only}, k \in Keys : cache[l][k] = Null

TypeInv == RequestTypes /\ SharedTypes /\ CacheTypes

LEMMA TypesHold == TypeInv => TasksTypeOK
<1> SUFFICES ASSUME TypeInv PROVE TasksTypeOK
  OBVIOUS
<1>1. \A r \in Requests : got[r].count \in Counts \cup {Null} /\ got[r].raced \in BOOLEAN
  BY DEF TypeInv, RequestTypes, Progress
<1> QED
  BY <1>1 DEF TypeInv, RequestTypes, SharedTypes, CacheTypes, TasksTypeOK

----------------------------------------------------------------------------
LEMMA Sets ==
  /\ Only \in Replicas /\ Replicas \subseteq Layers /\ Redis \in Layers
  /\ Redis \notin Replicas /\ List \in Keys /\ TaskIds \subseteq Keys /\ List \notin TaskIds
  /\ Keys = TaskIds \cup {List} /\ Layers = Replicas \cup {Redis}
  BY TaskConstants DEF Only, Layers, Keys

LEMMA Nulls ==
  /\ Null \notin Nat /\ Null \notin Snapshots /\ Null \notin Calls /\ Null \notin Counts
  /\ \A k \in Keys : Null \notin Entries(k)
<1>1. Counts \subseteq Nat
  BY FS_CardinalityType, TaskConstants DEF Counts
<1> QED
  BY <1>1, TaskNull

LEMMA SnapshotTypes ==
  ASSUME db \in [TaskIds -> Rows]
  PROVE  Snapshot \in Snapshots /\ Count \in Counts
<1>1. Snapshot \in Snapshots
  BY DEF Snapshot, Snapshots, Rows, Exists
<1>2. {id \in TaskIds : Exists(id)} \in SUBSET TaskIds
  OBVIOUS
<1>3. Count \in Nat /\ Count <= Cardinality(TaskIds) /\ Cardinality(TaskIds) \in Nat
  BY <1>2, FS_Subset, FS_CardinalityType, TaskConstants DEF Count
<1> QED
  BY <1>1, <1>3 DEF Counts

LEMMA UnreadTypes ==
  /\ Unread \in Progress
  /\ Unread.items = Null /\ Unread.count = Null /\ Unread.raced = FALSE
  BY DEF Unread, Progress

(* Serving is one replica, or all of them where the cache is shared.       *)
LEMMA ServingTypes ==
  Serving \subseteq Replicas /\ (mode # "shared" => Serving = {Only})
  BY Sets DEF Serving, Only

LEMMA HeldTypes == \A k \in Keys : Entries(k) \cup {Null} \subseteq Held /\ Null \in Held
  BY DEF Held

(* What a handler has left to do.                                          *)
LEMMA TodoTypes ==
  ASSUME NEW h \in Handlers
  PROVE  /\ h.at \in Replicas
         /\ \/ h.todo = <<"task-relatives">>
            \/ \E id \in TaskIds : h.todo = <<id, "task-relatives">>
         /\ h.todo = <<"task-relatives">> => Head(h.todo) = "task-relatives"
  BY DEF Handlers, Todos

LEMMA TypeInit == Init => TypeInv
<1> SUFFICES ASSUME Init PROVE TypeInv
  OBVIOUS
<1>1. RequestTypes
  BY UnreadTypes DEF Init, RequestTypes, Placed
<1>2. SharedTypes
  BY TaskConstants DEF Init, SharedTypes, Rows
<1>3. CacheTypes
  BY HeldTypes, Sets DEF Init, CacheTypes
<1> QED
  BY <1>1, <1>2, <1>3 DEF TypeInv

----------------------------------------------------------------------------
(* What the steps of a request do to it, and leave of the others.          *)
Stages == {"idle", "lookup", "read", "store", "write", "publish"}

LEMMA GoesTypes ==
  ASSUME TypeInv, NEW r \in Requests, NEW w \in Stages, Goes(r, w)
  PROVE  /\ pc' \in [Requests -> Stages] /\ pc'[r] = w
         /\ \A q \in Requests \ {r} : pc'[q] = pc[q]
  BY DEF TypeInv, RequestTypes, Goes, Stages

LEMMA StartsTypes ==
  ASSUME TypeInv, NEW r \in Requests, NEW o \in {"get", "create", "update", "delete"},
         NEW k \in Keys, NEW w \in Stages, Starts(r, o, k, w)
  PROVE  /\ pc[r] = "idle" /\ calls' \in 0..MaxCalls
         /\ call' \in [Requests -> Calls \cup {Null}]
         /\ call'[r] \in Calls /\ call'[r].op = o /\ call'[r].key = k
         /\ mode # "shared" => call'[r].at = Only
         /\ \A q \in Requests \ {r} : call'[q] = call[q]
         /\ pc' \in [Requests -> Stages] /\ pc'[r] = w
         /\ \A q \in Requests \ {r} : pc'[q] = pc[q]
<1>1. PICK p \in Serving : call' = [call EXCEPT ![r] = [op |-> o, key |-> k, at |-> p]]
  BY DEF Starts
<1>2. p \in Replicas /\ (mode # "shared" => p = Only)
  BY ServingTypes
<1>3. [op |-> o, key |-> k, at |-> p] \in Calls
  BY <1>2 DEF Calls
<1>4. call \in [Requests -> Calls \cup {Null}]
  BY DEF TypeInv, RequestTypes
<1>5. calls' \in 0..MaxCalls
  BY TaskConstants DEF Starts, Arrives, TypeInv, SharedTypes
<1> QED
  BY <1>1, <1>2, <1>3, <1>4, <1>5, GoesTypes DEF Starts, Arrives

(* A request that nothing happens to stays where it was.                   *)
LEMMA PlacedKept ==
  ASSUME TypeInv, NEW q \in Requests, pc'[q] = pc[q], call'[q] = call[q],
         got'[q] = got[q], mode' = mode, db' = db
  PROVE  Placed(q)'
<1>1. Snapshot' = Snapshot /\ Count' = Count
  BY DEF Snapshot, Count, Exists
<1>2. Placed(q)
  BY DEF TypeInv, RequestTypes
<1>3. Underway(q) => Underway(q)'
  BY DEF Underway
<1>4. ListRead(q) => ListRead(q)'
  BY <1>1 DEF ListRead
<1>5. TaskRead(q) => TaskRead(q)'
  BY DEF TaskRead
<1> QED
  BY <1>2, <1>3, <1>4, <1>5 DEF Placed

LEMMA RequestStep ==
  ASSUME TypeInv, NEW r \in Requests, mode' = mode, db' = db, Placed(r)',
         pc' \in [Requests -> Stages], call' \in [Requests -> Calls \cup {Null}],
         got' \in [Requests -> Progress],
         \A q \in Requests \ {r} :
           pc'[q] = pc[q] /\ call'[q] = call[q] /\ got'[q] = got[q]
  PROVE  RequestTypes'
<1>1. ASSUME NEW q \in Requests PROVE Placed(q)'
  BY PlacedKept
<1> QED
  BY <1>1 DEF RequestTypes, Stages

LEMMA EndsTypes ==
  ASSUME TypeInv, NEW r \in Requests, Ends(r), mode' = mode, db' = db
  PROVE  /\ RequestTypes' /\ pc'[r] = "idle"
         /\ \A q \in Requests \ {r} : pc'[q] = pc[q] /\ call'[q] = call[q]
<1>1. /\ pc' \in [Requests -> Stages] /\ pc'[r] = "idle"
      /\ \A q \in Requests \ {r} : pc'[q] = pc[q]
  BY GoesTypes DEF Ends, Stages
<1>2. /\ call' \in [Requests -> Calls \cup {Null}]
      /\ \A q \in Requests \ {r} : call'[q] = call[q]
  BY DEF Ends, TypeInv, RequestTypes
<1>3. /\ got' \in [Requests -> Progress] /\ got'[r] = Unread
      /\ \A q \in Requests \ {r} : got'[q] = got[q]
  BY UnreadTypes DEF Ends, TypeInv, RequestTypes
<1>4. Placed(r)'
  BY <1>1, <1>3 DEF Placed
<1> QED
  BY <1>1, <1>2, <1>3, <1>4, RequestStep

(* A write leaves no factory that has begun to read unmarked.              *)
LEMMA WritesKeep ==
  ASSUME TypeInv, NEW id \in TaskIds, NEW row \in Rows, Writes(id, row), mode' = mode
  PROVE  /\ db' \in [TaskIds -> Rows]
         /\ got' \in [Requests -> Progress]
         /\ \A q \in Requests : got[q] = Unread => got'[q] = Unread
         /\ \A q \in Requests : pc'[q] = pc[q] /\ call'[q] = call[q] => Placed(q)'
<1>1. db' \in [TaskIds -> Rows] /\ got \in [Requests -> Progress]
  BY DEF Writes, TypeInv, RequestTypes, SharedTypes
<1>2. ASSUME NEW q \in Requests
      PROVE  /\ got'[q] = [got[q] EXCEPT !.raced = @ \/ Races(q, id)]
             /\ got[q] \in Progress
  BY <1>1 DEF Writes
<1>3. ASSUME NEW q \in Requests
      PROVE  /\ got'[q] \in Progress /\ got'[q].items = got[q].items
             /\ got'[q].count = got[q].count
             /\ ~got'[q].raced => ~got[q].raced /\ ~Races(q, id)
             /\ got[q] = Unread => got'[q] = Unread
  <2>1. PICK g \in Progress : g = got[q]
    BY <1>2
  <2>2. CASE Races(q, id)
    <3>1. (g.raced \/ Races(q, id)) = TRUE
      BY <2>2
    <3>2. got'[q] = [g EXCEPT !.raced = TRUE]
      BY <1>2, <2>1, <3>1
    <3>3. got[q] # Unread
      BY <2>2 DEF Races
    <3> QED
      BY <2>1, <3>2, <3>3 DEF Progress
  <2>3. CASE ~Races(q, id)
    <3>1. g.raced \in BOOLEAN /\ [g EXCEPT !.raced = g.raced] = g
      BY DEF Progress
    <3>2. (g.raced \/ Races(q, id)) = g.raced
      BY <2>3, <3>1
    <3>3. got'[q] = [g EXCEPT !.raced = g.raced \/ Races(q, id)]
      BY <1>2, <2>1
    <3>4. got'[q] = g
      BY <3>1, <3>2, <3>3
    <3> QED
      BY <2>1, <2>3, <3>4
  <2> QED
    BY <2>2, <2>3
<1>4. got' \in [Requests -> Progress]
  BY <1>3 DEF Writes
<1>5. ASSUME NEW q \in Requests, pc'[q] = pc[q], call'[q] = call[q]
      PROVE  Placed(q)'
  <2>1. Placed(q)
    BY DEF TypeInv, RequestTypes
  <2>2. Underway(q) => Underway(q)'
    BY <1>5 DEF Underway
  <2>3. got[q] = Unread => got[q].items = Null /\ got[q].count = Null
    BY UnreadTypes
  <2>4. ASSUME call[q].key = List, ListRead(q) PROVE ListRead(q)'
    <3>1. ~Races(q, id) => got[q] = Unread
      BY <2>4 DEF Races, Affected
    <3> QED
      BY <1>3, <1>5, <2>3, <2>4, <3>1 DEF ListRead
  <2>5. ASSUME TaskRead(q), Underway(q), call[q].key # List PROVE TaskRead(q)'
    <3>1. call[q].key \in TaskIds
      BY <2>5, Sets DEF Underway, Calls, Keys
    <3>2. ~Races(q, id) => got[q] = Unread \/ db'[call[q].key] = db[call[q].key]
      BY <3>1 DEF Races, Affected, Writes, TypeInv, SharedTypes
    <3> QED
      BY <1>3, <1>5, <2>3, <2>5, <3>2 DEF TaskRead
  <2> QED
    BY <1>3, <1>5, <2>1, <2>2, <2>4, <2>5 DEF Placed
<1> QED
  BY <1>1, <1>3, <1>4, <1>5

----------------------------------------------------------------------------
(* An entry that is stale is under way to its invalidation, or excused.    *)
Chased(l, k) ==
  \/ cache[l][k].excused
  \/ \E p \in Replicas : Invalidating(p, k)
  \/ \E m \in bus : m.to = l /\ k \in m.drop

Inv == TypeInv /\ CacheCoherent

LEMMA CoherentParts ==
  /\ CacheCoherent <=> \A l \in Layers, k \in Keys : Stale(l, k) => Chased(l, k)
  /\ CacheCoherent' <=> \A l \in Layers, k \in Keys : Stale(l, k)' => Chased(l, k)'
  BY DEF CacheCoherent, Chased

(* No invalidation ends.                                                   *)
ChaseGoesOn ==
  /\ \A q \in Requests : pc[q] = "publish" => pc'[q] = "publish" /\ call'[q] = call[q]
  /\ handlers \subseteq handlers'
  /\ bus \subseteq bus'

LEMMA InvalidatingGoesOn ==
  ASSUME ChaseGoesOn, NEW p \in Replicas, NEW k \in Keys, Invalidating(p, k)
  PROVE  Invalidating(p, k)'
  BY DEF ChaseGoesOn, Invalidating

LEMMA CurrentLeft == db' = db => \A k \in Keys : Current(k)' = Current(k)
  BY DEF Current, Snapshot, Count, Exists

LEMMA EntryLeft ==
  ASSUME CacheCoherent, NEW l \in Layers, NEW k \in Keys, Current(k)' = Current(k),
         cache'[l][k] = cache[l][k], Stale(l, k)',
         \A p \in Replicas : Invalidating(p, k) => Invalidating(p, k)',
         \A m \in bus : m.to = l /\ k \in m.drop => m \in bus'
  PROVE  Chased(l, k)'
<1>1. Stale(l, k)
  BY DEF Stale
<1>2. Chased(l, k)
  BY <1>1, CoherentParts
<1>3. CASE cache[l][k].excused
  BY <1>3 DEF Chased
<1>4. CASE \E p \in Replicas : Invalidating(p, k)
  BY <1>4 DEF Chased
<1>5. CASE \E m \in bus : m.to = l /\ k \in m.drop
  BY <1>5 DEF Chased
<1> QED
  BY <1>2, <1>3, <1>4, <1>5 DEF Chased

LEMMA EntryKept ==
  ASSUME CacheCoherent, ChaseGoesOn, db' = db, NEW l \in Layers, NEW k \in Keys,
         cache'[l][k] = cache[l][k], Stale(l, k)'
  PROVE  Chased(l, k)'
<1>1. \A p \in Replicas : Invalidating(p, k) => Invalidating(p, k)'
  BY InvalidatingGoesOn
<1>2. \A m \in bus : m.to = l /\ k \in m.drop => m \in bus'
  BY DEF ChaseGoesOn
<1> QED
  BY <1>1, <1>2, CurrentLeft, EntryLeft

LEMMA CacheKept ==
  ASSUME Inv, ChaseGoesOn, db' = db, cache' = cache, mode' = mode
  PROVE  CacheCoherent' /\ CacheTypes'
<1>1. CacheCoherent'
  BY EntryKept, CoherentParts DEF Inv
<1>2. CacheTypes'
  BY DEF Inv, TypeInv, CacheTypes
<1> QED
  BY <1>1, <1>2

(* While a handler runs, every entry may be stale: it drops them all.      *)
LEMMA HandlerCovers ==
  ASSUME NEW p \in Replicas, NEW h \in handlers', h.at = p
  PROVE  CacheCoherent'
  BY DEF CacheCoherent, Invalidating

----------------------------------------------------------------------------
(* The steps of a request that touch neither the table nor the cache.      *)
StillShared == UNCHANGED <<mode, db, cache, bus, handlers, faults>>

LEMMA QuietSteps ==
  ASSUME Inv, NEW r \in Requests, StillShared, RequestTypes', calls' \in 0..MaxCalls,
         pc[r] # "publish",
         \A q \in Requests \ {r} : pc'[q] = pc[q] /\ call'[q] = call[q]
  PROVE  Inv'
<1>1. ChaseGoesOn
  BY DEF StillShared, ChaseGoesOn
<1>2. CacheCoherent' /\ CacheTypes'
  BY <1>1, CacheKept DEF StillShared
<1>3. SharedTypes'
  BY DEF Inv, TypeInv, SharedTypes, StillShared
<1> QED
  BY <1>2, <1>3 DEF Inv, TypeInv

LEMMA EndingSteps ==
  ASSUME Inv, NEW r \in Requests, StillShared, Ends(r), calls' = calls, pc[r] # "publish"
  PROVE  Inv'
<1>1. /\ RequestTypes'
      /\ \A q \in Requests \ {r} : pc'[q] = pc[q] /\ call'[q] = call[q]
  BY EndsTypes DEF Inv, StillShared
<1>2. calls' \in 0..MaxCalls
  BY DEF Inv, TypeInv, SharedTypes
<1> QED
  BY <1>1, <1>2, QuietSteps

LEMMA GetKeeps ==
  ASSUME Inv, NEW r \in Requests, NEW k \in Keys, Get(r, k)
  PROVE  Inv'
<1>1. PICK w \in {"read", "lookup"} : Starts(r, "get", k, w)
  BY DEF Get
<1>2. /\ TypeInv /\ w \in Stages /\ StillShared /\ got' = got
  BY DEF Get, Inv, Stages, StillShared
<1>3. /\ pc[r] = "idle" /\ calls' \in 0..MaxCalls
      /\ call' \in [Requests -> Calls \cup {Null}]
      /\ call'[r] \in Calls /\ call'[r].op = "get" /\ call'[r].key = k
      /\ mode # "shared" => call'[r].at = Only
      /\ \A q \in Requests \ {r} : call'[q] = call[q]
      /\ pc' \in [Requests -> Stages] /\ pc'[r] = w
      /\ \A q \in Requests \ {r} : pc'[q] = pc[q]
  BY <1>1, <1>2, StartsTypes
<1>4. got[r] = Unread /\ got' \in [Requests -> Progress]
  BY <1>2, <1>3 DEF TypeInv, RequestTypes, Placed
<1>5. Placed(r)'
  <2>1. Underway(r)'
    BY <1>2, <1>3 DEF Underway, StillShared
  <2>2. ListRead(r)' /\ TaskRead(r)'
    BY <1>2, <1>3, <1>4, UnreadTypes DEF ListRead, TaskRead
  <2> QED
    BY <1>2, <1>3, <1>4, <2>1, <2>2 DEF Placed
<1>6. RequestTypes'
  BY <1>2, <1>3, <1>4, <1>5, RequestStep DEF StillShared
<1> QED
  BY <1>2, <1>3, <1>6, QuietSteps

LEMMA ChangeKeeps ==
  ASSUME Inv, NEW r \in Requests, NEW o \in {"update", "delete"}, NEW id \in TaskIds,
         Change(r, o, id)
  PROVE  Inv'
<1>1. /\ TypeInv /\ Starts(r, o, id, "write") /\ StillShared /\ got' = got
      /\ id \in Keys
  BY Sets DEF Change, Inv, StillShared
<1>2. /\ pc[r] = "idle" /\ calls' \in 0..MaxCalls
      /\ call' \in [Requests -> Calls \cup {Null}]
      /\ call'[r] \in Calls /\ call'[r].op = o /\ call'[r].key = id
      /\ mode # "shared" => call'[r].at = Only
      /\ \A q \in Requests \ {r} : call'[q] = call[q]
      /\ pc' \in [Requests -> Stages] /\ pc'[r] = "write"
      /\ \A q \in Requests \ {r} : pc'[q] = pc[q]
  BY <1>1, StartsTypes DEF Stages
<1>3. got[r] = Unread /\ got' \in [Requests -> Progress]
  BY <1>1, <1>2 DEF TypeInv, RequestTypes, Placed
<1>4. Placed(r)'
  BY <1>1, <1>2, <1>3 DEF Placed, Underway, StillShared
<1>5. RequestTypes'
  BY <1>1, <1>2, <1>3, <1>4, RequestStep DEF StillShared
<1> QED
  BY <1>1, <1>2, <1>5, QuietSteps

(* One goes to the database with nothing read.                             *)
LEMMA MissKeeps ==
  ASSUME Inv, NEW r \in Requests, NEW p \in Replicas, NEW k \in Keys, Miss(r, p, k)
  PROVE  Inv'
<1>1. /\ TypeInv /\ StillShared /\ UNCHANGED <<call, got, calls>>
      /\ pc[r] = "lookup" /\ Goes(r, "read")
  BY DEF Miss, LooksUp, Inv, StillShared
<1>2. /\ pc' \in [Requests -> Stages] /\ pc'[r] = "read"
      /\ \A q \in Requests \ {r} : pc'[q] = pc[q]
  BY <1>1, GoesTypes DEF Stages
<1>3. Underway(r) /\ got[r] = Unread
  BY <1>1 DEF TypeInv, RequestTypes, Placed
<1>4. Placed(r)'
  <2>1. Underway(r)'
    BY <1>1, <1>2, <1>3 DEF Underway, StillShared
  <2>2. ListRead(r)' /\ TaskRead(r)'
    BY <1>1, <1>2, <1>3, UnreadTypes DEF ListRead, TaskRead
  <2> QED
    BY <1>2, <2>1, <2>2 DEF Placed
<1>5. /\ call' \in [Requests -> Calls \cup {Null}] /\ got' \in [Requests -> Progress]
      /\ calls' \in 0..MaxCalls
  BY <1>1 DEF TypeInv, RequestTypes, SharedTypes
<1>6. RequestTypes'
  BY <1>1, <1>2, <1>4, <1>5, RequestStep DEF StillShared
<1> QED
  BY <1>1, <1>2, <1>5, <1>6, QuietSteps

(* What a step of a factory reads.                                         *)
LEMMA FactorySteps ==
  ASSUME Inv, NEW r \in Requests, StillShared, UNCHANGED <<call, calls>>, pc[r] = "read",
         NEW w \in {"read", "store"}, Goes(r, w),
         NEW g \in Progress, got' = [got EXCEPT ![r] = g],
         call[r].key = List => ListRead(r)',
         call[r].key # List => TaskRead(r)'
  PROVE  Inv'
<1>1. TypeInv /\ w \in Stages
  BY DEF Inv, Stages
<1>2. /\ pc' \in [Requests -> Stages] /\ pc'[r] = w
      /\ \A q \in Requests \ {r} : pc'[q] = pc[q]
  BY <1>1, GoesTypes
<1>3. /\ got' \in [Requests -> Progress]
      /\ \A q \in Requests \ {r} : got'[q] = got[q]
  BY <1>1 DEF TypeInv, RequestTypes
<1>4. Underway(r)'
  BY <1>1, <1>2 DEF TypeInv, RequestTypes, Placed, Underway, StillShared
<1>5. Placed(r)'
  BY <1>2, <1>4 DEF Placed
<1>6. call' \in [Requests -> Calls \cup {Null}] /\ calls' \in 0..MaxCalls
  BY <1>1 DEF TypeInv, RequestTypes, SharedTypes
<1>7. RequestTypes'
  BY <1>1, <1>2, <1>3, <1>5, <1>6, RequestStep DEF StillShared
<1> QED
  BY <1>2, <1>6, <1>7, QuietSteps

LEMMA ReadTaskKeeps ==
  ASSUME Inv, NEW r \in Requests, ReadTask(r)
  PROVE  Inv'
<1>1. /\ TypeInv /\ StillShared /\ calls' = calls /\ pc[r] = "read"
      /\ call[r].key \in TaskIds /\ call[r].key # List
  BY Sets DEF ReadTask, Reads, Inv, StillShared
<1>2. CASE ~Exists(call[r].key)
  BY <1>1, <1>2, EndingSteps DEF ReadTask
<1>3. CASE Exists(call[r].key)
  <2>1. PICK n \in Nat : n = db[call[r].key]
    BY <1>3 DEF Exists
  <2>2. /\ got' = [got EXCEPT ![r].items = n] /\ Goes(r, "store") /\ call' = call
    BY <1>3, <2>1 DEF ReadTask
  <2>3. got[r] \in Progress /\ got \in [Requests -> Progress] /\ TaskRead(r)
    BY <1>1 DEF TypeInv, RequestTypes, Placed
  <2>4. PICK g : g = [got[r] EXCEPT !.items = n]
    OBVIOUS
  <2>5. g \in Progress /\ g.items = n /\ g.count = got[r].count /\ g.raced = got[r].raced
    BY <2>3, <2>4 DEF Progress
  <2>6. got' = [got EXCEPT ![r] = g] /\ got'[r] = g
    BY <2>2, <2>3, <2>4
  <2>7. pc'[r] = "store"
    BY <1>1, <2>2, GoesTypes DEF Stages
  <2>8. TaskRead(r)'
    BY <1>1, <2>1, <2>2, <2>3, <2>5, <2>6, <2>7, Nulls DEF TaskRead, StillShared
  <2> QED
    BY <1>1, <2>2, <2>5, <2>6, <2>8, FactorySteps
<1> QED
  BY <1>2, <1>3

(* findMany and count, each with the other's result kept.                  *)
LEMMA ReadListKeeps ==
  ASSUME Inv, NEW r \in Requests, ReadItems(r) \/ ReadCount(r)
  PROVE  Inv'
<1>1. /\ TypeInv /\ StillShared /\ UNCHANGED <<call, calls>> /\ pc[r] = "read"
      /\ call[r].key = List
  BY DEF ReadItems, ReadCount, Reads, Inv, StillShared
<1>2. got[r] \in Progress /\ got \in [Requests -> Progress] /\ ListRead(r)
  BY <1>1 DEF TypeInv, RequestTypes, Placed
<1>3. Snapshot \in Snapshots /\ Count \in Counts /\ Snapshot' = Snapshot /\ Count' = Count
  <2>1. Snapshot' = Snapshot /\ Count' = Count
    BY <1>1 DEF StillShared, Snapshot, Count, Exists
  <2> QED
    BY <1>1, <2>1, SnapshotTypes DEF TypeInv, SharedTypes
<1>4. CASE ReadItems(r)
  <2>1. PICK s \in Snapshots : s = Snapshot
    BY <1>3
  <2>2. PICK w \in {"read", "store"} :
          /\ Goes(r, w) /\ (w = "store" => got[r].count # Null)
          /\ got' = [got EXCEPT ![r].items = s]
    BY <1>4, <2>1 DEF ReadItems
  <2>3. PICK g : g = [got[r] EXCEPT !.items = s]
    OBVIOUS
  <2>4. g \in Progress /\ g.items = s /\ g.count = got[r].count /\ g.raced = got[r].raced
    BY <1>2, <2>3 DEF Progress
  <2>5. got' = [got EXCEPT ![r] = g] /\ got'[r] = g
    BY <1>2, <2>2, <2>3
  <2>6. pc'[r] = w
    BY <1>1, <2>2, GoesTypes DEF Stages
  <2>7. ListRead(r)'
    BY <1>2, <1>3, <2>1, <2>2, <2>4, <2>5, <2>6, Nulls DEF ListRead
  <2> QED
    BY <1>1, <2>2, <2>4, <2>5, <2>7, FactorySteps
<1>5. CASE ReadCount(r)
  <2>1. PICK n \in Counts : n = Count
    BY <1>3
  <2>2. PICK w \in {"read", "store"} :
          /\ Goes(r, w) /\ (w = "store" => got[r].items # Null)
          /\ got' = [got EXCEPT ![r].count = n]
    BY <1>5, <2>1 DEF ReadCount
  <2>3. PICK g : g = [got[r] EXCEPT !.count = n]
    OBVIOUS
  <2>4. g \in Progress /\ g.items = got[r].items /\ g.count = n /\ g.raced = got[r].raced
    BY <1>2, <2>3 DEF Progress
  <2>5. got' = [got EXCEPT ![r] = g] /\ got'[r] = g
    BY <1>2, <2>2, <2>3
  <2>6. pc'[r] = w
    BY <1>1, <2>2, GoesTypes DEF Stages
  <2>7. ListRead(r)'
    BY <1>2, <1>3, <2>1, <2>2, <2>4, <2>5, <2>6, Nulls DEF ListRead
  <2> QED
    BY <1>1, <2>2, <2>4, <2>5, <2>7, FactorySteps
<1> QED
  BY <1>4, <1>5

(* A call that changes nothing, and one that stops.                        *)
LEMMA RefusedKeeps ==
  ASSUME Inv, NEW r \in Requests, Refused(r)
  PROVE  Inv'
<1>1. /\ TypeInv /\ StillShared /\ UNCHANGED <<pc, call, got>> /\ pc[r] = "idle"
      /\ calls' \in 0..MaxCalls
  BY TaskConstants DEF Refused, Arrives, Inv, StillShared, TypeInv, SharedTypes
<1>2. RequestTypes'
  <2>1. ASSUME NEW q \in Requests PROVE Placed(q)'
    BY <1>1, PlacedKept DEF StillShared
  <2> QED
    BY <1>1, <2>1 DEF RequestTypes, TypeInv
<1> QED
  BY <1>1, <1>2, QuietSteps

LEMMA StoppingKeeps ==
  ASSUME Inv, NEW r \in Requests,
         \/ \E p \in Replicas, k \in Keys : Hit(r, p, k)
         \/ ChangeGone(r)
         \/ Fail(r)
  PROVE  Inv'
<1>1. Ends(r) /\ StillShared /\ calls' = calls /\ pc[r] # "publish"
  BY DEF Hit, LooksUp, ChangeGone, Fail, StillShared
<1> QED
  BY <1>1, EndingSteps

----------------------------------------------------------------------------
(* A committed write is followed by an invalidation, which is yet to come. *)
LEMMA WritingSteps ==
  ASSUME Inv, NEW r \in Requests, NEW id \in TaskIds, NEW row \in Rows, Writes(id, row),
         UNCHANGED <<mode, cache, bus, handlers, faults>>, calls' \in 0..MaxCalls,
         pc' \in [Requests -> Stages], call' \in [Requests -> Calls \cup {Null}],
         pc[r] # "publish", pc'[r] = "publish", Underway(r)', call'[r].key = id,
         got[r] = Unread,
         \A q \in Requests \ {r} : pc'[q] = pc[q] /\ call'[q] = call[q]
  PROVE  Inv'
<1>1. TypeInv
  BY DEF Inv
<1>2. /\ db' \in [TaskIds -> Rows] /\ got' \in [Requests -> Progress] /\ got'[r] = Unread
      /\ \A q \in Requests \ {r} : Placed(q)'
  BY <1>1, WritesKeep
<1>3. Placed(r)'
  BY <1>2 DEF Placed
<1>4. RequestTypes'
  BY <1>2, <1>3 DEF RequestTypes, Stages
<1>5. SharedTypes' /\ CacheTypes'
  BY <1>1, <1>2 DEF TypeInv, SharedTypes, CacheTypes
<1>6. call'[r].at \in Replicas
  BY DEF Underway, Calls
<1>7. PICK p \in Replicas : p = call'[r].at
  BY <1>6
<1>8. call'[r].key = id => CacheCoherent'
  <2> SUFFICES ASSUME call'[r].key = id, NEW l \in Layers, NEW k \in Keys, Stale(l, k)'
               PROVE  Chased(l, k)'
    BY CoherentParts
  <2>1. CASE k \in Affected(id)
    <3>1. Invalidating(p, k)'
      BY <1>7, <2>1 DEF Invalidating
    <3> QED
      BY <3>1 DEF Chased
  <2>2. CASE k \notin Affected(id)
    <3>1. k # List /\ k # id /\ k \in TaskIds
      BY <2>2, Sets DEF Affected, Keys
    <3>2. Current(k)' = Current(k)
      BY <1>1, <3>1 DEF Current, Writes, TypeInv, SharedTypes
    <3>3. \A s \in Replicas : Invalidating(s, k) => Invalidating(s, k)'
      BY DEF Invalidating
    <3> QED
      BY <3>2, <3>3, EntryLeft DEF Inv
  <2> QED
    BY <2>1, <2>2
<1>9. CacheCoherent'
  BY <1>8
<1> QED
  BY <1>4, <1>5, <1>9 DEF Inv, TypeInv

LEMMA CreateKeeps ==
  ASSUME Inv, NEW r \in Requests, NEW id \in TaskIds, Create(r, id)
  PROVE  Inv'
<1>1. /\ TypeInv /\ id \in Keys /\ Starts(r, "create", id, "publish")
      /\ UNCHANGED <<mode, cache, bus, handlers, faults>> /\ Writes(id, 0) /\ 0 \in Rows
  BY Sets DEF Create, Inv, Rows
<1>2. /\ pc[r] = "idle" /\ calls' \in 0..MaxCalls
      /\ call' \in [Requests -> Calls \cup {Null}]
      /\ call'[r] \in Calls /\ call'[r].op = "create" /\ call'[r].key = id
      /\ mode # "shared" => call'[r].at = Only
      /\ \A q \in Requests \ {r} : call'[q] = call[q]
      /\ pc' \in [Requests -> Stages] /\ pc'[r] = "publish"
      /\ \A q \in Requests \ {r} : pc'[q] = pc[q]
  BY <1>1, StartsTypes DEF Stages
<1>3. got[r] = Unread
  BY <1>1, <1>2 DEF TypeInv, RequestTypes, Placed
<1>4. Underway(r)'
  BY <1>1, <1>2 DEF Underway
<1> QED
  BY <1>1, <1>2, <1>3, <1>4, WritingSteps

LEMMA WriteKeeps ==
  ASSUME Inv, NEW r \in Requests, NEW id \in TaskIds, Update(r, id) \/ Delete(r, id)
  PROVE  Inv'
<1>1. /\ TypeInv /\ UNCHANGED <<mode, cache, bus, handlers, faults, call, calls>>
      /\ pc[r] = "write" /\ Goes(r, "publish") /\ call[r].key = id
  BY DEF Update, Delete, Writing, Inv
<1>2. PICK row \in Rows : Writes(id, row)
  <2>1. CASE Update(r, id)
    <3>1. db[id] + 1 \in Rows /\ Writes(id, db[id] + 1)
      BY <2>1 DEF Update, Exists, Rows
    <3> QED
      BY <3>1
  <2>2. CASE Delete(r, id)
    <3>1. Gone \in Rows /\ Writes(id, Gone)
      BY <2>2 DEF Delete, Rows
    <3> QED
      BY <3>1
  <2> QED
    BY <2>1, <2>2
<1>3. /\ pc' \in [Requests -> Stages] /\ pc'[r] = "publish"
      /\ \A q \in Requests \ {r} : pc'[q] = pc[q]
  BY <1>1, GoesTypes DEF Stages
<1>4. Underway(r) /\ got[r] = Unread
  BY <1>1 DEF TypeInv, RequestTypes, Placed
<1>5. Underway(r)'
  BY <1>1, <1>3, <1>4 DEF Underway
<1>6. call' \in [Requests -> Calls \cup {Null}] /\ calls' \in 0..MaxCalls
  BY <1>1 DEF TypeInv, RequestTypes, SharedTypes
<1> QED
  BY <1>1, <1>2, <1>3, <1>4, <1>5, <1>6, WritingSteps

(* The event takes over from the request that published it.                *)
LEMMA PublishKeeps ==
  ASSUME Inv, NEW r \in Requests, Publish(r)
  PROVE  Inv'
<1>1. /\ TypeInv /\ UNCHANGED <<mode, db, cache, bus, calls, faults>>
      /\ pc[r] = "publish" /\ Ends(r)
  BY DEF Publish, Inv
<1>2. RequestTypes'
  BY <1>1, EndsTypes
<1>3. Underway(r)
  BY <1>1 DEF TypeInv, RequestTypes, Placed
<1>4. PICK p \in Replicas, id \in TaskIds :
        p = call[r].at /\ id = call[r].key /\ (mode # "shared" => p = Only)
  BY <1>1, <1>3 DEF Underway, Calls
<1>5. PICK t \in Todos : handlers' = handlers \cup {[at |-> p, todo |-> t]}
  BY <1>4 DEF Publish, Todos
<1>6. PICK h : h = [at |-> p, todo |-> t]
  OBVIOUS
<1>7. h \in Handlers /\ h.at = p /\ handlers' = handlers \cup {h}
  BY <1>5, <1>6 DEF Handlers
<1>8. SharedTypes' /\ CacheTypes'
  BY <1>1, <1>4, <1>7 DEF TypeInv, SharedTypes, CacheTypes
<1>9. CacheCoherent'
  BY <1>7, HandlerCovers
<1> QED
  BY <1>2, <1>8, <1>9 DEF Inv, TypeInv

----------------------------------------------------------------------------
(* The entry of the second layer is stale, if it is, for the same reason,  *)
(* and no message is for Redis.                                            *)
LEMMA HitRedisKeeps ==
  ASSUME Inv, NEW r \in Requests, NEW p \in Replicas, NEW k \in Keys, HitRedis(r, p, k)
  PROVE  Inv'
<1>1. /\ TypeInv /\ UNCHANGED <<mode, db, bus, handlers, calls, faults>>
      /\ pc[r] = "lookup" /\ Ends(r) /\ cache[Redis][k] # Null
      /\ cache' = [cache EXCEPT ![p][k] = cache[Redis][k]]
  BY DEF HitRedis, LooksUp, Inv
<1>2. /\ RequestTypes'
      /\ \A q \in Requests \ {r} : pc'[q] = pc[q] /\ call'[q] = call[q]
  BY <1>1, EndsTypes
<1>3. SharedTypes'
  BY <1>1 DEF TypeInv, SharedTypes
<1>4. mode = "shared"
  BY <1>1, Sets DEF TypeInv, CacheTypes
<1>5. /\ cache \in [Layers -> [Keys -> Held]] /\ p \in Layers /\ Redis \in Layers
      /\ cache[Redis][k] \in Entries(k) \cup {Null}
  BY <1>1, Sets DEF TypeInv, CacheTypes
<1>6. /\ cache' \in [Layers -> [Keys -> Held]]
      /\ \A l \in Layers, j \in Keys :
           cache'[l][j] = IF l = p /\ j = k THEN cache[Redis][k] ELSE cache[l][j]
  BY <1>1, <1>5
<1>7. CacheTypes'
  BY <1>1, <1>4, <1>5, <1>6 DEF TypeInv, CacheTypes
<1>8. ChaseGoesOn
  BY <1>1, <1>2 DEF ChaseGoesOn
<1>9. ASSUME NEW l \in Layers, NEW j \in Keys, Stale(l, j)' PROVE Chased(l, j)'
  <2>1. CASE ~(l = p /\ j = k)
    BY <1>1, <1>6, <1>8, <1>9, <2>1, EntryKept DEF Inv
  <2>2. CASE l = p /\ j = k
    <3>1. cache'[l][j] = cache[Redis][k]
      BY <1>6, <2>2
    <3>2. Stale(Redis, k)
      BY <1>1, <1>9, <2>2, <3>1 DEF Stale, Current, Snapshot, Count, Exists
    <3>3. Chased(Redis, k)
      BY <3>2, CoherentParts, Sets DEF Inv
    <3>4. \A m \in bus : m.to # Redis
      BY <1>1, Sets DEF TypeInv, SharedTypes, Messages
    <3>5. CASE cache[Redis][k].excused
      BY <3>1, <3>5 DEF Chased
    <3>6. CASE \E s \in Replicas : Invalidating(s, k)
      BY <1>8, <2>2, <3>6, InvalidatingGoesOn DEF Chased
    <3> QED
      BY <3>3, <3>4, <3>5, <3>6 DEF Chased
  <2> QED
    BY <2>1, <2>2
<1>10. CacheCoherent'
  BY <1>9, CoherentParts
<1> QED
  BY <1>2, <1>3, <1>7, <1>10 DEF Inv, TypeInv

(* What a factory stores is current, or excused; the other replicas are    *)
(* told to drop what they hold.                                            *)
LEMMA StoredValue ==
  ASSUME TypeInv, NEW r \in Requests, pc[r] = "store", NEW k \in Keys, k = call[r].key
  PROVE  /\ [value |-> Value(r), excused |-> got[r].raced] \in Entries(k)
         /\ ~got[r].raced => Value(r) = Current(k)
<1>1. got[r].raced \in BOOLEAN
  BY DEF TypeInv, RequestTypes, Progress
<1>2. CASE k = List
  <2>1. ListRead(r)
    BY <1>2 DEF TypeInv, RequestTypes, Placed
  <2>2. got[r].items \in Snapshots /\ got[r].count \in Counts
    BY <2>1 DEF ListRead
  <2>3. Value(r) = [items |-> got[r].items, count |-> got[r].count]
    BY <1>2 DEF Value
  <2>4. ~got[r].raced => got[r].items = Snapshot /\ got[r].count = Count
    BY <2>1 DEF ListRead
  <2> QED
    BY <1>1, <1>2, <2>2, <2>3, <2>4 DEF Entries, Lists, Current
<1>3. CASE k # List
  <2>1. TaskRead(r)
    BY <1>3 DEF TypeInv, RequestTypes, Placed
  <2>2. got[r].items \in Nat /\ Value(r) = got[r].items
    BY <1>3, <2>1 DEF TaskRead, Value
  <2>3. ~got[r].raced => got[r].items = db[k]
    BY <2>1 DEF TaskRead
  <2> QED
    BY <1>1, <1>3, <2>2, <2>3 DEF Entries, Current
<1> QED
  BY <1>2, <1>3

LEMMA TellsTypes ==
  ASSUME TypeInv, NEW p \in Replicas, NEW ks \in SUBSET Keys, Tells(p, ks)
  PROVE  /\ bus \subseteq bus' /\ bus' \subseteq Messages
         /\ mode = "shared" =>
              \A q \in Replicas \ {p} : \E m \in bus' : m.to = q /\ m.drop = ks
<1>1. PICK qs \in SUBSET Replicas :
        /\ bus' = bus \cup [to : qs, drop : {ks}]
        /\ mode = "shared" => qs = Replicas \ {p}
  BY DEF Tells
<1>2. bus' \subseteq Messages
  BY <1>1 DEF TypeInv, SharedTypes, Messages
<1>3. ASSUME NEW q \in qs PROVE \E m \in bus' : m.to = q /\ m.drop = ks
  <2>1. [to |-> q, drop |-> ks] \in bus'
    BY <1>1
  <2> QED
    BY <2>1
<1> QED
  BY <1>1, <1>2, <1>3

LEMMA StoreKeeps ==
  ASSUME Inv, NEW r \in Requests, Store(r)
  PROVE  Inv'
<1>1. /\ TypeInv /\ pc[r] = "store" /\ Ends(r)
      /\ UNCHANGED <<mode, db, handlers, calls, faults>>
  BY DEF Store, Inv
<1>2. /\ RequestTypes'
      /\ \A q \in Requests \ {r} : pc'[q] = pc[q] /\ call'[q] = call[q]
  BY <1>1, EndsTypes
<1>3. Underway(r)
  BY <1>1 DEF TypeInv, RequestTypes, Placed
<1>4. PICK p \in Replicas, k \in Keys :
        p = call[r].at /\ k = call[r].key /\ (mode # "shared" => p = Only)
  BY <1>3 DEF Underway, Calls
<1>5. CASE mode = "none"
  <2>1. UNCHANGED <<cache, bus>>
    BY <1>5 DEF Store
  <2>2. ChaseGoesOn
    BY <1>1, <1>2, <2>1 DEF ChaseGoesOn
  <2>3. SharedTypes'
    BY <1>1, <2>1 DEF TypeInv, SharedTypes
  <2> QED
    BY <1>1, <1>2, <2>1, <2>2, <2>3, CacheKept DEF Inv, TypeInv
<1>6. CASE mode # "none"
  <2>1. PICK e \in Entries(k) :
          /\ e = [value |-> Value(r), excused |-> got[r].raced]
          /\ ~e.excused => e.value = Current(k)
    BY <1>1, <1>4, StoredValue
  <2>2. /\ cache' = [l \in Layers |-> IF l \in LayersOf(p)
                                      THEN [cache[l] EXCEPT ![k] = e] ELSE cache[l]]
        /\ Tells(p, {k})
    BY <1>4, <1>6, <2>1 DEF Store
  <2>3. /\ bus \subseteq bus' /\ bus' \subseteq Messages
    BY <1>1, <2>2, TellsTypes
  <2>4. ChaseGoesOn
    BY <1>1, <1>2, <2>3 DEF ChaseGoesOn
  <2>5. SharedTypes'
    BY <1>1, <2>3 DEF TypeInv, SharedTypes
  <2>6. cache \in [Layers -> [Keys -> Held]] /\ e \in Held
    BY <1>1, HeldTypes DEF TypeInv, CacheTypes
  <2>7. /\ cache' \in [Layers -> [Keys -> Held]]
        /\ \A l \in Layers, j \in Keys :
             cache'[l][j] = IF l \in LayersOf(p) /\ j = k THEN e ELSE cache[l][j]
    BY <2>2, <2>6
  <2>8. CacheTypes'
    <3>1. mode # "shared" => LayersOf(p) = {Only}
      BY <1>4 DEF LayersOf
    <3> QED
      BY <1>1, <2>7, <3>1 DEF TypeInv, CacheTypes
  <2>9. ASSUME NEW l \in Layers, NEW j \in Keys, Stale(l, j)' PROVE Chased(l, j)'
    <3>1. CASE ~(l \in LayersOf(p) /\ j = k)
      BY <1>1, <2>4, <2>7, <2>9, <3>1, EntryKept DEF Inv
    <3>2. CASE l \in LayersOf(p) /\ j = k
      <4>1. cache'[l][j] = e /\ e.value # Current(k)
        BY <1>1, <2>7, <2>9, <3>2 DEF Stale, Current, Snapshot, Count, Exists
      <4> QED
        BY <2>1, <4>1 DEF Chased
    <3> QED
      BY <3>1, <3>2
  <2>10. CacheCoherent'
    BY <2>9, CoherentParts
  <2> QED
    BY <1>2, <2>5, <2>8, <2>10 DEF Inv, TypeInv
<1> QED
  BY <1>5, <1>6

----------------------------------------------------------------------------
(* What is dropped is gone, and what is excused may stay.                  *)
LEMMA WithoutTypes ==
  ASSUME Inv, mode' = mode, NEW ls, NEW ks, cache' = Without(ls, ks)
  PROVE  /\ CacheTypes'
         /\ \A l \in Layers, k \in Keys :
              cache'[l][k] = IF l \in ls /\ k \in ks THEN Null ELSE cache[l][k]
<1>1. CacheTypes
  BY DEF Inv, TypeInv
<1>2. \A l \in Layers, k \in Keys :
        /\ cache'[l][k] = IF l \in ls /\ k \in ks THEN Null ELSE cache[l][k]
        /\ cache'[l][k] \in Held
  BY <1>1, HeldTypes DEF Without, CacheTypes
<1>3. cache' \in [Layers -> [Keys -> Held]]
  BY <1>2 DEF Without
<1> QED
  BY <1>1, <1>2, <1>3 DEF CacheTypes

LEMMA ExcusingTypes ==
  ASSUME Inv, NEW ls, NEW ks, NEW c, c = Excusing(ls, ks)
  PROVE  /\ c \in [Layers -> [Keys -> Held]]
         /\ \A l \in Layers, k \in Keys :
              /\ c[l][k] \in Entries(k) \cup {Null}
              /\ c[l][k] = Null <=> cache[l][k] = Null
              /\ l \in ls /\ k \in ks /\ c[l][k] # Null =>
                  c[l][k].excused \/ c[l][k].value = Current(k)
              /\ ~(l \in ls /\ k \in ks) => c[l][k] = cache[l][k]
<1>1. CacheTypes
  BY DEF Inv, TypeInv
<1>2. ASSUME NEW l \in Layers, NEW k \in Keys
      PROVE  /\ c[l][k] \in Entries(k) \cup {Null}
             /\ c[l][k] = Null <=> cache[l][k] = Null
             /\ l \in ls /\ k \in ks /\ c[l][k] # Null =>
                  c[l][k].excused \/ c[l][k].value = Current(k)
             /\ ~(l \in ls /\ k \in ks) => c[l][k] = cache[l][k]
  <2>1. c[l][k] = IF l \in ls /\ k \in ks /\ Stale(l, k)
                  THEN [cache[l][k] EXCEPT !.excused = TRUE] ELSE cache[l][k]
    BY DEF Excusing
  <2>2. cache[l][k] \in Entries(k) \cup {Null}
    BY <1>1 DEF CacheTypes
  <2>3. CASE l \in ls /\ k \in ks /\ Stale(l, k)
    <3>1. [cache[l][k] EXCEPT !.excused = TRUE] \in Entries(k)
      BY <2>2, <2>3 DEF Entries, Stale
    <3>2. [cache[l][k] EXCEPT !.excused = TRUE].excused
      BY <2>2, <2>3 DEF Entries, Stale
    <3> QED
      BY <2>1, <2>3, <3>1, <3>2, Nulls DEF Stale
  <2>4. CASE ~(l \in ls /\ k \in ks /\ Stale(l, k))
    BY <2>1, <2>2, <2>4 DEF Stale
  <2> QED
    BY <2>3, <2>4
<1>3. \A l \in Layers, k \in Keys : c[l][k] \in Held
  BY <1>2, HeldTypes
<1>4. c \in [Layers -> [Keys -> Held]]
  BY <1>3 DEF Excusing
<1> QED
  BY <1>2, <1>4

(* The steps of the surroundings leave the requests as they are.           *)
LEMMA RequestsStay ==
  ASSUME TypeInv, UNCHANGED <<mode, db, request>>
  PROVE  /\ RequestTypes' /\ UNCHANGED <<pc, call, got, calls>>
         /\ handlers \subseteq handlers' =>
              \A p \in Replicas, k \in Keys : Invalidating(p, k) => Invalidating(p, k)'
<1>1. UNCHANGED <<pc, call, got, calls>>
  BY DEF request
<1>2. \A q \in Requests : Placed(q)'
  BY <1>1, PlacedKept
<1>3. RequestTypes'
  BY <1>1, <1>2 DEF TypeInv, RequestTypes
<1> QED
  BY <1>1, <1>3 DEF Invalidating

(* The last tag of a handler is that of every key: nothing stale is left   *)
(* in the layers of its replica, and the others are told so.               *)
LEMMA TagsOfAll == \A k \in Keys : "task-relatives" \in Tags(k)
  BY DEF Tags

LEMMA InvalidateKeeps ==
  ASSUME Inv, NEW h \in handlers, Invalidate(h)
  PROVE  Inv'
<1>1. /\ TypeInv /\ h \in Handlers /\ DeleteByTag(h.at, Head(h.todo))
      /\ UNCHANGED <<mode, db, request, faults>>
      /\ handlers' = (handlers \ {h}) \cup ({[h EXCEPT !.todo = Tail(@)]} \cap Handlers)
  BY DEF Invalidate, Inv, TypeInv, SharedTypes
<1>2. RequestTypes' /\ UNCHANGED <<pc, call, got, calls>>
  BY <1>1, RequestsStay
<1>3. PICK p \in Replicas : p = h.at /\ (mode # "shared" => p = Only)
  BY <1>1, TodoTypes DEF TypeInv, SharedTypes
<1>4. PICK t : t = Head(h.todo)
  OBVIOUS
<1>5. PICK ks \in SUBSET Keys :
        /\ ks = {k \in Keys : t \in Tags(k)}
        /\ cache' = Without(LayersOf(p), ks) /\ Tells(p, ks)
  BY <1>1, <1>3, <1>4 DEF DeleteByTag
<1>6. /\ bus' \subseteq Messages
      /\ mode = "shared" => \A q \in Replicas \ {p} : \E m \in bus' : m.to = q /\ m.drop = ks
  BY <1>1, <1>5, TellsTypes
<1>7. handlers' \subseteq Handlers /\ (mode # "shared" => \A g \in handlers' : g.at = Only)
  <2>1. \A g \in {[h EXCEPT !.todo = Tail(@)]} \cap Handlers : g.at = h.at
    BY <1>1 DEF Handlers
  <2> QED
    BY <1>1, <1>3, <2>1 DEF TypeInv, SharedTypes
<1>8. SharedTypes'
  BY <1>1, <1>2, <1>6, <1>7 DEF TypeInv, SharedTypes
<1>9. /\ CacheTypes'
      /\ \A l \in Layers, k \in Keys :
           cache'[l][k] = IF l \in LayersOf(p) /\ k \in ks THEN Null ELSE cache[l][k]
  BY <1>1, <1>5, WithoutTypes
<1>10. CacheCoherent'
  <2>1. ASSUME NEW id \in TaskIds, h.todo = <<id, "task-relatives">> PROVE CacheCoherent'
    <3>1. PICK g : g = [h EXCEPT !.todo = <<"task-relatives">>]
      OBVIOUS
    <3>2. g \in Handlers /\ g.at = p
      BY <1>1, <1>3, <3>1 DEF Handlers, Todos
    <3>3. Tail(h.todo) = <<"task-relatives">>
      BY <2>1
    <3>4. g \in handlers'
      BY <1>1, <3>1, <3>2, <3>3
    <3> QED
      BY <3>2, <3>4, HandlerCovers
  <2>2. ASSUME h.todo = <<"task-relatives">> PROVE CacheCoherent'
    <3>1. ks = Keys
      BY <1>1, <1>4, <1>5, <2>2, TagsOfAll, TodoTypes
    <3>2. ASSUME NEW l \in Layers, NEW k \in Keys, Stale(l, k)' PROVE Chased(l, k)'
      <4>1. cache'[l][k] # Null
        BY <3>2 DEF Stale
      <4>2. l \notin LayersOf(p)
        BY <1>9, <3>1, <4>1
      <4>3. CASE mode = "shared"
        <5>1. l \in Replicas \ {p}
          BY <4>2, <4>3, Sets DEF LayersOf
        <5> QED
          BY <1>6, <3>1, <4>3, <5>1 DEF Chased
      <4>4. CASE mode # "shared"
        <5>1. l \in Layers \ {Only}
          BY <1>3, <4>2, <4>4 DEF LayersOf
        <5> QED
          BY <1>1, <1>9, <4>1, <4>4, <5>1 DEF CacheTypes
      <4> QED
        BY <4>3, <4>4
    <3> QED
      BY <3>2, CoherentParts
  <2> QED
    BY <1>1, <2>1, <2>2, TodoTypes
<1> QED
  BY <1>2, <1>8, <1>9, <1>10 DEF Inv, TypeInv

----------------------------------------------------------------------------
(* Faults, and what the surroundings do by themselves.                     *)
LEMMA FaultCounted ==
  ASSUME SharedTypes, Fault
  PROVE  faults' \in 0..MaxFaults
  BY TaskConstants DEF SharedTypes, Fault

(* An entry that is marked needs no invalidation, and the others have lost *)
(* none.                                                                   *)
LEMMA HandlerFailsKeeps ==
  ASSUME Inv, NEW h \in handlers, HandlerFails(h)
  PROVE  Inv'
<1>1. /\ TypeInv /\ Fault /\ mode = "shared" /\ cache' = Excusing(Layers, Keys)
      /\ UNCHANGED <<mode, db, bus, request>> /\ handlers' = handlers \ {h}
  BY DEF HandlerFails, Inv
<1>2. RequestTypes' /\ UNCHANGED <<pc, call, got, calls>>
  BY <1>1, RequestsStay
<1>3. SharedTypes'
  BY <1>1, <1>2, FaultCounted DEF TypeInv, SharedTypes
<1>4. /\ cache' \in [Layers -> [Keys -> Held]]
      /\ \A l \in Layers, k \in Keys :
           /\ cache'[l][k] \in Entries(k) \cup {Null}
           /\ cache'[l][k] # Null => cache'[l][k].excused \/ cache'[l][k].value = Current(k)
  BY <1>1, ExcusingTypes
<1>5. CacheTypes'
  BY <1>1, <1>4 DEF CacheTypes
<1>6. CacheCoherent'
  BY <1>1, <1>4, CurrentLeft DEF CacheCoherent, Stale
<1> QED
  BY <1>2, <1>3, <1>5, <1>6 DEF Inv, TypeInv

(* The write affects no other keys than those that are marked.             *)
LEMMA UnacknowledgedKeeps ==
  ASSUME Inv, NEW r \in Requests, Unacknowledged(r)
  PROVE  Inv'
<1>1. /\ TypeInv /\ Fault /\ UNCHANGED <<mode, db, bus, handlers, calls>>
      /\ pc[r] = "publish" /\ Ends(r)
      /\ cache' = Excusing(Layers, Affected(call[r].key))
  BY DEF Unacknowledged, Inv
<1>2. /\ RequestTypes'
      /\ \A q \in Requests \ {r} : pc'[q] = pc[q] /\ call'[q] = call[q]
  BY <1>1, EndsTypes
<1>3. SharedTypes'
  BY <1>1, FaultCounted DEF TypeInv, SharedTypes
<1> DEFINE ks == Affected(call[r].key)
<1>4. /\ cache' \in [Layers -> [Keys -> Held]]
      /\ \A l \in Layers, k \in Keys :
           /\ cache'[l][k] \in Entries(k) \cup {Null}
           /\ cache'[l][k] = Null <=> cache[l][k] = Null
           /\ k \in ks /\ cache'[l][k] # Null =>
                cache'[l][k].excused \/ cache'[l][k].value = Current(k)
           /\ k \notin ks => cache'[l][k] = cache[l][k]
  BY <1>1, ExcusingTypes
<1>5. CacheTypes'
  BY <1>1, <1>4 DEF TypeInv, CacheTypes
<1>6. ASSUME NEW l \in Layers, NEW k \in Keys, Stale(l, k)' PROVE Chased(l, k)'
  <2>1. CASE k \in ks
    BY <1>1, <1>4, <1>6, <2>1, CurrentLeft DEF Stale, Chased
  <2>2. CASE k \notin ks
    <3>1. \A p \in Replicas : Invalidating(p, k) => Invalidating(p, k)'
      BY <1>1, <1>2, <2>2 DEF Invalidating
    <3> QED
      BY <1>1, <1>4, <1>6, <2>2, <3>1, CurrentLeft, EntryLeft DEF Inv
  <2> QED
    BY <2>1, <2>2
<1>7. CacheCoherent'
  BY <1>6, CoherentParts
<1> QED
  BY <1>2, <1>3, <1>5, <1>7 DEF Inv, TypeInv

(* A message that arrives takes with it the entries it was about.          *)
LEMMA DeliverKeeps ==
  ASSUME Inv, NEW m \in bus, Deliver(m)
  PROVE  Inv'
<1>1. /\ TypeInv /\ bus' = bus \ {m} /\ cache' = Without({m.to}, m.drop)
      /\ UNCHANGED <<mode, db, request, handlers, faults>>
  BY DEF Deliver, Inv
<1>2. /\ RequestTypes' /\ UNCHANGED <<pc, call, got, calls>>
      /\ \A p \in Replicas, k \in Keys : Invalidating(p, k) => Invalidating(p, k)'
  BY <1>1, RequestsStay
<1>3. SharedTypes'
  BY <1>1, <1>2 DEF TypeInv, SharedTypes
<1>4. /\ CacheTypes'
      /\ \A l \in Layers, k \in Keys :
           cache'[l][k] = IF l = m.to /\ k \in m.drop THEN Null ELSE cache[l][k]
  BY <1>1, WithoutTypes
<1>5. ASSUME NEW l \in Layers, NEW k \in Keys, Stale(l, k)' PROVE Chased(l, k)'
  <2>1. ~(l = m.to /\ k \in m.drop)
    BY <1>4, <1>5 DEF Stale
  <2>2. cache'[l][k] = cache[l][k]
    BY <1>4, <2>1
  <2>3. \A n \in bus : n.to = l /\ k \in n.drop => n \in bus'
    BY <1>1, <2>1
  <2> QED
    BY <1>1, <1>2, <1>5, <2>2, <2>3, CurrentLeft, EntryLeft DEF Inv
<1>6. CacheCoherent'
  BY <1>5, CoherentParts
<1> QED
  BY <1>2, <1>3, <1>4, <1>6 DEF Inv, TypeInv

(* One that is lost leaves them marked.                                    *)
LEMMA LoseKeeps ==
  ASSUME Inv, NEW m \in bus, Lose(m)
  PROVE  Inv'
<1>1. /\ TypeInv /\ Fault /\ bus' = bus \ {m} /\ cache' = Excusing({m.to}, m.drop)
      /\ UNCHANGED <<mode, db, request, handlers>>
  BY DEF Lose, Inv
<1>2. /\ RequestTypes' /\ UNCHANGED <<pc, call, got, calls>>
      /\ \A p \in Replicas, k \in Keys : Invalidating(p, k) => Invalidating(p, k)'
  BY <1>1, RequestsStay
<1>3. SharedTypes'
  BY <1>1, <1>2, FaultCounted DEF TypeInv, SharedTypes
<1>4. /\ cache' \in [Layers -> [Keys -> Held]]
      /\ \A l \in Layers, k \in Keys :
           /\ cache'[l][k] \in Entries(k) \cup {Null}
           /\ cache'[l][k] = Null <=> cache[l][k] = Null
           /\ l = m.to /\ k \in m.drop /\ cache'[l][k] # Null =>
                cache'[l][k].excused \/ cache'[l][k].value = Current(k)
           /\ ~(l = m.to /\ k \in m.drop) => cache'[l][k] = cache[l][k]
  BY <1>1, ExcusingTypes
<1>5. CacheTypes'
  BY <1>1, <1>4 DEF TypeInv, CacheTypes
<1>6. ASSUME NEW l \in Layers, NEW k \in Keys, Stale(l, k)' PROVE Chased(l, k)'
  <2>1. CASE l = m.to /\ k \in m.drop
    BY <1>1, <1>4, <1>6, <2>1, CurrentLeft DEF Stale, Chased
  <2>2. CASE ~(l = m.to /\ k \in m.drop)
    <3>1. \A n \in bus : n.to = l /\ k \in n.drop => n \in bus'
      BY <1>1, <2>2
    <3> QED
      BY <1>1, <1>2, <1>4, <1>6, <2>2, <3>1, CurrentLeft, EntryLeft DEF Inv
  <2> QED
    BY <2>1, <2>2
<1>7. CacheCoherent'
  BY <1>6, CoherentParts
<1> QED
  BY <1>2, <1>3, <1>5, <1>7 DEF Inv, TypeInv

LEMMA ExpireKeeps ==
  ASSUME Inv, NEW l \in Layers, NEW k \in Keys, Expire(l, k)
  PROVE  Inv'
<1>1. /\ TypeInv /\ cache' = Without({l}, {k})
      /\ UNCHANGED <<mode, db, bus, request, handlers, faults>>
  BY DEF Expire, Inv
<1>2. /\ RequestTypes' /\ UNCHANGED <<pc, call, got, calls>>
      /\ \A p \in Replicas, j \in Keys : Invalidating(p, j) => Invalidating(p, j)'
  BY <1>1, RequestsStay
<1>3. SharedTypes'
  BY <1>1, <1>2 DEF TypeInv, SharedTypes
<1>4. /\ CacheTypes'
      /\ \A x \in Layers, y \in Keys :
           cache'[x][y] = Null \/ cache'[x][y] = cache[x][y]
  <2>1. PICK ls, ks : ls = {l} /\ ks = {k}
    OBVIOUS
  <2>2. cache' = Without(ls, ks) /\ mode' = mode
    BY <1>1, <2>1
  <2>3. /\ CacheTypes'
        /\ \A x \in Layers, y \in Keys :
             cache'[x][y] = IF x \in ls /\ y \in ks THEN Null ELSE cache[x][y]
    BY <2>2, WithoutTypes
  <2> QED
    BY <2>3
<1>5. ASSUME NEW x \in Layers, NEW y \in Keys, Stale(x, y)' PROVE Chased(x, y)'
  <2>1. cache'[x][y] # Null
    BY <1>5 DEF Stale
  <2>2. cache'[x][y] = cache[x][y]
    BY <1>4, <2>1
  <2> QED
    BY <1>1, <1>2, <1>5, <2>2, CurrentLeft, EntryLeft DEF Inv
<1>6. CacheCoherent'
  BY <1>5, CoherentParts
<1> QED
  BY <1>2, <1>3, <1>4, <1>6 DEF Inv, TypeInv

----------------------------------------------------------------------------
(* A replica that stops takes its layer, its requests and its handlers     *)
(* with it; if one of them had something to invalidate, all is marked.     *)
LEMMA CrashedRequests ==
  ASSUME TypeInv, NEW p \in Replicas, Crash(p)
  PROVE  /\ RequestTypes'
         /\ \A q \in Requests : pc[q] = "publish" /\ call[q].at # p =>
              pc'[q] = pc[q] /\ call'[q] = call[q]
<1>1. PICK Here \in SUBSET Requests :
        /\ Here = {q \in Requests : call[q] # Null /\ call[q].at = p}
        /\ pc' = [q \in Requests |-> IF q \in Here THEN "idle" ELSE pc[q]]
        /\ call' = [q \in Requests |-> IF q \in Here THEN Null ELSE call[q]]
        /\ got' = [q \in Requests |-> IF q \in Here THEN Unread ELSE got[q]]
  BY DEF Crash
<1>2. mode' = mode /\ db' = db
  BY DEF Crash
<1>3. /\ pc \in [Requests -> Stages]
      /\ call \in [Requests -> Calls \cup {Null}]
      /\ got \in [Requests -> Progress]
  BY DEF TypeInv, RequestTypes, Stages
<1>4. /\ pc' \in [Requests -> Stages]
      /\ call' \in [Requests -> Calls \cup {Null}]
      /\ got' \in [Requests -> Progress]
  BY <1>1, <1>3, UnreadTypes DEF Stages
<1>5. ASSUME NEW q \in Requests PROVE Placed(q)'
  <2>1. CASE q \in Here
    <3>1. pc'[q] = "idle" /\ got'[q] = Unread
      BY <1>1, <2>1
    <3> QED
      BY <3>1 DEF Placed
  <2>2. CASE q \notin Here
    <3>1. pc'[q] = pc[q] /\ call'[q] = call[q] /\ got'[q] = got[q]
      BY <1>1, <2>2
    <3> QED
      BY <1>2, <3>1, PlacedKept
  <2> QED
    BY <2>1, <2>2
<1>6. RequestTypes'
  BY <1>4, <1>5 DEF RequestTypes, Stages
<1> QED
  BY <1>1, <1>6

LEMMA CrashKeeps ==
  ASSUME Inv, NEW p \in Replicas, Crash(p)
  PROVE  Inv'
<1>1. /\ TypeInv /\ Fault /\ p \in Serving /\ UNCHANGED <<mode, db, calls>>
      /\ handlers' = {h \in handlers : h.at # p}
      /\ bus' = {m \in bus : m.to # p}
  BY DEF Crash, Inv
<1>2. /\ RequestTypes'
      /\ \A q \in Requests : pc[q] = "publish" /\ call[q].at # p =>
           pc'[q] = pc[q] /\ call'[q] = call[q]
  BY <1>1, CrashedRequests
<1>3. mode # "shared" => p = Only
  BY <1>1, ServingTypes
<1>4. SharedTypes'
  BY <1>1, FaultCounted DEF TypeInv, SharedTypes
<1>5. PICK kept, lost :
        /\ lost = {k \in Keys : Invalidating(p, k)}
        /\ kept = Excusing(Layers, lost)
        /\ cache' = [kept EXCEPT ![p] = [k \in Keys |-> Null]]
  BY DEF Crash
<1>6. /\ kept \in [Layers -> [Keys -> Held]]
      /\ \A l \in Layers, k \in Keys :
           /\ kept[l][k] \in Entries(k) \cup {Null}
           /\ kept[l][k] = Null <=> cache[l][k] = Null
           /\ IF Invalidating(p, k)
              THEN kept[l][k] # Null => kept[l][k].excused \/ kept[l][k].value = Current(k)
              ELSE kept[l][k] = cache[l][k]
  BY <1>1, <1>5, ExcusingTypes
<1>7. p \in Layers /\ [k \in Keys |-> Null] \in [Keys -> Held]
  BY Sets, HeldTypes
<1>8. /\ cache' \in [Layers -> [Keys -> Held]]
      /\ \A l \in Layers, k \in Keys :
           cache'[l][k] = IF l = p THEN Null ELSE kept[l][k]
  BY <1>5, <1>6, <1>7
<1>9. CacheTypes'
  BY <1>1, <1>6, <1>8 DEF TypeInv, CacheTypes
<1>10. ASSUME NEW l \in Layers, NEW k \in Keys, Stale(l, k)' PROVE Chased(l, k)'
  <2>1. l # p /\ cache'[l][k] = kept[l][k] /\ kept[l][k] # Null
    BY <1>8, <1>10 DEF Stale
  <2>2. CASE Invalidating(p, k)
    BY <1>1, <1>6, <1>10, <2>1, <2>2, CurrentLeft DEF Chased, Stale
  <2>3. CASE ~Invalidating(p, k)
    <3>1. cache'[l][k] = cache[l][k]
      BY <1>6, <2>1, <2>3
    <3>2. ASSUME NEW s \in Replicas, Invalidating(s, k) PROVE Invalidating(s, k)'
      <4>1. s # p
        BY <2>3, <3>2
      <4> QED
        BY <1>1, <1>2, <3>2, <4>1 DEF Invalidating
    <3>3. \A m \in bus : m.to = l /\ k \in m.drop => m \in bus'
      BY <1>1, <2>1
    <3> QED
      BY <1>1, <1>10, <3>1, <3>2, <3>3, CurrentLeft, EntryLeft DEF Inv
  <2> QED
    BY <2>2, <2>3
<1>11. CacheCoherent'
  BY <1>10, CoherentParts
<1> QED
  BY <1>2, <1>4, <1>9, <1>11 DEF Inv, TypeInv

----------------------------------------------------------------------------
LEMMA InvInit == Init => Inv
<1> SUFFICES ASSUME Init PROVE Inv
  OBVIOUS
<1>1. TypeInv
  BY TypeInit
<1>2. \A l \in Layers, k \in Keys : cache[l][k] = Null
  BY DEF Init
<1> QED
  BY <1>1, <1>2 DEF Inv, CacheCoherent, Stale

LEMMA InvStays == Inv /\ UNCHANGED vars => Inv'
<1> SUFFICES ASSUME Inv, UNCHANGED vars PROVE Inv'
  OBVIOUS
<1>1. UNCHANGED <<mode, db, cache, bus, pc, call, got, handlers, calls, faults>>
  BY DEF vars
<1>2. UNCHANGED <<mode, db, request>>
  BY <1>1 DEF request
<1>3. RequestTypes'
  BY <1>2, RequestsStay DEF Inv
<1>4. SharedTypes'
  BY <1>1 DEF Inv, TypeInv, SharedTypes
<1>5. ChaseGoesOn
  BY <1>1 DEF ChaseGoesOn
<1>6. CacheCoherent' /\ CacheTypes'
  BY <1>1, <1>5, CacheKept
<1> QED
  BY <1>3, <1>4, <1>6 DEF Inv, TypeInv

LEMMA ContinueKeeps ==
  ASSUME Inv, NEW r \in Requests, Continue(r)
  PROVE  Inv'
<1>1. CASE Lookup(r)
  BY <1>1, StoppingKeeps, HitRedisKeeps, MissKeeps DEF Lookup
<1>2. CASE ReadTask(r)
  BY <1>2, ReadTaskKeeps
<1>3. CASE ReadItems(r) \/ ReadCount(r)
  BY <1>3, ReadListKeeps
<1>4. CASE Store(r)
  BY <1>4, StoreKeeps
<1>5. CASE \E id \in TaskIds : Update(r, id) \/ Delete(r, id)
  BY <1>5, WriteKeeps
<1>6. CASE ChangeGone(r)
  BY <1>6, StoppingKeeps
<1>7. CASE Publish(r)
  BY <1>7, PublishKeeps
<1> QED
  BY <1>1, <1>2, <1>3, <1>4, <1>5, <1>6, <1>7 DEF Continue

LEMMA InvNext == Inv /\ [Next]_vars => Inv'
<1> SUFFICES ASSUME Inv, [Next]_vars PROVE Inv'
  OBVIOUS
<1>1. ASSUME NEW r \in Requests, NEW k \in Keys, Get(r, k) PROVE Inv'
  BY <1>1, GetKeeps
<1>2. ASSUME NEW r \in Requests, NEW id \in TaskIds, Create(r, id) PROVE Inv'
  BY <1>2, CreateKeeps
<1>3. ASSUME NEW r \in Requests, NEW o \in {"update", "delete"}, NEW id \in TaskIds,
             Change(r, o, id)
      PROVE  Inv'
  BY <1>3, ChangeKeeps
<1>4. ASSUME NEW r \in Requests, Refused(r) PROVE Inv'
  BY <1>4, RefusedKeeps
<1>5. ASSUME NEW r \in Requests, Continue(r) PROVE Inv'
  BY <1>5, ContinueKeeps
<1>6. ASSUME NEW r \in Requests, Fail(r) \/ Unacknowledged(r) PROVE Inv'
  BY <1>6, StoppingKeeps, UnacknowledgedKeeps
<1>7. ASSUME NEW h \in handlers, Handle(h) PROVE Inv'
  BY <1>7, InvalidateKeeps, HandlerFailsKeeps DEF Handle
<1>8. ASSUME NEW m \in bus, Deliver(m) \/ Lose(m) PROVE Inv'
  BY <1>8, DeliverKeeps, LoseKeeps
<1>9. ASSUME NEW l \in Layers, NEW k \in Keys, Expire(l, k) PROVE Inv'
  BY <1>9, ExpireKeeps
<1>10. ASSUME NEW p \in Replicas, Crash(p) PROVE Inv'
  BY <1>10, CrashKeeps
<1>11. CASE Finished \/ UNCHANGED vars
  BY <1>11, InvStays DEF Finished
<1> QED
  BY <1>1, <1>2, <1>3, <1>4, <1>5, <1>6, <1>7, <1>8, <1>9, <1>10, <1>11 DEF Next

LEMMA InvHolds == Spec => []Inv
<1> QED
  BY InvInit, InvNext, PTL DEF Spec

(* Every reachable state is well typed: a request's call, what its factory *)
(* has read, the table, every entry of every layer, the messages of the    *)
(* bus, what the event handlers have left to do, and both bounds.          *)
THEOREM TypeCorrect == Spec => []TasksTypeOK
<1>1. Inv => TasksTypeOK
  BY TypesHold DEF Inv
<1> QED
  BY <1>1, InvHolds, PTL

(* The write and invalidation protocol of the task handlers, for every     *)
(* number of tasks, requests, replicas and faults, in each mode: no entry  *)
(* of any layer is stale, unless the event of the write is still being     *)
(* handled, or a message that drops the entry is on the bus, or its        *)
(* factory raced with a write or an invalidation was lost.                 *)
THEOREM CacheCoherentHolds == Spec => []CacheCoherent
<1>1. Inv => CacheCoherent
  BY DEF Inv
<1> QED
  BY <1>1, InvHolds, PTL
=============================================================================
