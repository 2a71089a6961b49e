------------------------------ MODULE TaskCache ------------------------------
(***************************************************************************)
(* Tasks and their cache: the command and query handlers of                *)
(* src/features/task, TaskApiService and TaskCacheService, and the CQRS    *)
(* events that invalidate, on one replica of the service or on several.    *)
(*                                                                         *)
(* The query handlers read the database and the cache stores what they     *)
(* read; a command writes the database and publishes an event; the handler *)
(* of the event runs on its own, after the command was answered or before. *)
(* BentoCache is modelled from how CacheModule sets it up and CacheService *)
(* uses it: a first layer in the memory of a replica, a second one in      *)
(* Redis, and a bus on which a replica tells the others what to drop.      *)
(* getOrSet looks up a key, and on a miss runs the factory under a lock of *)
(* the key in this replica; deleteByTag removes the entries with a tag.    *)
(***************************************************************************)
EXTENDS Integers, Sequences, FiniteSets

CONSTANTS
  Requests,    \* calls of TaskApiService that run at a time
  MaxCalls,    \* bound: calls in all
  TaskIds,
  List,        \* the key of getTasks, for one value of its arguments
  Replicas,
  Redis,       \* the second layer
  Null,
  MaxFaults    \* bound: lost messages and acknowledgements, failed handlers,
               \* and crashes

ASSUME TaskConstants ==
  /\ MaxCalls \in Nat /\ MaxFaults \in Nat
  /\ List \notin TaskIds
  /\ Null \notin TaskIds \cup {List} \cup Replicas
  /\ Redis \notin Replicas
  /\ Replicas # {}
  /\ IsFiniteSet(TaskIds)

Keys == TaskIds \cup {List}
Layers == Replicas \cup {Redis}

(* A row is represented by the number of its updates; a task id is never   *)
(* given twice.                                                            *)
Absent == -1
Gone == -2
Rows == Nat \cup {Absent, Gone}
Snapshots == [TaskIds -> Rows]
Counts == 0..Cardinality(TaskIds)
Lists == [items : Snapshots, count : Counts]
Entries(k) ==
  [value : IF k = List THEN Lists ELSE Nat,
   excused : BOOLEAN]    \* history: its factory raced with a write, or an
                         \* invalidation that should remove it was lost
Calls ==
  [op : {"get", "create", "update", "delete"}, key : Keys, at : Replicas]

(* Null is none of the values it stands for.                               *)
ASSUME TaskNull ==
  /\ Null \notin Nat
  /\ Null \notin Snapshots
  /\ Null \notin Calls
  /\ \A k \in Keys : Null \notin Entries(k)

Messages == [to : Replicas, drop : SUBSET Keys]

(* What the handler of an event has left to do: the tags to delete.        *)
Todos == {<<"task-relatives">>} \cup {<<id, "task-relatives">> : id \in TaskIds}
Handlers == [at : Replicas, todo : Todos]

VARIABLES
  mode,     \* "none" (NoopCacheService), "memory" (L1), "shared" (L1, L2, bus)
  db,       \* the table of tasks
  cache,    \* cache[l][k]: what layer l holds under k, or Null
  bus,      \* messages under way
  pc, call, \* pc[r]: what r does next; call[r]: which call it is, and where
  got,      \* got[r]: what r's factory has read so far, and whether a write
            \* was committed since
  handlers, \* the event handlers that run
  calls,    \* how many calls were made
  faults    \* how many faults there were

vars == <<mode, db, cache, bus, pc, call, got, handlers, calls, faults>>
request == <<pc, call, got, calls>>

(* An instance without Redis is the only one (docs/caching.md, Modes).     *)
(* Replicas are alike: the first call goes to the same one, wlog.          *)
Serving ==
  IF mode = "shared" /\ calls > 0 THEN Replicas ELSE {CHOOSE p \in Replicas : TRUE}
LayersOf(p) == IF mode = "shared" THEN {p, Redis} ELSE {p}

Exists(id) == db[id] \in Nat
Snapshot == [id \in TaskIds |-> IF Exists(id) THEN db[id] ELSE Absent]
Count == Cardinality({id \in TaskIds : Exists(id)})
Current(k) ==
  IF k = List THEN [items |-> Snapshot, count |-> Count] ELSE db[k]

Unread == [items |-> Null, count |-> Null, raced |-> FALSE]

Init ==
  /\ mode \in {"none", "memory", "shared"}
  /\ db \in [TaskIds -> {Absent, 0}]
  /\ cache = [l \in Layers |-> [k \in Keys |-> Null]]
  /\ bus = {}
  /\ pc = [r \in Requests |-> "idle"]
  /\ call = [r \in Requests |-> Null]
  /\ got = [r \in Requests |-> Unread]
  /\ handlers = {}
  /\ calls = 0
  /\ faults = 0

Fault == faults < MaxFaults /\ faults' = faults + 1

Goes(r, w) == pc' = [pc EXCEPT ![r] = w]

(* A call; those that run at a time are alike, too.                        *)
Arrives(r) ==
  /\ pc[r] = "idle"
  /\ r = CHOOSE q \in Requests : pc[q] = "idle"
  /\ calls < MaxCalls
  /\ calls' = calls + 1

Starts(r, o, k, w) ==
  /\ Arrives(r)
  /\ \E p \in Serving : call' = [call EXCEPT ![r] = [op |-> o, key |-> k, at |-> p]]
  /\ Goes(r, w)

(* r is answered, and what it held is forgotten.                           *)
Ends(r) ==
  /\ Goes(r, "idle")
  /\ got' = [got EXCEPT ![r] = Unread]
  /\ call' = [call EXCEPT ![r] = Null]

(* What p tells the others to drop.                                        *)
Tells(p, ks) ==
  bus' = bus \cup [to : IF mode = "shared" THEN Replicas \ {p} ELSE {}, drop : {ks}]

Without(ls, ks) ==
  [l \in Layers |-> [k \in Keys |-> IF l \in ls /\ k \in ks THEN Null ELSE cache[l][k]]]

Stale(l, k) == cache[l][k] # Null /\ cache[l][k].value # Current(k)

(* An invalidation is lost that would have removed these entries.          *)
Excusing(ls, ks) ==
  [l \in Layers |-> [k \in Keys |->
     IF l \in ls /\ k \in ks /\ Stale(l, k)
     THEN [cache[l][k] EXCEPT !.excused = TRUE] ELSE cache[l][k]]]

----------------------------------------------------------------------------
(* getTask, getTasks: getOrSet.  NoopCacheService calls the factory.       *)
Get(r, k) ==
  /\ Starts(r, "get", k, IF mode = "none" THEN "read" ELSE "lookup")
  /\ UNCHANGED <<mode, db, cache, bus, got, handlers, faults>>

LooksUp(r, p, k) == pc[r] = "lookup" /\ call[r].at = p /\ call[r].key = k

Hit(r, p, k) ==
  /\ LooksUp(r, p, k)
  /\ cache[p][k] # Null
  /\ Ends(r)
  /\ UNCHANGED <<mode, db, cache, bus, handlers, calls, faults>>

(* A factory of this replica runs for k: the others wait for its value.    *)
Locked(p, k) ==
  \E r \in Requests :
    pc[r] \in {"read", "store"} /\ call[r].at = p /\ call[r].key = k

(* Found in the second layer, and kept in the first.                       *)
HitRedis(r, p, k) ==
  /\ LooksUp(r, p, k)
  /\ cache[p][k] = Null /\ cache[Redis][k] # Null
  /\ ~Locked(p, k)
  /\ cache' = [cache EXCEPT ![p][k] = cache[Redis][k]]
  /\ Ends(r)
  /\ UNCHANGED <<mode, db, bus, handlers, calls, faults>>

Miss(r, p, k) ==
  /\ LooksUp(r, p, k)
  /\ \A l \in LayersOf(p) : cache[l][k] = Null
  /\ ~Locked(p, k)
  /\ Goes(r, "read")
  /\ UNCHANGED <<mode, db, cache, bus, call, got, handlers, calls, faults>>

Lookup(r) ==
  \E p \in Replicas, k \in Keys : Hit(r, p, k) \/ HitRedis(r, p, k) \/ Miss(r, p, k)

Reads(r) == pc[r] = "read"

(* Mutant: a task that is not there is null, not an error.                 *)
ReadTaskOrNull(r) ==
  /\ Reads(r) /\ call[r].key \in TaskIds
  /\ got' = [got EXCEPT ![r].items = db[call[r].key]]
  /\ Goes(r, "store")
  /\ UNCHANGED <<mode, db, cache, bus, call, handlers, calls, faults>>

(* GetTaskHandler: the row, or a 404 that CacheService unwraps from the    *)
(* error of the factory.                                                   *)
ReadTask(r) ==
  /\ Reads(r) /\ call[r].key \in TaskIds
  /\ IF Exists(call[r].key)
     THEN /\ got' = [got EXCEPT ![r].items = db[call[r].key]]
          /\ Goes(r, "store")
          /\ UNCHANGED call
     ELSE Ends(r)
  /\ UNCHANGED <<mode, db, cache, bus, handlers, calls, faults>>

(* GetTasksHandler: findMany and count, two statements at once.            *)
ReadItems(r) ==
  /\ Reads(r) /\ call[r].key = List
  /\ got[r].items = Null
  /\ got' = [got EXCEPT ![r].items = Snapshot]
  /\ Goes(r, IF got[r].count = Null THEN "read" ELSE "store")
  /\ UNCHANGED <<mode, db, cache, bus, call, handlers, calls, faults>>

ReadCount(r) ==
  /\ Reads(r) /\ call[r].key = List
  /\ got[r].count = Null
  /\ got' = [got EXCEPT ![r].count = Count]
  /\ Goes(r, IF got[r].items = Null THEN "read" ELSE "store")
  /\ UNCHANGED <<mode, db, cache, bus, call, handlers, calls, faults>>

Value(r) ==
  IF call[r].key = List THEN [items |-> got[r].items, count |-> got[r].count]
                        ELSE got[r].items

(* The factory has returned: its value is stored in both layers, the other *)
(* replicas are told to drop theirs, and it is served.                     *)
Store(r) ==
  /\ pc[r] = "store"
  /\ LET p == call[r].at
         k == call[r].key
     IN IF mode = "none"
        THEN UNCHANGED <<cache, bus>>
        ELSE /\ cache' = [l \in Layers |->
                            IF l \in LayersOf(p)
                            THEN [cache[l] EXCEPT ![k] = [value |-> Value(r),
                                                          excused |-> got[r].raced]]
                            ELSE cache[l]]
             /\ Tells(p, {k})
  /\ Ends(r)
  /\ UNCHANGED <<mode, db, handlers, calls, faults>>

----------------------------------------------------------------------------
(* The keys whose values a write of task id may change.                    *)
Affected(id) == {id, List}

(* A committed write races with the factories that have begun to read the  *)
(* task or the list.                                                       *)
Races(r, id) == got[r] # Unread /\ call[r].key \in Affected(id)

Writes(id, row) ==
  /\ db' = [db EXCEPT ![id] = row]
  /\ got' = [r \in Requests |-> [got[r] EXCEPT !.raced = @ \/ Races(r, id)]]

(* CreateTaskHandler: create.                                              *)
Create(r, id) ==
  /\ db[id] = Absent
  /\ Starts(r, "create", id, "publish")
  /\ Writes(id, 0)
  /\ UNCHANGED <<mode, cache, bus, handlers, faults>>

(* UpdateTaskHandler, DeleteTaskHandler: findUnique, then the statement.   *)
Change(r, o, id) ==
  /\ Exists(id)
  /\ Starts(r, o, id, "write")
  /\ UNCHANGED <<mode, db, cache, bus, got, handlers, faults>>

(* A 404 of findUnique; or a create for a user who has no row, as the one  *)
(* of NO_AUTH mode, which breaks the foreign key: no row and no event.     *)
Refused(r) ==
  /\ Arrives(r)
  /\ UNCHANGED <<pc, call, got>>
  /\ UNCHANGED <<mode, db, cache, bus, handlers, faults>>

Writing(r, o, id) == pc[r] = "write" /\ call[r].op = o /\ call[r].key = id

Update(r, id) ==
  /\ Writing(r, "update", id) /\ Exists(id)
  /\ Writes(id, db[id] + 1)
  /\ Goes(r, "publish")
  /\ UNCHANGED <<mode, cache, bus, call, handlers, calls, faults>>

Delete(r, id) ==
  /\ Writing(r, "delete", id) /\ Exists(id)
  /\ Writes(id, Gone)
  /\ Goes(r, "publish")
  /\ UNCHANGED <<mode, cache, bus, call, handlers, calls, faults>>

(* Mutant: P2025 is taken for a conflict, and the statement is run again.  *)
ChangeGoneRetried(r) ==
  /\ pc[r] = "write" /\ ~Exists(call[r].key)
  /\ UNCHANGED vars

(* The row went between the two statements: P2025, and no event.           *)
ChangeGone(r) ==
  /\ pc[r] = "write" /\ ~Exists(call[r].key)
  /\ Ends(r)
  /\ UNCHANGED <<mode, db, cache, bus, handlers, calls, faults>>

(* eventBus.publish: TaskCreatedEvent, TaskUpdatedEvent, TaskDeletedEvent, *)
(* and what the cache handler of each invalidates.                         *)
Publish(r) ==
  /\ pc[r] = "publish"
  /\ handlers' = handlers \cup
       {[at |-> call[r].at,
         todo |-> IF call[r].op = "create" THEN <<"task-relatives">>
                                           ELSE <<call[r].key, "task-relatives">>]}
  /\ Ends(r)
  /\ UNCHANGED <<mode, db, cache, bus, calls, faults>>

(* The statement was committed and the awaited call rejects all the same,  *)
(* its acknowledgement being lost: no event, and the process goes on.      *)
Unacknowledged(r) ==
  /\ Fault
  /\ pc[r] = "publish"
  /\ Ends(r)
  /\ cache' = Excusing(Layers, Affected(call[r].key))
  /\ UNCHANGED <<mode, db, bus, handlers, calls>>

----------------------------------------------------------------------------
(* The tags of a key: task-relatives, and task:id for the key of a task.   *)
Tags(k) == {"task-relatives"} \cup ({k} \ {List})

(* Mutant: only the own layers are cleaned.                                *)
DeleteByTagHere(p, t) ==
  /\ cache' = Without(LayersOf(p), {k \in Keys : t \in Tags(k)})
  /\ UNCHANGED bus

DeleteByTag(p, t) ==
  LET ks == {k \in Keys : t \in Tags(k)}
  IN cache' = Without(LayersOf(p), ks) /\ Tells(p, ks)

(* The cache handlers: invalidateTask, then invalidateGetTasks.            *)
Invalidate(h) ==
  /\ h \in handlers
  /\ DeleteByTag(h.at, Head(h.todo))
  /\ handlers' = (handlers \ {h}) \cup
                    ({[h EXCEPT !.todo = Tail(@)]} \cap Handlers)
  /\ UNCHANGED <<mode, db, request, faults>>

(* deleteByTag rejects when Redis does: the rest of the handler is lost.   *)
HandlerFails(h) ==
  /\ Fault
  /\ mode = "shared"
  /\ h \in handlers
  /\ handlers' = handlers \ {h}
  /\ cache' = Excusing(Layers, Keys)
  /\ UNCHANGED <<mode, db, bus, request>>

(* A statement rejects that was not executed; the factory's lock is        *)
(* released.                                                               *)
Fail(r) ==
  /\ pc[r] \in {"read", "write"}
  /\ Ends(r)
  /\ UNCHANGED <<mode, db, cache, bus, handlers, calls, faults>>

(* A message of the bus arrives, or its receiver was not connected.        *)
Deliver(m) ==
  /\ m \in bus
  /\ bus' = bus \ {m}
  /\ cache' = Without({m.to}, m.drop)
  /\ UNCHANGED <<mode, db, request, handlers, faults>>

Lose(m) ==
  /\ Fault
  /\ m \in bus
  /\ bus' = bus \ {m}
  /\ cache' = Excusing({m.to}, m.drop)
  /\ UNCHANGED <<mode, db, request, handlers>>

(* The TTL of an entry has passed.                                         *)
Expire(l, k) ==
  /\ cache[l][k] # Null
  /\ cache' = Without({l}, {k})
  /\ UNCHANGED <<mode, db, bus, request, handlers, faults>>

(* A write that affects k is committed and its event is yet to be          *)
(* published, or a handler runs: what is left to do of any of them drops   *)
(* every key.                                                              *)
Invalidating(p, k) ==
  \/ \E r \in Requests :
       pc[r] = "publish" /\ call[r].at = p /\ k \in Affected(call[r].key)
  \/ \E h \in handlers : h.at = p

(* A replica stops: what it was doing is lost, events and their handlers   *)
(* included, and its first layer with it.                                  *)
Crash(p) ==
  LET Here == {r \in Requests : call[r] # Null /\ call[r].at = p}
      kept == Excusing(Layers, {k \in Keys : Invalidating(p, k)})
  IN /\ Fault
     /\ p \in Serving
     /\ pc' = [r \in Requests |-> IF r \in Here THEN "idle" ELSE pc[r]]
     /\ call' = [r \in Requests |-> IF r \in Here THEN Null ELSE call[r]]
     /\ got' = [r \in Requests |-> IF r \in Here THEN Unread ELSE got[r]]
     /\ handlers' = {h \in handlers : h.at # p}
     /\ cache' = [kept EXCEPT ![p] = [k \in Keys |-> Null]]
     /\ bus' = {m \in bus : m.to # p}
     /\ UNCHANGED <<mode, db, calls>>

Finished ==
  /\ calls = MaxCalls
  /\ \A r \in Requests : pc[r] = "idle"
  /\ UNCHANGED vars

Continue(r) ==
  \/ Lookup(r) \/ ReadTask(r) \/ ReadItems(r) \/ ReadCount(r) \/ Store(r)
  \/ \E id \in TaskIds : Update(r, id) \/ Delete(r, id)
  \/ ChangeGone(r) \/ Publish(r)

Handle(h) == Invalidate(h) \/ HandlerFails(h)

Next ==
  \/ \E r \in Requests :
       \/ \E k \in Keys : Get(r, k)
       \/ \E id \in TaskIds : \/ Create(r, id)
                              \/ Change(r, "update", id)
                              \/ Change(r, "delete", id)
       \/ Refused(r)
       \/ Continue(r)
       \/ Fail(r)
       \/ Unacknowledged(r)
  \/ \E h \in handlers : Handle(h)
  \/ \E m \in bus : Deliver(m) \/ Lose(m)
  \/ \E l \in Layers, k \in Keys : Expire(l, k)
  \/ \E p \in Replicas : Crash(p)
  \/ Finished

Spec == Init /\ [][Next]_vars

(* The event loop runs what it was given: statements and handlers go on.   *)
FairSpec ==
  /\ Spec
  /\ \A r \in Requests : WF_vars(Continue(r))
  /\ \A p \in Replicas : WF_vars(\E h \in handlers : h.at = p /\ Handle(h))

----------------------------------------------------------------------------
TasksTypeOK ==
  /\ mode \in {"none", "memory", "shared"}
  /\ db \in [TaskIds -> Rows]
  /\ \A l \in Layers, k \in Keys : cache[l][k] \in Entries(k) \cup {Null}
  /\ bus \subseteq Messages
  /\ pc \in [Requests -> {"idle", "lookup", "read", "store", "write", "publish"}]
  /\ call \in [Requests -> Calls \cup {Null}]
  /\ \A r \in Requests : got[r].count \in Counts \cup {Null} /\ got[r].raced \in BOOLEAN
  /\ handlers \subseteq Handlers
  /\ calls \in 0..MaxCalls
  /\ faults \in 0..MaxFaults

(* A stale entry, a task's or a list's, in any replica or in Redis, a torn *)
(* list included, is under way to its own invalidation or a message to     *)
(* drop it is, unless its factory raced with a write of what it read or    *)
(* its invalidation was lost: every write reaches every key it affects on  *)
(* every replica, and needs no other write to do so.                       *)
CacheCoherent ==
  \A l \in Layers, k \in Keys :
    Stale(l, k) => \/ cache[l][k].excused
                   \/ \E p \in Replicas : Invalidating(p, k)
                   \/ \E m \in bus : m.to = l /\ k \in m.drop

(* Every call is answered: nobody waits for ever for another's factory.    *)
TasksAnswered == \A r \in Requests : []<>(pc[r] = "idle")
=============================================================================
