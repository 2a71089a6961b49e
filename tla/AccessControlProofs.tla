------------------------- MODULE AccessControlProofs -------------------------
(***************************************************************************)
(* Theorems about AccessControl, for any users, roles and permissions, any *)
(* times to live, and whatever the operator changes while requests run.    *)
(***************************************************************************)
EXTENDS AccessControl, TLAPS

----------------------------------------------------------------------------
(* A request under way has not been answered; one that is checked, or was, *)
(* has an identity and the time it was identified at.                      *)
Acting(r) == pc[r] \in {"check", "fill"} \/ answer[r] \in {"allowed", "forbidden"}

Staged(r) ==
  /\ pc[r] # "done" => answer[r] = "none"
  /\ pc[r] = "create" => who[r] \in Users
  /\ Acting(r) => as[r] \in Roles /\ want[r] \in Actions /\ at[r] \in Nat /\ at[r] <= now

TypeInv == AccessTypeOK /\ \A r \in Requests : Staged(r)

(* What lets a request act for u in role o: NO_AUTH, outside production;   *)
(* the row of u; or a JWT that has not expired.                            *)
Credentials(u, o) ==
  \/ u = Null /\ ~env.production
  \/ u \in Users /\ role[u] = o
  \/ \E j \in jwts : j.user = u /\ j.role = o /\ now < j.exp

(* The actions of a request, and those of its surroundings.                *)
StepOf(r) ==
  \/ \E u \in Users : SignUpReads(r, u)
  \/ SignUpCreates(r)
  \/ SignUpCollides(r)
  \/ Unauthorized(r)
  \/ \E u \in Users \cup {Null}, o \in Roles, a \in Actions :
       Credentials(u, o) /\ Identified(r, u, o, a)
  \/ CheckHits(r)
  \/ CheckReads(r)
  \/ CheckFills(r)
  \/ Fail(r)

Surroundings ==
  \/ \E u \in Users : SignIn(u)
  \/ \E u \in Users, o \in Roles : AssignRole(u, o)
  \/ \E u \in Users : IncrementVersion(u)
  \/ \E o \in Roles, p \in Permission : Permit(o, p) \/ Forbid(o, p)
  \/ InvalidateRoles
  \/ Tick
  \/ UNCHANGED vars

LEMMA Arrivals ==
  ASSUME AccessTypeOK, NEW r \in Requests, Arrives(r)
  PROVE  \/ Unauthorized(r)
         \/ \E u \in Users \cup {Null}, o \in Roles, a \in Actions :
              Credentials(u, o) /\ Identified(r, u, o, a)
<1>1. ASSUME NEW a \in Actions, HttpNoAuth(r, a) \/ McpNoAuth(r, a)
      PROVE  Credentials(Null, Admin) /\ Identified(r, Null, Admin, a) /\ Admin \in Roles
  BY <1>1, AccessConstants DEF HttpNoAuth, McpNoAuth, NoAuth, Credentials
<1>2. ASSUME NEW a \in Actions, NEW j \in jwts, HttpJwt(r, j, a) \/ McpJwt(r, j, a)
      PROVE  /\ Credentials(j.user, j.role) /\ Identified(r, j.user, j.role, a)
             /\ j.user \in Users /\ j.role \in Roles
  <2>1. Identified(r, j.user, j.role, a) /\ now < j.exp
    BY <1>2 DEF HttpJwt, McpJwt, Unexpired
  <2>2. j.user \in Users /\ j.role \in Roles
    BY DEF AccessTypeOK, JWT
  <2> QED
    BY <2>1, <2>2 DEF Credentials
<1>3. ASSUME NEW a \in Actions, NEW u \in Users, McpOAuth(r, u, a)
      PROVE  /\ Credentials(u, role[u]) /\ Identified(r, u, role[u], a)
             /\ role[u] \in Roles
  BY <1>3 DEF McpOAuth, AccessTypeOK, Credentials
<1> QED
  BY <1>1, <1>2, <1>3 DEF Arrives

LEMMA StepKinds ==
  ASSUME AccessTypeOK, [Next]_vars
  PROVE  (\E r \in Requests : StepOf(r)) \/ Surroundings
<1>1. ASSUME NEW r \in Requests, Arrives(r) PROVE StepOf(r)
  BY <1>1, Arrivals DEF StepOf
<1>2. Finished => UNCHANGED vars
  BY DEF Finished
<1> QED
  BY <1>1, <1>2 DEF Next, StepOf, Surroundings

----------------------------------------------------------------------------
LEMMA TypeInit == Init => TypeInv
<1> SUFFICES ASSUME Init PROVE TypeInv
  OBVIOUS
<1>1. perms \in [Roles -> SUBSET Permission]
  BY DEF Init, Permission
<1>2. {held, lacked} \subseteq [Roles -> [Actions -> Nat \cup {Never}]]
  BY DEF Init
<1>3. AccessTypeOK
  BY <1>1, <1>2 DEF Init, AccessTypeOK
<1>4. \A r \in Requests : Staged(r)
  BY DEF Init, Staged, Acting
<1> QED
  BY <1>3, <1>4 DEF TypeInv

(* A step of a request writes its own entries, and no other's.             *)
LEMMA StepsAlone ==
  ASSUME AccessTypeOK, NEW r \in Requests, StepOf(r), NEW q \in Requests \ {r}
  PROVE  /\ pc'[q] = pc[q] /\ who'[q] = who[q] /\ as'[q] = as[q]
         /\ want'[q] = want[q] /\ got'[q] = got[q] /\ answer'[q] = answer[q]
         /\ at'[q] = at[q]
<1> USE DEF AccessTypeOK, request
<1>1. ASSUME NEW a, Answer(r, a) PROVE pc'[q] = pc[q] /\ answer'[q] = answer[q]
  BY <1>1 DEF Answer
<1>2. ASSUME NEW u \in Users, SignUpReads(r, u)
      PROVE  /\ pc'[q] = pc[q] /\ who'[q] = who[q] /\ answer'[q] = answer[q]
             /\ UNCHANGED <<as, want, got, at>>
  BY <1>2 DEF SignUpReads, Answer
<1>3. ASSUME NEW u, NEW o, NEW a, Identified(r, u, o, a)
      PROVE  /\ pc'[q] = pc[q] /\ who'[q] = who[q] /\ as'[q] = as[q]
             /\ want'[q] = want[q] /\ at'[q] = at[q] /\ UNCHANGED <<got, answer>>
  BY <1>3 DEF Identified
<1>4. CASE SignUpCreates(r) \/ SignUpCollides(r) \/ Fail(r)
  BY <1>1, <1>4 DEF SignUpCreates, SignUpCollides, Fail
<1>5. CASE Unauthorized(r)
  BY <1>1, <1>5 DEF Unauthorized
<1>6. CASE CheckHits(r) \/ CheckFills(r)
  BY <1>1, <1>6 DEF CheckHits, CheckFills, Decide
<1>7. CASE CheckReads(r)
  BY <1>7 DEF CheckReads
<1> QED
  BY <1>2, <1>3, <1>4, <1>5, <1>6, <1>7 DEF StepOf

(* The clock stands still while a request takes a step.                    *)
LEMMA StepsTimeless ==
  ASSUME NEW r, StepOf(r)
  PROVE  now' = now /\ env' = env
  BY DEF StepOf, SignUpReads, SignUpCreates, SignUpCollides, Unauthorized,
     Identified, CheckHits, CheckReads, CheckFills, Fail

LEMMA SurroundingsKeep ==
  ASSUME Surroundings
  PROVE  UNCHANGED <<env, request>>
  BY DEF Surroundings, SignIn, AssignRole, IncrementVersion, Permit, Forbid,
     InvalidateRoles, Tick, vars, request

(* What the tables, the cache and the history hold, whatever step is taken.*)
LEMMA RecordedTypes ==
  ASSUME AccessTypeOK, now' \in Nat, Recorded
  PROVE  {held', lacked'} \subseteq [Roles -> [Actions -> Nat \cup {Never}]]
<1>1. held' \in [Roles -> [Actions -> Nat \cup {Never}]]
  BY DEF AccessTypeOK, Recorded
<1>2. lacked' \in [Roles -> [Actions -> Nat \cup {Never}]]
  BY DEF AccessTypeOK, Recorded
<1> QED
  BY <1>1, <1>2

(* The two halves of the types: the requests, and what they work on.       *)
RequestTypes ==
  /\ pc \in [Requests -> {"idle", "create", "check", "fill", "done"}]
  /\ who \in [Requests -> Users \cup {Null}]
  /\ as \in [Requests -> Roles \cup {Null}]
  /\ want \in [Requests -> Actions \cup {Null}]
  /\ got \in [Requests -> SUBSET Permission]
  /\ answer \in [Requests -> {"none", "created", "conflict", "error",
                             "unauthorized", "no_user", "allowed", "forbidden"}]
  /\ at \in [Requests -> Nat \cup {Never}]
  /\ \A r \in Requests : pc[r] = "check" => as[r] # Null

SharedTypes ==
  /\ env \in [production : BOOLEAN, requested : BOOLEAN]
  /\ role \in [Users -> Roles \cup {Null}]
  /\ version \in [Users -> Nat]
  /\ perms \in [Roles -> SUBSET Permission]
  /\ cached \in [Roles -> CacheEntry \cup {Null}]
  /\ jwts \subseteq JWT
  /\ now \in Nat /\ changes \in Nat
  /\ hadRole \in [Users -> [Roles -> Nat \cup {Never}]]
  /\ {held, lacked} \subseteq [Roles -> [Actions -> Nat \cup {Never}]]

LEMMA Halves ==
  /\ AccessTypeOK <=> RequestTypes /\ SharedTypes
  /\ AccessTypeOK' <=> RequestTypes' /\ SharedTypes'
  BY DEF AccessTypeOK, RequestTypes, SharedTypes

LEMMA RequestsKept ==
  ASSUME TypeInv, UNCHANGED request, now' \in Nat, now <= now'
  PROVE  RequestTypes' /\ \A r \in Requests : Staged(r)'
<1>1. now \in Nat /\ RequestTypes
  BY Halves DEF TypeInv, SharedTypes
<1>2. /\ pc' = pc /\ who' = who /\ as' = as /\ want' = want /\ got' = got
      /\ answer' = answer /\ at' = at
  BY DEF request
<1>3. RequestTypes'
  BY <1>1, <1>2 DEF RequestTypes
<1>4. ASSUME NEW r \in Requests PROVE Staged(r)'
  <2>1. Staged(r)
    BY DEF TypeInv
  <2>2. Acting(r)' => at[r] \in Nat /\ at[r] <= now
    BY <1>2, <2>1 DEF Staged, Acting
  <2>3. Acting(r)' => at[r] <= now'
    BY <1>1, <2>2
  <2> QED
    BY <1>2, <2>1, <2>2, <2>3 DEF Staged, Acting
<1> QED
  BY <1>3, <1>4

LEMMA TypeSurroundings == TypeInv /\ Surroundings => TypeInv'
<1> SUFFICES ASSUME TypeInv, Surroundings PROVE TypeInv'
  OBVIOUS
<1>0. UNCHANGED request /\ env' = env /\ now \in Nat /\ SharedTypes /\ AccessTypeOK
  BY SurroundingsKeep, Halves DEF TypeInv, SharedTypes
<1>1. ASSUME SharedTypes', now <= now' PROVE TypeInv'
  BY <1>0, <1>1, RequestsKept, Halves DEF TypeInv, SharedTypes
<1>2. ASSUME NEW u \in Users, SignIn(u) PROVE TypeInv'
  <2>1. [user |-> u, role |-> role[u], ver |-> version[u], exp |-> now + JwtTTL] \in JWT
    BY <1>0, <1>2, AccessConstants DEF SignIn, JWT, SharedTypes
  <2>2. jwts' \subseteq JWT
    BY <1>0, <1>2, <2>1 DEF SignIn, SharedTypes
  <2>3. UNCHANGED <<role, version, perms, cached, now, changes, hadRole, held, lacked>>
    BY <1>2 DEF SignIn, operator, tables, history
  <2> QED
    BY <1>0, <1>1, <2>2, <2>3 DEF SharedTypes
<1>3. ASSUME NEW u \in Users, NEW o \in Roles, AssignRole(u, o) PROVE TypeInv'
  <2>1. hadRole' \in [Users -> [Roles -> Nat \cup {Never}]]
    BY <1>0, <1>3 DEF AssignRole, SharedTypes
  <2>2. role' \in [Users -> Roles \cup {Null}] /\ changes' \in Nat
    BY <1>0, <1>3 DEF AssignRole, Changes, SharedTypes
  <2>3. UNCHANGED <<version, perms, cached, jwts, now, held, lacked>>
    BY <1>3 DEF AssignRole
  <2> QED
    BY <1>0, <1>1, <2>1, <2>2, <2>3 DEF SharedTypes
<1>4. ASSUME NEW u \in Users, IncrementVersion(u) PROVE TypeInv'
  <2>1. version' \in [Users -> Nat] /\ changes' \in Nat
    BY <1>0, <1>4 DEF IncrementVersion, Changes, SharedTypes
  <2>2. UNCHANGED <<role, perms, cached, jwts, now, hadRole, held, lacked>>
    BY <1>4 DEF IncrementVersion, history
  <2> QED
    BY <1>0, <1>1, <2>1, <2>2 DEF SharedTypes
<1>5. ASSUME NEW o \in Roles, NEW p \in Permission, Permit(o, p) \/ Forbid(o, p)
      PROVE  TypeInv'
  <2>1. Recorded /\ now' = now /\ UNCHANGED <<role, version, cached, jwts, hadRole>>
    BY <1>5 DEF Permit, Forbid
  <2>2. {held', lacked'} \subseteq [Roles -> [Actions -> Nat \cup {Never}]]
    BY <1>0, <2>1, RecordedTypes
  <2>3. perms' \in [Roles -> SUBSET Permission]
    <3>1. \/ perms' = [perms EXCEPT ![o] = perms[o] \cup {p}]
          \/ perms' = [perms EXCEPT ![o] = perms[o] \ {p}]
      BY <1>5 DEF Permit, Forbid
    <3>2. perms[o] \cup {p} \in SUBSET Permission /\ perms[o] \ {p} \in SUBSET Permission
      BY <1>0 DEF SharedTypes
    <3> QED
      BY <1>0, <3>1, <3>2 DEF SharedTypes
  <2>4. changes' \in Nat
    BY <1>0, <1>5 DEF Permit, Forbid, Changes, SharedTypes
  <2> QED
    BY <1>0, <1>1, <2>1, <2>2, <2>3, <2>4 DEF SharedTypes
<1>6. CASE InvalidateRoles
  <2>1. cached' \in [Roles -> CacheEntry \cup {Null}] /\ changes' \in Nat
    BY <1>0, <1>6 DEF InvalidateRoles, Changes, SharedTypes
  <2>2. UNCHANGED <<role, version, perms, jwts, now, hadRole, held, lacked>>
    BY <1>6 DEF InvalidateRoles, tables, history
  <2> QED
    BY <1>0, <1>1, <2>1, <2>2 DEF SharedTypes
<1>7. CASE Tick
  <2>1. now' \in Nat /\ now <= now'
    BY <1>0, <1>7 DEF Tick
  <2>2. {held', lacked'} \subseteq [Roles -> [Actions -> Nat \cup {Never}]]
    BY <1>0, <1>7, <2>1, RecordedTypes DEF Tick
  <2>3. hadRole' \in [Users -> [Roles -> Nat \cup {Never}]]
    BY <1>0, <1>7, <2>1 DEF Tick, SharedTypes
  <2>4. UNCHANGED <<role, version, perms, changes, cached, jwts>>
    BY <1>7 DEF Tick, tables
  <2> QED
    BY <1>0, <1>1, <2>1, <2>2, <2>3, <2>4 DEF SharedTypes
<1>8. CASE UNCHANGED vars
  <2>1. UNCHANGED <<role, version, perms, changes, cached, jwts, now, hadRole, held, lacked>>
    BY <1>8 DEF vars, operator, tables, history
  <2> QED
    BY <1>0, <1>1, <2>1 DEF SharedTypes
<1> QED
  BY <1>2, <1>3, <1>4, <1>5, <1>6, <1>7, <1>8 DEF Surroundings

Replies == {"none", "created", "conflict", "error", "unauthorized", "no_user",
            "allowed", "forbidden"}

LEMMA AnswerTypes ==
  ASSUME AccessTypeOK, NEW r \in Requests, NEW a \in Replies, Answer(r, a)
  PROVE  /\ pc' \in [Requests -> {"idle", "create", "check", "fill", "done"}]
         /\ answer' \in [Requests -> Replies]
         /\ pc'[r] = "done" /\ answer'[r] = a
         /\ \A q \in Requests : pc'[q] = "check" => pc[q] = "check"
  BY DEF Answer, AccessTypeOK, Replies

LEMMA TypeStepOf ==
  ASSUME TypeInv, NEW r \in Requests, StepOf(r)
  PROVE  TypeInv'
<1>0. /\ now' = now /\ env' = env /\ now \in Nat
      /\ AccessTypeOK /\ RequestTypes /\ SharedTypes /\ Staged(r)
  BY StepsTimeless, Halves DEF TypeInv, SharedTypes
<1>1. ASSUME RequestTypes', SharedTypes', Staged(r)' PROVE TypeInv'
  <2>1. ASSUME NEW q \in Requests \ {r} PROVE Staged(q)'
    <3>1. Staged(q)
      BY DEF TypeInv
    <3>2. /\ pc'[q] = pc[q] /\ who'[q] = who[q] /\ as'[q] = as[q]
          /\ want'[q] = want[q] /\ answer'[q] = answer[q] /\ at'[q] = at[q]
      BY <1>0, StepsAlone
    <3> QED
      BY <1>0, <3>1, <3>2 DEF Staged, Acting
  <2> QED
    BY <1>1, <2>1, Halves DEF TypeInv
<1>2. ASSUME UNCHANGED <<operator, cached, jwts>> PROVE SharedTypes'
  <2>1. UNCHANGED <<role, version, perms, changes, hadRole, held, lacked, cached, jwts>>
    BY <1>2 DEF operator, tables, history
  <2> QED
    BY <1>0, <2>1 DEF SharedTypes
<1>3. ASSUME NEW a \in Replies, Answer(r, a), UNCHANGED <<who, as, want, got, at>>
      PROVE  RequestTypes'
  BY <1>0, <1>3, AnswerTypes DEF RequestTypes, Replies
<1>4. ASSUME NEW a \in Replies \ {"allowed", "forbidden"}, Answer(r, a) PROVE Staged(r)'
  BY <1>0, <1>4, AnswerTypes DEF Staged, Acting
<1>5. ASSUME NEW u \in Users, SignUpReads(r, u) PROVE TypeInv'
  <2>1. who' \in [Requests -> Users \cup {Null}] /\ who'[r] = u
    BY <1>0, <1>5 DEF SignUpReads, RequestTypes
  <2>2. SharedTypes' /\ UNCHANGED <<as, want, got, at>>
    BY <1>2, <1>5 DEF SignUpReads
  <2>3. CASE role[u] = Null
    <3>1. pc' = [pc EXCEPT ![r] = "create"] /\ answer' = answer /\ pc[r] = "idle"
      BY <1>5, <2>3 DEF SignUpReads
    <3>2. RequestTypes'
      BY <1>0, <2>1, <2>2, <3>1 DEF RequestTypes
    <3>3. Staged(r)'
      BY <1>0, <2>1, <3>1 DEF Staged, Acting, RequestTypes
    <3> QED
      BY <1>1, <2>2, <3>2, <3>3
  <2>4. CASE role[u] # Null
    <3>1. Answer(r, "conflict") /\ "conflict" \in Replies
      BY <1>5, <2>4 DEF SignUpReads, Replies
    <3>2. RequestTypes'
      BY <1>0, <2>1, <2>2, <3>1, AnswerTypes DEF RequestTypes, Replies
    <3> QED
      BY <1>1, <1>4, <2>2, <3>1, <3>2
  <2> QED
    BY <2>3, <2>4
<1>6. CASE SignUpCreates(r)
  <2>1. who[r] \in Users /\ Answer(r, "created") /\ "created" \in Replies
    BY <1>0, <1>6 DEF SignUpCreates, Staged, Replies
  <2>2. role' \in [Users -> Roles \cup {Null}]
    BY <1>0, <1>6, <2>1, AccessConstants DEF SignUpCreates, SharedTypes
  <2>3. hadRole' \in [Users -> [Roles -> Nat \cup {Never}]]
    BY <1>0, <1>6, <2>1, AccessConstants DEF SignUpCreates, SharedTypes
  <2>4. UNCHANGED <<version, perms, cached, jwts, changes, held, lacked>>
    BY <1>6 DEF SignUpCreates
  <2>5. SharedTypes'
    BY <1>0, <2>2, <2>3, <2>4 DEF SharedTypes
  <2>6. RequestTypes'
    BY <1>3, <1>6, <2>1 DEF SignUpCreates
  <2> QED
    BY <1>1, <1>4, <2>1, <2>5, <2>6
<1>7. ASSUME NEW a \in {"error", "unauthorized", "no_user"}, Answer(r, a),
             UNCHANGED <<operator, cached, jwts, who, as, want, got, at>>
      PROVE  TypeInv'
  <2>1. a \in Replies \ {"allowed", "forbidden"}
    BY DEF Replies
  <2> QED
    BY <1>1, <1>2, <1>3, <1>4, <1>7, <2>1
<1>8. ASSUME NEW u \in Users \cup {Null}, NEW o \in Roles, NEW a \in Actions,
             Identified(r, u, o, a)
      PROVE  TypeInv'
  <2>1. /\ pc[r] = "idle" /\ pc' = [pc EXCEPT ![r] = "check"]
        /\ as' = [as EXCEPT ![r] = o] /\ want' = [want EXCEPT ![r] = a]
        /\ at' = [at EXCEPT ![r] = now] /\ UNCHANGED <<got, answer>>
    BY <1>8 DEF Identified
  <2>2. who' \in [Requests -> Users \cup {Null}]
    BY <1>0, <1>8 DEF Identified, RequestTypes
  <2>3. \A q \in Requests : pc'[q] = "check" => as'[q] # Null
    BY <1>0, <2>1, AccessNull DEF RequestTypes
  <2>4. RequestTypes'
    BY <1>0, <2>1, <2>2, <2>3 DEF RequestTypes
  <2>5. Staged(r)'
    BY <1>0, <2>1 DEF Staged, Acting, RequestTypes
  <2>6. SharedTypes'
    BY <1>2, <1>8 DEF Identified
  <2> QED
    BY <1>1, <2>4, <2>5, <2>6
<1>9. ASSUME NEW ps \in SUBSET Permission, Decide(r, ps), pc[r] \in {"check", "fill"},
             UNCHANGED <<operator, jwts, who, as, want, got, at>>,
             cached' \in [Roles -> CacheEntry \cup {Null}]
      PROVE  TypeInv'
  <2>1. PICK a \in Replies : Answer(r, a)
    BY <1>9 DEF Decide, Replies
  <2>2. Acting(r)
    BY <1>9 DEF Acting
  <2>3. Staged(r)'
    BY <1>0, <1>9, <2>1, <2>2, AnswerTypes DEF Staged
  <2>4. UNCHANGED <<role, version, perms, changes, hadRole, held, lacked, jwts>>
    BY <1>9 DEF operator, tables, history
  <2>5. SharedTypes'
    BY <1>0, <1>9, <2>4 DEF SharedTypes
  <2> QED
    BY <1>1, <1>3, <1>9, <2>1, <2>3, <2>5
<1>10. CASE CheckHits(r)
  <2>1. as[r] \in Roles /\ cached[as[r]] # Null
    BY <1>0, <1>10 DEF CheckHits, Staged, Acting, Cached
  <2>2. cached[as[r]] \in CacheEntry
    BY <1>0, <2>1 DEF SharedTypes
  <2>3. cached[as[r]].perms \in SUBSET Permission
    BY <2>2 DEF CacheEntry
  <2> QED
    BY <1>0, <1>9, <1>10, <2>3 DEF CheckHits, SharedTypes
<1>11. CASE CheckReads(r)
  <2>1. as[r] \in Roles /\ perms[as[r]] \in SUBSET Permission
    BY <1>0, <1>11 DEF CheckReads, Staged, Acting, SharedTypes
  <2>2. /\ pc[r] = "check" /\ pc' = [pc EXCEPT ![r] = "fill"]
        /\ got' = [got EXCEPT ![r] = perms[as[r]]]
        /\ UNCHANGED <<who, as, want, answer, at>>
    BY <1>11 DEF CheckReads
  <2>3. RequestTypes'
    BY <1>0, <2>1, <2>2 DEF RequestTypes
  <2>4. Staged(r)'
    BY <1>0, <2>2 DEF Staged, Acting, RequestTypes
  <2>5. SharedTypes'
    BY <1>2, <1>11 DEF CheckReads
  <2> QED
    BY <1>1, <2>3, <2>4, <2>5
<1>12. CASE CheckFills(r)
  <2>1. as[r] \in Roles /\ got[r] \in SUBSET Permission
    BY <1>0, <1>12 DEF CheckFills, Staged, Acting, RequestTypes
  <2>2. [perms |-> got[r], expiresAt |-> now + CacheTTL] \in CacheEntry
    BY <1>0, <2>1, AccessConstants DEF CacheEntry
  <2>3. cached' \in [Roles -> CacheEntry \cup {Null}]
    BY <1>0, <1>12, <2>1, <2>2 DEF CheckFills, SharedTypes
  <2> QED
    BY <1>9, <1>12, <2>1, <2>3 DEF CheckFills
<1>13. CASE SignUpCollides(r) \/ Fail(r)
  BY <1>7, <1>13 DEF SignUpCollides, Fail
<1>14. CASE Unauthorized(r)
  BY <1>7, <1>14 DEF Unauthorized
<1> QED
  BY <1>5, <1>6, <1>8, <1>10, <1>11, <1>12, <1>13, <1>14 DEF StepOf

LEMMA TypeStep == TypeInv /\ [Next]_vars => TypeInv'
  BY StepKinds, TypeStepOf, TypeSurroundings DEF TypeInv

(* Every state is well typed, and a request is only ever checked in a role.*)
THEOREM TypeCorrect == Spec => []AccessTypeOK
<1>1. TypeInv => AccessTypeOK
  BY DEF TypeInv
<1> QED
  BY <1>1, TypeInit, TypeStep, PTL DEF Spec

----------------------------------------------------------------------------
(* A request that takes a step has no answer yet; what it is answered it   *)
(* is by the action that the answer tells.                                 *)
LEMMA Unanswered ==
  ASSUME TypeInv, NEW r \in Requests, StepOf(r)
  PROVE  pc[r] # "done" /\ answer[r] = "none"
<1>1. pc[r] # "done"
  BY DEF StepOf, SignUpReads, SignUpCreates, SignUpCollides, Unauthorized, Identified,
     CheckHits, CheckReads, CheckFills, Fail
<1> QED
  BY <1>1 DEF TypeInv, Staged

LEMMA Outcomes ==
  ASSUME TypeInv, NEW r \in Requests, StepOf(r)
  PROVE  /\ answer'[r] = "created" => SignUpCreates(r)
         /\ answer'[r] \in {"allowed", "forbidden"} => CheckHits(r) \/ CheckFills(r)
<1>0. AccessTypeOK /\ answer[r] = "none"
  BY Unanswered DEF TypeInv
<1>1. ASSUME NEW a \in Replies, Answer(r, a) PROVE answer'[r] = a
  BY <1>0, <1>1, AnswerTypes
<1>2. {"conflict", "error", "unauthorized", "no_user", "allowed", "forbidden"} \subseteq Replies
  BY DEF Replies
<1>3. ASSUME NEW u \in Users, SignUpReads(r, u) PROVE answer'[r] \in {"none", "conflict"}
  BY <1>0, <1>1, <1>2, <1>3 DEF SignUpReads
<1>4. SignUpCollides(r) \/ Fail(r) => answer'[r] = "error"
  BY <1>1, <1>2 DEF SignUpCollides, Fail
<1>5. Unauthorized(r) => answer'[r] \in {"unauthorized", "no_user"}
  BY <1>1, <1>2 DEF Unauthorized
<1>6. ASSUME NEW u, NEW o, NEW a, Identified(r, u, o, a) PROVE answer'[r] = "none"
  BY <1>0, <1>6 DEF Identified
<1>7. CheckReads(r) => answer'[r] = "none"
  BY <1>0 DEF CheckReads
<1>8. CheckHits(r) \/ CheckFills(r) => answer'[r] \in {"allowed", "forbidden"}
  BY <1>1, <1>2 DEF CheckHits, CheckFills, Decide
<1>9. SignUpCreates(r) => answer'[r] = "created"
  BY <1>1 DEF SignUpCreates, Replies
<1> QED
  BY <1>3, <1>4, <1>5, <1>6, <1>7, <1>8, <1>9 DEF StepOf

(* A row is never deleted.                                                 *)
LEMMA RowsStay ==
  ASSUME AccessTypeOK, (\E r \in Requests : StepOf(r)) \/ Surroundings
  PROVE  \A u \in Users : role[u] # Null => role'[u] # Null
<1>0. role \in [Users -> Roles \cup {Null}] /\ Member # Null
  BY AccessNull, AccessConstants DEF AccessTypeOK
<1>1. ASSUME NEW r \in Requests, SignUpCreates(r)
      PROVE  \A u \in Users : role[u] # Null => role'[u] # Null
  BY <1>0, <1>1 DEF SignUpCreates
<1>2. ASSUME NEW v \in Users, NEW o \in Roles, AssignRole(v, o)
      PROVE  \A u \in Users : role[u] # Null => role'[u] # Null
  BY <1>0, <1>2, AccessNull DEF AssignRole
<1>3. ASSUME NEW r \in Requests, StepOf(r), ~SignUpCreates(r) PROVE role' = role
  BY <1>3 DEF StepOf, SignUpReads, SignUpCollides, Unauthorized, Identified, CheckHits,
     CheckReads, CheckFills, Fail, operator, tables
<1>4. ASSUME Surroundings, ~(\E v \in Users, o \in Roles : AssignRole(v, o))
      PROVE  role' = role
  BY <1>4 DEF Surroundings, SignIn, IncrementVersion, Permit, Forbid, InvalidateRoles,
     Tick, vars, operator, tables
<1> QED
  BY <1>1, <1>2, <1>3, <1>4

(* A request that is told that it created a user did: the row is there.    *)
Created ==
  \A r \in Requests : answer[r] = "created" => who[r] \in Users /\ role[who[r]] # Null

SignUpInv == TypeInv /\ Created /\ OneSignUp

LEMMA SignUpStep == SignUpInv /\ [Next]_vars => SignUpInv'
<1> SUFFICES ASSUME SignUpInv, [Next]_vars PROVE SignUpInv'
  OBVIOUS
<1>1. TypeInv /\ TypeInv' /\ AccessTypeOK /\ Created /\ OneSignUp
  BY TypeStep DEF SignUpInv, TypeInv
<1>2. \A u \in Users : role[u] # Null => role'[u] # Null
  BY <1>1, StepKinds, RowsStay
<1>3. CASE Surroundings
  <2>1. answer' = answer /\ who' = who
    BY <1>3, SurroundingsKeep DEF request
  <2> QED
    BY <1>1, <1>2, <2>1 DEF SignUpInv, Created, OneSignUp
<1>4. ASSUME NEW r \in Requests, StepOf(r) PROVE SignUpInv'
  <2>1. answer[r] = "none"
    BY <1>1, <1>4, Unanswered
  <2>2. \A q \in Requests \ {r} : answer'[q] = answer[q] /\ who'[q] = who[q]
    BY <1>1, <1>4, StepsAlone
  <2>3. CASE answer'[r] # "created"
    BY <1>1, <1>2, <2>1, <2>2, <2>3 DEF SignUpInv, Created, OneSignUp
  <2>4. CASE answer'[r] = "created"
    <3>1. SignUpCreates(r)
      BY <1>1, <1>4, <2>4, Outcomes
    <3>2. who' = who /\ role[who[r]] = Null /\ who[r] \in Users
      BY <1>1, <3>1 DEF SignUpCreates, TypeInv, Staged
    <3>3. role'[who[r]] # Null
      BY <1>1, <3>1, <3>2, AccessConstants, AccessNull DEF SignUpCreates, AccessTypeOK
    <3> QED
      BY <1>1, <1>2, <2>2, <3>2, <3>3 DEF SignUpInv, Created, OneSignUp
  <2> QED
    BY <2>3, <2>4
<1> QED
  BY <1>1, <1>3, <1>4, StepKinds

(* However sign-ups for one email interleave, one of them creates the user.*)
THEOREM OneSignUpHolds == Spec => []OneSignUp
<1>1. Init => SignUpInv
  BY TypeInit DEF Init, SignUpInv, Created, OneSignUp
<1>2. SignUpInv => OneSignUp
  BY DEF SignUpInv
<1> QED
  BY <1>1, <1>2, SignUpStep, PTL DEF Spec


----------------------------------------------------------------------------
(* The histories tell the truth: what a user or a role has now, it last    *)
(* had now, and no entry is of a later time.                               *)
RolesSeen ==
  \A u \in Users, o \in Roles :
    hadRole[u][o] <= now /\ (role[u] = o => hadRole[u][o] = now)

PermissionsSeen ==
  \A o \in Roles, a \in Actions :
    /\ held[o][a] <= now /\ lacked[o][a] <= now
    /\ IF Has(perms[o], a) THEN held[o][a] = now ELSE lacked[o][a] = now

HistoryInv == TypeInv /\ RolesSeen /\ PermissionsSeen

(* No entry goes back.                                                     *)
HistoryGrows ==
  /\ \A u \in Users, o \in Roles : hadRole[u][o] <= hadRole'[u][o]
  /\ \A o \in Roles, a \in Actions :
       held[o][a] <= held'[o][a] /\ lacked[o][a] <= lacked'[o][a]

LEMMA HistoryInit == Init => HistoryInv
<1> SUFFICES ASSUME Init PROVE RolesSeen /\ PermissionsSeen
  BY TypeInit DEF HistoryInv
<1>1. RolesSeen
  BY AccessNull DEF Init, RolesSeen, Never
<1>2. ASSUME NEW o \in Roles, NEW a \in Actions
      PROVE  Has(perms[o], a) <=> o = Admin
  <2>1. CASE o # Admin
    BY <2>1 DEF Init, Has
  <2>2. CASE o = Admin
    <3>1. [action |-> a, conditional |-> FALSE] \in perms[o]
      BY <2>2 DEF Init
    <3>2. [action |-> a, conditional |-> FALSE].action = a
      OBVIOUS
    <3> QED
      BY <2>2, <3>1, <3>2 DEF Has
  <2> QED
    BY <2>1, <2>2
<1>3. PermissionsSeen
  <2>1. ASSUME NEW o \in Roles, NEW a \in Actions
        PROVE  /\ held[o][a] = IF o = Admin THEN 0 ELSE Never
               /\ lacked[o][a] = IF o = Admin THEN Never ELSE 0
               /\ now = 0
    BY DEF Init
  <2> QED
    BY <1>2, <2>1 DEF PermissionsSeen, Never
<1> QED
  BY <1>1, <1>3

(* Whatever Recorded records, it records rightly.                          *)
LEMMA RecordedRight ==
  ASSUME TypeInv, PermissionsSeen, Recorded, now' \in Nat, now <= now'
  PROVE  /\ PermissionsSeen'
         /\ \A o \in Roles, a \in Actions :
              held[o][a] <= held'[o][a] /\ lacked[o][a] <= lacked'[o][a]
<1>0. now \in Nat
  BY DEF TypeInv, AccessTypeOK
<1>1. ASSUME NEW o \in Roles, NEW a \in Actions
      PROVE  /\ held[o][a] <= now /\ held[o][a] \in Nat \cup {Never}
             /\ lacked[o][a] <= now /\ lacked[o][a] \in Nat \cup {Never}
  BY DEF TypeInv, AccessTypeOK, PermissionsSeen
<1>2. ASSUME NEW o \in Roles, NEW a \in Actions
      PROVE  /\ held'[o][a] = IF Has(perms[o], a) \/ Has(perms'[o], a) THEN now' ELSE held[o][a]
             /\ lacked'[o][a] = IF Has(perms[o], a) /\ Has(perms'[o], a) THEN lacked[o][a] ELSE now'
  BY DEF Recorded
<1>3. ASSUME NEW o \in Roles, NEW a \in Actions
      PROVE  /\ held'[o][a] <= now' /\ lacked'[o][a] <= now'
             /\ held[o][a] <= held'[o][a] /\ lacked[o][a] <= lacked'[o][a]
             /\ IF Has(perms'[o], a) THEN held'[o][a] = now' ELSE lacked'[o][a] = now'
  <2>1. held[o][a] \in Int /\ lacked[o][a] \in Int /\ held[o][a] <= now' /\ lacked[o][a] <= now'
    BY <1>0, <1>1 DEF Never
  <2> HIDE DEF Has
  <2> QED
    BY <1>2, <2>1
<1> QED
  BY <1>3 DEF PermissionsSeen, Has


(* A request leaves the permissions alone, and records the role it gives.  *)
LEMMA HistorySteps ==
  ASSUME HistoryInv, NEW r \in Requests, StepOf(r)
  PROVE  RolesSeen' /\ PermissionsSeen' /\ HistoryGrows
<1>1. /\ now' = now /\ TypeInv /\ AccessTypeOK /\ RolesSeen /\ PermissionsSeen
      /\ now \in Nat
  BY StepsTimeless DEF HistoryInv, TypeInv, AccessTypeOK
<1>2. UNCHANGED <<perms, held, lacked>>
  BY DEF StepOf, SignUpReads, SignUpCreates, SignUpCollides, Unauthorized, Identified,
     CheckHits, CheckReads, CheckFills, Fail, operator, tables, history
<1>3. PermissionsSeen'
  BY <1>1, <1>2 DEF PermissionsSeen
<1>4. \A o \in Roles, a \in Actions :
        held[o][a] <= held'[o][a] /\ lacked[o][a] <= lacked'[o][a]
  <2>1. ASSUME NEW o \in Roles, NEW a \in Actions
        PROVE  held[o][a] \in Int /\ lacked[o][a] \in Int
    BY <1>1 DEF AccessTypeOK, Never
  <2> QED
    BY <1>2, <2>1
<1>5. \A u \in Users, o \in Roles : hadRole[u][o] \in Int
  BY <1>1 DEF AccessTypeOK, Never
<1>6. CASE ~SignUpCreates(r)
  <2>1. UNCHANGED <<role, hadRole>>
    BY <1>6 DEF StepOf, SignUpReads, SignUpCollides, Unauthorized, Identified, CheckHits,
       CheckReads, CheckFills, Fail, operator, tables, history
  <2> QED
    BY <1>1, <1>3, <1>4, <1>5, <2>1 DEF RolesSeen, HistoryGrows
<1>7. CASE SignUpCreates(r)
  <2>1. who[r] \in Users
    BY <1>1, <1>7 DEF SignUpCreates, TypeInv, Staged
  <2>2. /\ role' = [role EXCEPT ![who[r]] = Member]
        /\ hadRole' = [hadRole EXCEPT ![who[r]][Member] = now]
    BY <1>7 DEF SignUpCreates
  <2>3. ASSUME NEW u \in Users, NEW o \in Roles
        PROVE  /\ role'[u] = IF u = who[r] THEN Member ELSE role[u]
               /\ hadRole'[u][o] = IF u = who[r] /\ o = Member THEN now ELSE hadRole[u][o]
    BY <1>1, <2>1, <2>2, AccessConstants DEF AccessTypeOK
  <2>4. RolesSeen'
    BY <1>1, <2>3 DEF RolesSeen
  <2>5. \A u \in Users, o \in Roles : hadRole[u][o] <= hadRole'[u][o]
    BY <1>1, <1>5, <2>3 DEF RolesSeen
  <2> QED
    BY <1>3, <1>4, <2>4, <2>5 DEF HistoryGrows
<1> QED
  BY <1>6, <1>7

(* The operator's statements and the clock.                                *)
LEMMA HistorySurroundings ==
  ASSUME HistoryInv, Surroundings
  PROVE  RolesSeen' /\ PermissionsSeen' /\ HistoryGrows
<1>1. /\ TypeInv /\ AccessTypeOK /\ RolesSeen /\ PermissionsSeen /\ now \in Nat
  BY DEF HistoryInv, TypeInv, AccessTypeOK
<1>2. \A u \in Users, o \in Roles : hadRole[u][o] \in Int
  BY <1>1 DEF AccessTypeOK, Never
<1>3. \A o \in Roles, a \in Actions : held[o][a] \in Int /\ lacked[o][a] \in Int
  BY <1>1 DEF AccessTypeOK, Never
<1>4. ASSUME UNCHANGED <<now, perms, held, lacked>>
      PROVE  /\ PermissionsSeen'
             /\ \A o \in Roles, a \in Actions :
                  held[o][a] <= held'[o][a] /\ lacked[o][a] <= lacked'[o][a]
  BY <1>1, <1>3, <1>4 DEF PermissionsSeen
<1>5. ASSUME UNCHANGED <<now, role, hadRole>>
      PROVE  RolesSeen' /\ \A u \in Users, o \in Roles : hadRole[u][o] <= hadRole'[u][o]
  BY <1>1, <1>2, <1>5 DEF RolesSeen
<1>6. CASE \/ \E u \in Users : SignIn(u) \/ IncrementVersion(u)
           \/ InvalidateRoles \/ UNCHANGED vars
  <2>1. UNCHANGED <<now, role, perms, hadRole, held, lacked>>
    BY <1>6 DEF SignIn, IncrementVersion, InvalidateRoles, vars, operator, tables, history
  <2> QED
    BY <1>4, <1>5, <2>1 DEF HistoryGrows
<1>7. ASSUME NEW u \in Users, NEW o \in Roles, AssignRole(u, o)
      PROVE  RolesSeen' /\ PermissionsSeen' /\ HistoryGrows
  <2>1. /\ role[u] \in Roles /\ UNCHANGED <<now, perms, held, lacked>>
        /\ role' = [role EXCEPT ![u] = o]
        /\ hadRole' = [hadRole EXCEPT ![u] =
                         [[hadRole[u] EXCEPT ![role[u]] = now] EXCEPT ![o] = now]]
    BY <1>1, <1>7 DEF AssignRole, AccessTypeOK
  <2>2. ASSUME NEW v \in Users, NEW p \in Roles
        PROVE  /\ role'[v] = IF v = u THEN o ELSE role[v]
               /\ hadRole'[v][p] = IF v = u /\ p \in {o, role[u]} THEN now ELSE hadRole[v][p]
    BY <1>1, <2>1 DEF AccessTypeOK
  <2>3. RolesSeen'
    BY <1>1, <2>1, <2>2 DEF RolesSeen
  <2>4. \A v \in Users, p \in Roles : hadRole[v][p] <= hadRole'[v][p]
    BY <1>1, <1>2, <2>2 DEF RolesSeen
  <2> QED
    BY <1>4, <2>1, <2>3, <2>4 DEF HistoryGrows
<1>8. ASSUME NEW o \in Roles, NEW p \in Permission, Permit(o, p) \/ Forbid(o, p)
      PROVE  RolesSeen' /\ PermissionsSeen' /\ HistoryGrows
  <2>1. UNCHANGED <<now, role, hadRole>> /\ Recorded
    BY <1>8 DEF Permit, Forbid
  <2> QED
    BY <1>1, <1>5, <2>1, RecordedRight DEF HistoryGrows
<1>9. CASE Tick
  <2>1. /\ now' = now + 1 /\ Recorded /\ role' = role
        /\ \A u \in Users, o \in Roles :
             hadRole'[u][o] = IF role[u] = o THEN now' ELSE hadRole[u][o]
    BY <1>9 DEF Tick, tables
  <2>2. RolesSeen'
    BY <1>1, <1>2, <2>1 DEF RolesSeen
  <2>3. \A u \in Users, o \in Roles : hadRole[u][o] <= hadRole'[u][o]
    BY <1>1, <1>2, <2>1 DEF RolesSeen
  <2> QED
    BY <1>1, <2>1, <2>2, <2>3, RecordedRight DEF HistoryGrows
<1> QED
  BY <1>6, <1>7, <1>8, <1>9 DEF Surroundings

LEMMA HistoryStep == HistoryInv /\ [Next]_vars => HistoryInv' /\ HistoryGrows
<1> SUFFICES ASSUME HistoryInv, [Next]_vars PROVE HistoryInv' /\ HistoryGrows
  OBVIOUS
<1>1. TypeInv' /\ AccessTypeOK
  BY TypeStep DEF HistoryInv, TypeInv
<1> QED
  BY <1>1, StepKinds, HistorySteps, HistorySurroundings DEF HistoryInv


----------------------------------------------------------------------------
(* What set ps says of role o held, or did not, at time t or later.        *)
Since(o, ps, t) ==
  \A a \in Actions : IF Has(ps, a) THEN held[o][a] >= t ELSE lacked[o][a] >= t

(* The cache says what the tables said at most CacheTTL before the entry   *)
(* ends; a factory that runs has read what the tables say in this tick;    *)
(* and so an answer says what they said at most CacheTTL before it.        *)
CacheTrue ==
  \A o \in Roles :
    cached[o] # Null => Since(o, cached[o].perms, cached[o].expiresAt - CacheTTL)

FactoriesTrue ==
  \A r \in Requests : pc[r] = "fill" => Since(as[r], got[r], now)

LagInv == HistoryInv /\ CacheTrue /\ FactoriesTrue /\ PermissionLag /\ GrantLag

LEMMA CanMeansHas == ASSUME NEW ps, NEW a PROVE Can(ps, a) <=> Has(ps, a)
  BY DEF Can, Has

LEMMA Lives == JwtTTL \in Nat /\ CacheTTL \in Nat /\ JwtTTL > 0
  BY AccessConstants

LEMMA Entries ==
  ASSUME HistoryInv, HistoryGrows, HistoryInv', NEW o \in Roles, NEW a \in Actions
  PROVE  /\ held[o][a] \in Int /\ held'[o][a] \in Int /\ held[o][a] <= held'[o][a]
         /\ lacked[o][a] \in Int /\ lacked'[o][a] \in Int
         /\ lacked[o][a] <= lacked'[o][a]
  BY DEF HistoryInv, TypeInv, AccessTypeOK, HistoryGrows, Never

LEMMA SinceStays ==
  ASSUME HistoryInv, HistoryGrows, HistoryInv', NEW o \in Roles, NEW ps, NEW t \in Int,
         Since(o, ps, t)
  PROVE  \A a \in Actions : IF Has(ps, a) THEN held'[o][a] >= t ELSE lacked'[o][a] >= t
<1>1. ASSUME NEW a \in Actions
      PROVE  IF Has(ps, a) THEN held[o][a] >= t ELSE lacked[o][a] >= t
  BY DEF Since
<1> QED
  BY <1>1, Entries

(* An entry that keeps its place keeps its truth.                          *)
LEMMA CacheKept ==
  ASSUME LagInv, HistoryGrows, HistoryInv', NEW o \in Roles, cached'[o] = cached[o]
  PROVE  cached'[o] # Null => Since(o, cached[o].perms, cached[o].expiresAt - CacheTTL)'
<1> SUFFICES ASSUME cached[o] # Null
             PROVE  Since(o, cached[o].perms, cached[o].expiresAt - CacheTTL)'
  OBVIOUS
<1>1. cached[o] \in CacheEntry
  BY DEF LagInv, HistoryInv, TypeInv, AccessTypeOK
<1>2. PICK t \in Int : t = cached[o].expiresAt - CacheTTL
  BY <1>1, AccessConstants DEF CacheEntry
<1>3. PICK ps : ps = cached[o].perms
  OBVIOUS
<1>4. Since(o, ps, t)
  BY <1>2, <1>3 DEF LagInv, CacheTrue
<1>5. \A a \in Actions : IF Has(ps, a) THEN held'[o][a] >= t ELSE lacked'[o][a] >= t
  BY <1>4, SinceStays DEF LagInv
<1>6. cached'[o].expiresAt - CacheTTL = t /\ cached'[o].perms = ps
  BY <1>2, <1>3
<1> QED
  BY <1>5, <1>6 DEF Since

(* So does a factory's read, in its tick; and the answer of a request that *)
(* has one.                                                                *)
LEMMA FactoryKept ==
  ASSUME LagInv, HistoryGrows, HistoryInv', now' = now, NEW r \in Requests,
         pc[r] = "fill", as'[r] = as[r], got'[r] = got[r]
  PROVE  Since(as[r], got[r], now)'
<1>1. PICK o \in Roles : o = as[r]
  BY DEF LagInv, HistoryInv, TypeInv, Staged, Acting
<1>2. PICK ps : ps = got[r]
  OBVIOUS
<1>3. PICK t \in Int : t = now
  BY DEF LagInv, HistoryInv, TypeInv, AccessTypeOK
<1>4. Since(o, ps, t)
  BY <1>1, <1>2, <1>3 DEF LagInv, FactoriesTrue
<1>5. \A a \in Actions : IF Has(ps, a) THEN held'[o][a] >= t ELSE lacked'[o][a] >= t
  BY <1>4, SinceStays DEF LagInv
<1> QED
  BY <1>1, <1>2, <1>3, <1>5 DEF Since

Lags(r) ==
  /\ answer[r] = "allowed" => held[as[r]][want[r]] >= at[r] - CacheTTL
  /\ answer[r] = "forbidden" => lacked[as[r]][want[r]] >= at[r] - CacheTTL

LEMMA LagKept ==
  ASSUME LagInv, HistoryGrows, HistoryInv', NEW r \in Requests, answer'[r] = answer[r],
         as'[r] = as[r], want'[r] = want[r], at'[r] = at[r]
  PROVE  Lags(r)'
<1> SUFFICES ASSUME answer[r] \in {"allowed", "forbidden"} PROVE Lags(r)'
  BY DEF Lags
<1>1. as[r] \in Roles /\ want[r] \in Actions /\ at[r] \in Nat /\ Lags(r)
  BY DEF LagInv, HistoryInv, TypeInv, Staged, Acting, PermissionLag, GrantLag, Lags
<1>2. PICK o \in Roles, a \in Actions, n \in Nat : o = as[r] /\ a = want[r] /\ n = at[r]
  BY <1>1
<1>3. CacheTTL \in Int
  BY AccessConstants
<1>4. CASE answer[r] = "allowed"
  <2>1. held[o][a] >= n - CacheTTL
    BY <1>1, <1>2, <1>4 DEF Lags
  <2>2. held'[o][a] >= n - CacheTTL
    BY <1>3, <2>1, Entries DEF LagInv
  <2> QED
    BY <1>2, <1>4, <2>2 DEF Lags
<1>5. CASE answer[r] = "forbidden"
  <2>1. lacked[o][a] >= n - CacheTTL
    BY <1>1, <1>2, <1>5 DEF Lags
  <2>2. lacked'[o][a] >= n - CacheTTL
    BY <1>3, <2>1, Entries DEF LagInv
  <2> QED
    BY <1>2, <1>5, <2>2 DEF Lags
<1> QED
  BY <1>4, <1>5

(* An answer by permissions that were true at most CacheTTL ago.           *)
LEMMA DecidedLag ==
  ASSUME LagInv, HistoryGrows, HistoryInv', NEW r \in Requests, Acting(r),
         NEW ps, NEW t \in Int, t >= now - CacheTTL, Since(as[r], ps, t), Decide(r, ps),
         UNCHANGED <<as, want, at, now>>
  PROVE  Lags(r)'
<1>1. /\ as[r] \in Roles /\ want[r] \in Actions /\ at[r] \in Nat /\ at[r] <= now
      /\ now \in Nat /\ AccessTypeOK
  BY DEF LagInv, HistoryInv, TypeInv, AccessTypeOK, Staged
<1>2. PICK o \in Roles, a \in Actions, n \in Nat : o = as[r] /\ a = want[r] /\ n = at[r]
  BY <1>1
<1>3. IF Has(ps, a) THEN held'[o][a] >= t ELSE lacked'[o][a] >= t
  BY <1>2, SinceStays DEF LagInv
<1>4. answer'[r] = IF Has(ps, a) THEN "allowed" ELSE "forbidden"
  BY <1>1, <1>2, CanMeansHas DEF Decide, Answer, AccessTypeOK
<1>5. IF Has(ps, a) THEN held'[o][a] >= n - CacheTTL ELSE lacked'[o][a] >= n - CacheTTL
  <2>1. t >= n - CacheTTL
    BY <1>1, <1>2, Lives
  <2>2. held'[o][a] \in Int /\ lacked'[o][a] \in Int
    BY Entries DEF LagInv
  <2> QED
    BY <1>3, <2>1, <2>2, Lives
<1> QED
  BY <1>2, <1>4, <1>5 DEF Lags


LEMMA LagSurroundings ==
  ASSUME LagInv, HistoryGrows, HistoryInv', Surroundings
  PROVE  LagInv'
<1>1. UNCHANGED request
  BY SurroundingsKeep
<1>2. \A r \in Requests : Lags(r)'
  BY <1>1, LagKept DEF request
<1>3. CacheTrue'
  <2>1. \/ cached' = cached
        \/ cached' = [o \in Roles |-> Null]
    BY DEF Surroundings, SignIn, AssignRole, IncrementVersion, Permit, Forbid,
       InvalidateRoles, Tick, vars
  <2> QED
    BY <2>1, CacheKept DEF CacheTrue
<1>4. FactoriesTrue'
  <2>1. ASSUME NEW r \in Requests, pc'[r] = "fill"
        PROVE  Since(as[r], got[r], now)'
    <3>1. pc[r] = "fill" /\ as'[r] = as[r] /\ got'[r] = got[r]
      BY <1>1, <2>1 DEF request
    <3>2. now' = now
      BY <3>1 DEF Surroundings, SignIn, AssignRole, IncrementVersion, Permit, Forbid,
         InvalidateRoles, Tick, vars
    <3> QED
      BY <3>1, <3>2, FactoryKept
  <2> QED
    BY <2>1 DEF FactoriesTrue
<1> QED
  BY <1>2, <1>3, <1>4 DEF LagInv, PermissionLag, GrantLag, Lags

LEMMA LagSteps ==
  ASSUME LagInv, HistoryGrows, HistoryInv', NEW r \in Requests, StepOf(r)
  PROVE  LagInv'
<1>1. /\ TypeInv /\ AccessTypeOK /\ HistoryInv /\ now' = now /\ now \in Nat
      /\ answer[r] = "none"
  BY StepsTimeless, Unanswered DEF LagInv, HistoryInv, TypeInv, AccessTypeOK
<1>2. ASSUME NEW q \in Requests \ {r}
      PROVE  Lags(q)' /\ (pc'[q] = "fill" => Since(as[q], got[q], now)')
  BY <1>1, StepsAlone, LagKept, FactoryKept
<1>3. ASSUME CacheTrue', Lags(r)', pc'[r] = "fill" => Since(as[r], got[r], now)'
      PROVE  LagInv'
  BY <1>2, <1>3 DEF LagInv, PermissionLag, GrantLag, FactoriesTrue, Lags
<1>4. CASE CheckHits(r)
  <2>1. /\ pc[r] = "check" /\ Cached(as[r]) /\ Decide(r, cached[as[r]].perms)
        /\ UNCHANGED <<cached, as, want, at, now>>
    BY <1>4 DEF CheckHits
  <2>2. Acting(r) /\ as[r] \in Roles /\ cached[as[r]] \in CacheEntry
    BY <1>1, <2>1 DEF Acting, Staged, TypeInv, AccessTypeOK, Cached
  <2>3. PICK e \in Nat : e = cached[as[r]].expiresAt
    BY <2>2 DEF CacheEntry
  <2>4. PICK t \in Int : t = e - CacheTTL
    BY Lives
  <2>5. Since(as[r], cached[as[r]].perms, t)
    BY <2>1, <2>2, <2>3, <2>4 DEF LagInv, CacheTrue, Cached
  <2>6. t >= now - CacheTTL
    <3>1. now < e
      BY <2>1, <2>3 DEF Cached
    <3> QED
      BY <1>1, <2>4, <3>1, Lives
  <2>7. Lags(r)'
    BY <2>1, <2>2, <2>5, <2>6, DecidedLag
  <2>8. CacheTrue'
    BY <2>1, CacheKept DEF CacheTrue
  <2>9. pc'[r] = "done"
    BY <1>1, <2>1 DEF Decide, Answer, AccessTypeOK
  <2> QED
    BY <1>3, <2>7, <2>8, <2>9
<1>5. CASE CheckFills(r)
  <2>1. /\ pc[r] = "fill" /\ Decide(r, got[r]) /\ UNCHANGED <<as, want, got, at, now>>
        /\ cached' = [cached EXCEPT ![as[r]] =
                        [perms |-> got[r], expiresAt |-> now + CacheTTL]]
    BY <1>5 DEF CheckFills
  <2>2. Acting(r) /\ as[r] \in Roles
    BY <1>1, <2>1 DEF Acting, Staged, TypeInv
  <2>3. PICK o \in Roles, ps \in SUBSET Permission, n \in Nat :
               o = as[r] /\ ps = got[r] /\ n = now
    BY <1>1, <2>2 DEF AccessTypeOK
  <2>4. Since(o, ps, n) /\ n >= n - CacheTTL
    <3>1. Since(as[r], got[r], now)
      BY <2>1 DEF LagInv, FactoriesTrue
    <3> QED
      BY <2>3, <3>1, Lives
  <2>5. Lags(r)'
    <3>1. Since(as[r], ps, n) /\ Decide(r, ps) /\ n >= now - CacheTTL /\ n \in Int
      BY <2>1, <2>3, <2>4
    <3> QED
      BY <2>1, <2>2, <3>1, DecidedLag
  <2>6. cached'[o].perms = ps /\ cached'[o].expiresAt - CacheTTL = n
    BY <1>1, <2>1, <2>3, Lives DEF AccessTypeOK
  <2>7. \A a \in Actions : IF Has(ps, a) THEN held'[o][a] >= n ELSE lacked'[o][a] >= n
    BY <1>1, <2>4, SinceStays
  <2>8. Since(o, cached[o].perms, cached[o].expiresAt - CacheTTL)'
    BY <2>6, <2>7 DEF Since
  <2>9. ASSUME NEW p \in Roles \ {o} PROVE cached'[p] = cached[p]
    BY <1>1, <2>1, <2>3 DEF AccessTypeOK
  <2>10. CacheTrue'
    BY <2>8, <2>9, CacheKept DEF CacheTrue
  <2>11. pc'[r] = "done"
    BY <1>1, <2>1 DEF Decide, Answer, AccessTypeOK
  <2> QED
    BY <1>3, <2>5, <2>10, <2>11
<1>6. CASE CheckReads(r)
  <2>1. /\ pc[r] = "check" /\ got' = [got EXCEPT ![r] = perms[as[r]]]
        /\ UNCHANGED <<cached, as, answer, perms, held, lacked>>
    BY <1>6 DEF CheckReads, operator, tables, history
  <2>2. as[r] \in Roles
    BY <1>1, <2>1 DEF Acting, Staged, TypeInv
  <2>3. PICK o \in Roles : o = as[r]
    BY <2>2
  <2>4. got'[r] = perms[o] /\ as'[r] = o
    BY <1>1, <2>1, <2>3 DEF AccessTypeOK
  <2>5. \A a \in Actions : IF Has(perms[o], a) THEN held[o][a] >= now ELSE lacked[o][a] >= now
    BY <1>1 DEF HistoryInv, PermissionsSeen
  <2>6. Since(as[r], got[r], now)'
    BY <1>1, <2>1, <2>4, <2>5 DEF Since
  <2>7. CacheTrue'
    BY <2>1, CacheKept DEF CacheTrue
  <2>8. Lags(r)'
    BY <1>1, <2>1 DEF Lags
  <2> QED
    BY <1>3, <2>6, <2>7, <2>8
<1>7. CASE ~CheckHits(r) /\ ~CheckFills(r) /\ ~CheckReads(r)
  <2>1. cached' = cached
    BY <1>7 DEF StepOf, SignUpReads, SignUpCreates, SignUpCollides, Unauthorized,
       Identified, Fail
  <2>2. CacheTrue'
    BY <2>1, CacheKept DEF CacheTrue
  <2>3. answer'[r] \notin {"allowed", "forbidden"}
    BY <1>1, <1>7, Outcomes
  <2>4. pc'[r] # "fill"
    BY <1>1, <1>7 DEF StepOf, SignUpReads, SignUpCreates, SignUpCollides, Unauthorized,
       Identified, Fail, Answer, AccessTypeOK
  <2> QED
    BY <1>3, <2>2, <2>3, <2>4 DEF Lags
<1> QED
  BY <1>4, <1>5, <1>6, <1>7

LEMMA LagStep == LagInv /\ [Next]_vars => LagInv'
<1> SUFFICES ASSUME LagInv, [Next]_vars PROVE LagInv'
  OBVIOUS
<1>1. HistoryInv' /\ HistoryGrows /\ AccessTypeOK
  BY HistoryStep DEF LagInv, HistoryInv, TypeInv
<1> QED
  BY <1>1, StepKinds, LagSteps, LagSurroundings

LEMMA LagInit == Init => LagInv
<1> SUFFICES ASSUME Init PROVE CacheTrue /\ FactoriesTrue /\ PermissionLag /\ GrantLag
  BY HistoryInit DEF LagInv
<1> QED
  BY DEF Init, CacheTrue, FactoriesTrue, PermissionLag, GrantLag

(* What is allowed was permitted to the role at most CacheTTL before the   *)
(* request came, whatever the operator changes while its entry is cached.  *)
THEOREM PermissionLagHolds == Spec => []PermissionLag
<1>1. LagInv => PermissionLag
  BY DEF LagInv
<1> QED
  BY <1>1, LagInit, LagStep, PTL DEF Spec

(* What is forbidden the role had lacked at most CacheTTL before.          *)
THEOREM GrantLagHolds == Spec => []GrantLag
<1>1. LagInv => GrantLag
  BY DEF LagInv
<1> QED
  BY <1>1, LagInit, LagStep, PTL DEF Spec


----------------------------------------------------------------------------
(* A JWT carries a role its user had when it was signed; so a request acts *)
(* in a role that its user had less than JwtTTL before it came; and in     *)
(* production it acts for a user.                                          *)
TokensTrue == \A j \in jwts : hadRole[j.user][j.role] >= j.exp - JwtTTL

RolesTrue ==
  \A r \in Requests :
    Acting(r) /\ who[r] # Null => hadRole[who[r]][as[r]] > at[r] - JwtTTL

Named == env.production => \A r \in Requests : Acting(r) => who[r] # Null

IdentityInv == HistoryInv /\ TokensTrue /\ RolesTrue /\ Named

LEMMA RoleEntries ==
  ASSUME HistoryInv, HistoryGrows, HistoryInv', NEW u \in Users, NEW o \in Roles
  PROVE  /\ hadRole[u][o] \in Int /\ hadRole'[u][o] \in Int
         /\ hadRole[u][o] <= hadRole'[u][o]
  BY DEF HistoryInv, TypeInv, AccessTypeOK, HistoryGrows, Never

LEMMA TokensStay ==
  ASSUME IdentityInv, HistoryGrows, HistoryInv', NEW j \in jwts
  PROVE  hadRole'[j.user][j.role] >= j.exp - JwtTTL
<1>1. PICK u \in Users, o \in Roles, e \in Nat : u = j.user /\ o = j.role /\ e = j.exp
  BY DEF IdentityInv, HistoryInv, TypeInv, AccessTypeOK, JWT
<1>2. hadRole[u][o] >= e - JwtTTL
  BY <1>1 DEF IdentityInv, TokensTrue
<1>3. hadRole'[u][o] >= e - JwtTTL
  BY <1>2, RoleEntries, Lives DEF IdentityInv
<1> QED
  BY <1>1, <1>3

(* What a request acts for and in, it keeps, and the history with it.      *)
LEMMA RoleKept ==
  ASSUME IdentityInv, HistoryGrows, HistoryInv', NEW r \in Requests,
         Acting(r), who[r] # Null
  PROVE  hadRole'[who[r]][as[r]] > at[r] - JwtTTL
<1>1. PICK u \in Users, o \in Roles, n \in Nat : u = who[r] /\ o = as[r] /\ n = at[r]
  BY DEF IdentityInv, HistoryInv, TypeInv, Staged, AccessTypeOK
<1>2. hadRole[u][o] > n - JwtTTL
  BY <1>1 DEF IdentityInv, RolesTrue
<1>3. hadRole'[u][o] > n - JwtTTL
  BY <1>2, RoleEntries, Lives DEF IdentityInv
<1> QED
  BY <1>1, <1>3

LEMMA IdentitySurroundings ==
  ASSUME IdentityInv, HistoryGrows, HistoryInv', Surroundings
  PROVE  IdentityInv'
<1>1. UNCHANGED <<env, pc, who, as, answer, at>>
  BY SurroundingsKeep DEF request
<1>2. RolesTrue' /\ Named'
  BY <1>1, RoleKept DEF RolesTrue, Named, Acting, IdentityInv
<1>3. ASSUME jwts' = jwts PROVE TokensTrue'
  BY <1>3, TokensStay DEF TokensTrue
<1>4. ASSUME NEW u \in Users, SignIn(u) PROVE TokensTrue'
  <2>1. PICK n \in Nat, o \in Roles : n = now /\ o = role[u]
    BY <1>4 DEF SignIn, IdentityInv, HistoryInv, TypeInv, AccessTypeOK
  <2>2. PICK t : t = [user |-> u, role |-> o, ver |-> version[u], exp |-> n + JwtTTL]
    OBVIOUS
  <2>3. jwts' = jwts \cup {t} /\ hadRole' = hadRole
    BY <1>4, <2>1, <2>2 DEF SignIn, operator, history
  <2>4. t.user = u /\ t.role = o /\ t.exp - JwtTTL = n
    BY <2>2, Lives
  <2>5. hadRole[u][o] = n
    BY <2>1 DEF IdentityInv, HistoryInv, RolesSeen
  <2>6. hadRole'[t.user][t.role] >= t.exp - JwtTTL
    BY <2>3, <2>4, <2>5
  <2> QED
    BY <2>3, <2>6, TokensStay DEF TokensTrue
<1>5. (\E u \in Users : SignIn(u)) \/ jwts' = jwts
  BY DEF Surroundings, AssignRole, IncrementVersion, Permit, Forbid, InvalidateRoles,
     Tick, vars
<1> QED
  BY <1>2, <1>3, <1>4, <1>5 DEF IdentityInv

LEMMA IdentitySteps ==
  ASSUME IdentityInv, HistoryGrows, HistoryInv', NEW r \in Requests, StepOf(r)
  PROVE  IdentityInv'
<1>1. /\ TypeInv /\ AccessTypeOK /\ HistoryInv /\ env' = env /\ now \in Nat
      /\ answer[r] = "none"
  BY StepsTimeless, Unanswered DEF IdentityInv, HistoryInv, TypeInv, AccessTypeOK
<1>2. TokensTrue'
  <2>1. jwts' = jwts
    BY DEF StepOf, SignUpReads, SignUpCreates, SignUpCollides, Unauthorized, Identified,
       CheckHits, CheckReads, CheckFills, Fail
  <2> QED
    BY <2>1, TokensStay DEF TokensTrue
<1>3. ASSUME NEW q \in Requests \ {r}
      PROVE  /\ Acting(q)' => Acting(q)
             /\ who'[q] = who[q] /\ as'[q] = as[q] /\ at'[q] = at[q]
  BY <1>1, StepsAlone DEF Acting
<1>4. ASSUME Acting(r)' =>
               /\ env.production => who'[r] # Null
               /\ who'[r] # Null => hadRole'[who'[r]][as'[r]] > at'[r] - JwtTTL
      PROVE  IdentityInv'
  <2>1. RolesTrue'
    BY <1>3, <1>4, RoleKept DEF RolesTrue
  <2>2. Named'
    BY <1>1, <1>3, <1>4 DEF Named, IdentityInv
  <2> QED
    BY <1>2, <2>1, <2>2 DEF IdentityInv
<1>5. CASE CheckHits(r) \/ CheckReads(r) \/ CheckFills(r)
  <2>1. pc[r] \in {"check", "fill"} /\ who' = who /\ as' = as /\ at' = at
    BY <1>5 DEF CheckHits, CheckReads, CheckFills
  <2>2. Acting(r)
    BY <2>1 DEF Acting
  <2> QED
    BY <1>4, <2>1, <2>2, RoleKept DEF IdentityInv, Named
<1>6. ASSUME NEW u \in Users \cup {Null}, NEW o \in Roles, NEW a \in Actions,
             Credentials(u, o), Identified(r, u, o, a)
      PROVE  IdentityInv'
  <2>1. PICK n \in Nat : n = now
    BY <1>1
  <2>2. who'[r] = u /\ as'[r] = o /\ at'[r] = n
    BY <1>1, <1>6, <2>1 DEF Identified, AccessTypeOK
  <2>3. hadRole' = hadRole
    BY <1>6 DEF Identified, operator, history
  <2>4. env.production => u # Null
    BY <1>1, <1>6, AccessNull DEF Credentials, AccessTypeOK, JWT
  <2>5. ASSUME u # Null PROVE hadRole[u][o] > n - JwtTTL
    <3>1. u \in Users
      BY <2>5
    <3>2. CASE role[u] = o
      <4>1. hadRole[u][o] = n
        BY <1>1, <2>1, <3>1, <3>2 DEF HistoryInv, RolesSeen
      <4> QED
        BY <4>1, Lives
    <3>3. ASSUME NEW j \in jwts, j.user = u, j.role = o, now < j.exp
          PROVE  hadRole[u][o] > n - JwtTTL
      <4>1. PICK e \in Nat : e = j.exp
        BY <1>1 DEF AccessTypeOK, JWT
      <4>2. hadRole[u][o] >= e - JwtTTL
        BY <3>3, <4>1 DEF IdentityInv, TokensTrue
      <4>3. n < e
        BY <2>1, <3>3, <4>1
      <4> QED
        BY <1>1, <3>1, <4>2, <4>3, RoleEntries, Lives
    <3> QED
      BY <1>6, <2>5, <3>2, <3>3 DEF Credentials
  <2> QED
    BY <1>4, <2>2, <2>3, <2>4, <2>5
<1>7. CASE SignUpCreates(r)
  BY <1>1, <1>4, <1>7 DEF SignUpCreates, Answer, Acting, AccessTypeOK
<1>8. CASE \/ \E u \in Users : SignUpReads(r, u)
           \/ SignUpCollides(r) \/ Unauthorized(r) \/ Fail(r)
  <2>1. \/ pc' = [pc EXCEPT ![r] = "create"] /\ answer' = answer
        \/ \E a \in {"conflict", "error", "unauthorized", "no_user"} : Answer(r, a)
    BY <1>8 DEF SignUpReads, SignUpCollides, Unauthorized, Fail
  <2>2. ~Acting(r)'
    BY <1>1, <2>1 DEF Answer, Acting, AccessTypeOK
  <2> QED
    BY <1>4, <2>2
<1> QED
  BY <1>5, <1>6, <1>7, <1>8 DEF StepOf

LEMMA IdentityStep == IdentityInv /\ [Next]_vars => IdentityInv'
<1> SUFFICES ASSUME IdentityInv, [Next]_vars PROVE IdentityInv'
  OBVIOUS
<1>1. HistoryInv' /\ HistoryGrows /\ AccessTypeOK
  BY HistoryStep DEF IdentityInv, HistoryInv, TypeInv
<1> QED
  BY <1>1, StepKinds, IdentitySteps, IdentitySurroundings

LEMMA IdentityInit == Init => IdentityInv
<1> SUFFICES ASSUME Init PROVE TokensTrue /\ RolesTrue /\ Named
  BY HistoryInit DEF IdentityInv
<1> QED
  BY DEF Init, TokensTrue, RolesTrue, Named, Acting

(* A request acts in a role its user had less than JwtTTL before it came.  *)
THEOREM RoleLagHolds == Spec => []RoleLag
<1>1. IdentityInv => RoleLag
  BY DEF IdentityInv, RolesTrue, RoleLag, Acting
<1> QED
  BY <1>1, IdentityInit, IdentityStep, PTL DEF Spec

(* In production nobody is allowed anything without credentials.           *)
THEOREM ProductionNeedsIdentityHolds == Spec => []ProductionNeedsIdentity
<1>1. IdentityInv => ProductionNeedsIdentity
  BY DEF IdentityInv, Named, ProductionNeedsIdentity, Acting
<1> QED
  BY <1>1, IdentityInit, IdentityStep, PTL DEF Spec
=============================================================================
