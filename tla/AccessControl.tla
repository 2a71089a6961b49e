---------------------------- MODULE AccessControl ----------------------------
(***************************************************************************)
(* Who may do what: sign-up, the identity a request is given by the HTTP   *)
(* guards or the MCP endpoint, and the permission check of CASL over the   *)
(* cached permissions of the identity's role.                              *)
(*                                                                         *)
(* Roles and permissions are changed by an operator while requests run.    *)
(***************************************************************************)
EXTENDS Integers, FiniteSets

CONSTANTS
  Requests, Users,  \* users by their email
  Roles, Admin, Member,   \* Member: the role that signUp gives
  Actions,
  Null,
  JwtTTL,      \* life of an access JWT, in ticks
  CacheTTL,    \* life of a cached role, in ticks
  MaxTime, MaxChanges  \* bounds of the model: the clock, and the operator

ASSUME AccessConstants ==
  /\ {Admin, Member} \subseteq Roles
  /\ {JwtTTL, CacheTTL, MaxTime, MaxChanges} \subseteq Nat
  /\ JwtTTL > 0

(* A permission may have a condition on the subject, as the owner's userId *)
(* in the seed.                                                            *)
Permission == [action : Actions, conditional : BOOLEAN]
JWT == [user : Users, role : Roles, ver : Nat, exp : Nat]
CacheEntry == [perms : SUBSET Permission, expiresAt : Nat]
Never == -1

ASSUME AccessNull ==
  /\ Null \notin Roles \cup Users \cup Actions
  /\ Null \notin CacheEntry

VARIABLES
  env,       \* env.production, env.requested: NODE_ENV, and NO_AUTH=true
  role,      \* role[u]: the role of the row of u, or Null without one
  version,   \* version[u]: tokenVersion
  perms,     \* perms[o]: the table of permissions, for role o
  cached,    \* cached[o]: the entry of role o, or Null
  jwts,      \* the access JWTs that were signed
  now, changes,
  pc, who,   \* who[r]: the user r acts for, or signs up
  as,        \* as[r]: the role r's identity carries
  want, got, \* want[r]: the action checked; got[r]: what the factory has read
  answer,
  at,        \* history: at[r], when r was identified
  hadRole,   \* history: hadRole[u][o], when u last had role o
  held, lacked \* history: when role o last had, and last lacked, action a

tables == <<role, version, perms>>
request == <<pc, who, as, want, got, answer, at>>
history == <<hadRole, held, lacked>>
operator == <<changes, tables, history>>
vars == <<env, operator, cached, jwts, now, request>>

----------------------------------------------------------------------------
(* Mutant: NO_AUTH=true holds in production too.                           *)
NoAuthAnywhere == env.requested

(* NoAuthService.enabled.                                                  *)
NoAuth == env.requested /\ ~env.production

Init ==
  /\ env \in [production : BOOLEAN, requested : BOOLEAN]
  /\ role = [u \in Users |-> Null]
  /\ version = [u \in Users |-> 0]
  /\ perms = [o \in Roles |->
                IF o = Admin THEN [action : Actions, conditional : {FALSE}] ELSE {}]
  /\ cached = [o \in Roles |-> Null]
  /\ jwts = {}
  /\ now = 0
  /\ changes = 0
  /\ pc = [r \in Requests |-> "idle"]
  /\ who = [r \in Requests |-> Null]
  /\ as = [r \in Requests |-> Null]
  /\ want = [r \in Requests |-> Null]
  /\ got = [r \in Requests |-> {}]
  /\ answer = [r \in Requests |-> "none"]
  /\ at = [r \in Requests |-> Never]
  /\ hadRole = [u \in Users |-> [o \in Roles |-> Never]]
  /\ held = [o \in Roles |-> [a \in Actions |-> IF o = Admin THEN 0 ELSE Never]]
  /\ lacked = [o \in Roles |-> [a \in Actions |-> IF o = Admin THEN Never ELSE 0]]

Answer(r, a) ==
  /\ pc' = [pc EXCEPT ![r] = "done"]
  /\ answer' = [answer EXCEPT ![r] = a]

----------------------------------------------------------------------------
(* SignUpHandler: findUnique by email; bcrypt; create with role "user".    *)
SignUpReads(r, u) ==
  /\ pc[r] = "idle"
  /\ who' = [who EXCEPT ![r] = u]
  /\ IF role[u] = Null
     THEN pc' = [pc EXCEPT ![r] = "create"] /\ UNCHANGED answer
     ELSE Answer(r, "conflict")
  /\ UNCHANGED <<env, operator, cached, jwts, now, as, want, got, at>>

(* Mutant: an upsert for the create.                                       *)
SignUpUpserts(r) ==
  /\ pc[r] = "create"
  /\ role' = [role EXCEPT ![who[r]] = Member]
  /\ hadRole' = [hadRole EXCEPT ![who[r]][Member] = now]
  /\ Answer(r, "created")
  /\ UNCHANGED <<env, version, perms, cached, jwts, now, changes, who, as, want,
                 got, at, held, lacked>>

SignUpCreates(r) ==
  /\ pc[r] = "create"
  /\ role[who[r]] = Null
  /\ role' = [role EXCEPT ![who[r]] = Member]
  /\ hadRole' = [hadRole EXCEPT ![who[r]][Member] = now]
  /\ Answer(r, "created")
  /\ UNCHANGED <<env, version, perms, cached, jwts, now, changes, who, as, want,
                 got, at, held, lacked>>

(* Another sign-up came first: P2002 on the email, and a 500.              *)
SignUpCollides(r) ==
  /\ pc[r] = "create"
  /\ role[who[r]] # Null
  /\ Answer(r, "error")
  /\ UNCHANGED <<env, operator, cached, jwts, now, who, as, want, got, at>>

(* login and createAccessToken sign the role and the version of the row.   *)
SignIn(u) ==
  /\ role[u] # Null
  /\ jwts' = jwts \cup
       {[user |-> u, role |-> role[u], ver |-> version[u], exp |-> now + JwtTTL]}
  /\ UNCHANGED <<env, operator, cached, now, request>>

----------------------------------------------------------------------------
(* A request for action a with an identity: user u in role o.              *)
Identified(r, u, o, a) ==
  /\ pc[r] = "idle"
  /\ pc' = [pc EXCEPT ![r] = "check"]
  /\ who' = [who EXCEPT ![r] = u]
  /\ as' = [as EXCEPT ![r] = o]
  /\ want' = [want EXCEPT ![r] = a]
  /\ at' = [at EXCEPT ![r] = now]
  /\ UNCHANGED <<env, operator, cached, jwts, now, got, answer>>

(* Mutant: ignoreExpiration.                                               *)
UnexpiredIgnored(j) == j \in jwts

(* jwtService.verify, and passport-jwt with ignoreExpiration: false.       *)
Unexpired(j) == j \in jwts /\ now < j.exp

(* HttpAuthGuard, GqlAuthGuard: in NO_AUTH mode the admin user, who has no *)
(* row; otherwise JwtStrategy, which compares the version.                 *)
HttpNoAuth(r, a) == NoAuth /\ Identified(r, Null, Admin, a)

HttpJwt(r, j, a) ==
  /\ ~NoAuth
  /\ Unexpired(j)
  /\ j.ver = version[j.user]
  /\ Identified(r, j.user, j.role, a)

(* McpAuthService: NO_AUTH mode first; a JWT is verified and its version   *)
(* is not looked at; an OAuth token gives the role in the user's row.      *)
McpNoAuth(r, a) == NoAuth /\ Identified(r, Null, Admin, a)

McpJwt(r, j, a) == ~NoAuth /\ Unexpired(j) /\ Identified(r, j.user, j.role, a)

(* Mutant: the role of a user without a row.                               *)
McpOAuthUnchecked(r, u, a) == ~NoAuth /\ Identified(r, u, role[u], a)

McpOAuth(r, u, a) ==
  ~NoAuth /\ role[u] # Null /\ Identified(r, u, role[u], a)

(* The guard rejects; or an optional one lets the request pass without a   *)
(* user, and the permission guard behind it rejects.                       *)
Unauthorized(r) ==
  /\ pc[r] = "idle"
  /\ ~NoAuth
  /\ \E a \in {"unauthorized", "no_user"} : Answer(r, a)
  /\ UNCHANGED <<env, operator, cached, jwts, now, who, as, want, got, at>>

----------------------------------------------------------------------------
(* Mutant: the entry of a role has no TTL.                                 *)
CachedForever(o) == cached[o] # Null

(* rolePermissions: the entry of the role, while it lives.                 *)
Cached(o) == cached[o] # Null /\ now < cached[o].expiresAt

(* Mutant: a condition is taken for one that the type never meets.         *)
CanUnconditionally(ps, a) ==
  \E p \in ps : p.action = a /\ ~p.conditional

(* ability.can with a type for the subject: CASL asks no condition.        *)
Can(ps, a) == \E p \in ps : p.action = a

(* The guard, and checkSystemPermission of the MCP tools.                  *)
Decide(r, ps) ==
  Answer(r, IF Can(ps, want[r]) THEN "allowed" ELSE "forbidden")

CheckHits(r) ==
  /\ pc[r] = "check"
  /\ Cached(as[r])
  /\ Decide(r, cached[as[r]].perms)
  /\ UNCHANGED <<env, operator, cached, jwts, now, who, as, want, got,
                 at>>

(* createAbility's factory: permission.findMany, under the key's lock.     *)
CheckReads(r) ==
  /\ pc[r] = "check"
  /\ ~Cached(as[r])
  /\ \A q \in Requests : ~(pc[q] = "fill" /\ as[q] = as[r])
  /\ got' = [got EXCEPT ![r] = perms[as[r]]]
  /\ pc' = [pc EXCEPT ![r] = "fill"]
  /\ UNCHANGED <<env, operator, cached, jwts, now, who, as, want, answer, at>>

CheckFills(r) ==
  /\ pc[r] = "fill"
  /\ cached' = [cached EXCEPT ![as[r]] =
                  [perms |-> got[r], expiresAt |-> now + CacheTTL]]
  /\ Decide(r, got[r])
  /\ UNCHANGED <<env, operator, jwts, now, who, as, want, got, at>>

(* The statement rejects, and the request with it.                         *)
Fail(r) ==
  /\ pc[r] \in {"create", "check", "fill"}
  /\ Answer(r, "error")
  /\ UNCHANGED <<env, operator, cached, jwts, now, who, as, want, got, at>>

----------------------------------------------------------------------------
(* The operator's statements; none of them is in the code, and none        *)
(* invalidates the cache.                                                  *)
Changes == changes < MaxChanges /\ changes' = changes + 1

AssignRole(u, o) ==
  /\ role[u] \notin {Null, o}
  /\ Changes
  /\ role' = [role EXCEPT ![u] = o]
  /\ hadRole' = [hadRole EXCEPT ![u] =
                   [[@ EXCEPT ![role[u]] = now] EXCEPT ![o] = now]]
  /\ UNCHANGED <<env, version, perms, cached, jwts, now, request, held, lacked>>

Has(ps, a) == a \in {p.action : p \in ps}

Recorded ==
  /\ held' = [o \in Roles |-> [a \in Actions |->
       IF Has(perms[o], a) \/ Has(perms'[o], a) THEN now' ELSE held[o][a]]]
  /\ lacked' = [o \in Roles |-> [a \in Actions |->
       IF Has(perms[o], a) /\ Has(perms'[o], a) THEN lacked[o][a] ELSE now']]

Permit(o, p) ==
  /\ p \notin perms[o]
  /\ Changes
  /\ perms' = [perms EXCEPT ![o] = @ \cup {p}]
  /\ UNCHANGED <<env, role, version, cached, jwts, now, request, hadRole>>
  /\ Recorded

Forbid(o, p) ==
  /\ p \in perms[o]
  /\ Changes
  /\ perms' = [perms EXCEPT ![o] = @ \ {p}]
  /\ UNCHANGED <<env, role, version, cached, jwts, now, request, hadRole>>
  /\ Recorded

(* invalidateAllAuthCaches, invalidateDictionaries: both tags are those of *)
(* every role.  Nothing calls them.                                        *)
InvalidateRoles ==
  /\ \E o \in Roles : cached[o] # Null
  /\ Changes
  /\ cached' = [o \in Roles |-> Null]
  /\ UNCHANGED <<env, tables, history, jwts, now, request>>

IncrementVersion(u) ==
  /\ role[u] # Null
  /\ Changes
  /\ version' = [version EXCEPT ![u] = @ + 1]
  /\ UNCHANGED <<env, role, perms, cached, jwts, now, request, history>>

(* A tick is long beside a statement: no factory runs over it.             *)
Tick ==
  /\ now < MaxTime
  /\ \A r \in Requests : pc[r] # "fill"
  /\ now' = now + 1
  /\ hadRole' = [u \in Users |->
       [o \in Roles |-> IF role[u] = o THEN now' ELSE hadRole[u][o]]]
  /\ UNCHANGED <<env, tables, changes, cached, jwts, request>>
  /\ Recorded

Finished ==
  /\ \A r \in Requests : pc[r] = "done"
  /\ now = MaxTime
  /\ UNCHANGED vars

Arrives(r) ==
  \/ Unauthorized(r)
  \/ \E a \in Actions :
       \/ HttpNoAuth(r, a)
       \/ McpNoAuth(r, a)
       \/ \E j \in jwts : HttpJwt(r, j, a) \/ McpJwt(r, j, a)
       \/ \E u \in Users : McpOAuth(r, u, a)

Next ==
  \/ \E r \in Requests :
       \/ \E u \in Users : SignUpReads(r, u)
       \/ SignUpCreates(r)
       \/ SignUpCollides(r)
       \/ Arrives(r)
       \/ CheckHits(r)
       \/ CheckReads(r)
       \/ CheckFills(r)
       \/ Fail(r)
  \/ \E u \in Users :
       \/ SignIn(u)
       \/ \E o \in Roles : AssignRole(u, o)
       \/ IncrementVersion(u)
  \/ \E o \in Roles, p \in Permission : Permit(o, p) \/ Forbid(o, p)
  \/ InvalidateRoles
  \/ Tick
  \/ Finished

Spec == Init /\ [][Next]_vars

----------------------------------------------------------------------------
AccessTypeOK ==
  /\ env \in [production : BOOLEAN, requested : BOOLEAN]
  /\ role \in [Users -> Roles \cup {Null}]
  /\ version \in [Users -> Nat]
  /\ perms \in [Roles -> SUBSET Permission]
  /\ cached \in [Roles -> CacheEntry \cup {Null}]
  /\ jwts \subseteq JWT
  /\ now \in Nat /\ changes \in Nat
  /\ pc \in [Requests -> {"idle", "create", "check", "fill", "done"}]
  /\ who \in [Requests -> Users \cup {Null}]
  /\ as \in [Requests -> Roles \cup {Null}]
  /\ want \in [Requests -> Actions \cup {Null}]
  /\ got \in [Requests -> SUBSET Permission]
  /\ answer \in [Requests -> {"none", "created", "conflict", "error",
                             "unauthorized", "no_user", "allowed", "forbidden"}]
  /\ at \in [Requests -> Nat \cup {Never}]
  /\ hadRole \in [Users -> [Roles -> Nat \cup {Never}]]
  /\ {held, lacked} \subseteq [Roles -> [Actions -> Nat \cup {Never}]]
  /\ \A r \in Requests : pc[r] = "check" => as[r] # Null

(* However sign-ups for one email interleave, one of them creates the user.*)
OneSignUp ==
  \A q, r \in Requests :
    answer[q] = "created" /\ answer[r] = "created" /\ who[q] = who[r] => q = r

(* What is allowed was permitted to the role at most CacheTTL before the   *)
(* request came: the cache never outlives its TTL, whatever the operator   *)
(* changes under it, and no entry is older than its factory's read.        *)
PermissionLag ==
  \A r \in Requests :
    answer[r] = "allowed" => held[as[r]][want[r]] >= at[r] - CacheTTL

(* And what is forbidden the role had lacked at most CacheTTL before: a    *)
(* permission with a condition counts, as the check names only a type, and *)
(* a new one is seen once the entry's TTL has passed.                      *)
GrantLag ==
  \A r \in Requests :
    answer[r] = "forbidden" => lacked[as[r]][want[r]] >= at[r] - CacheTTL

(* A request acts in a role its user had less than JwtTTL before it came:  *)
(* by a JWT, of which the role is read, or an OAuth token.                 *)
RoleLag ==
  \A r \in Requests :
    answer[r] = "allowed" /\ who[r] # Null =>
      hadRole[who[r]][as[r]] > at[r] - JwtTTL

(* "NO_AUTH cannot be enabled in production": nobody is allowed anything   *)
(* without credentials there.                                              *)
ProductionNeedsIdentity ==
  env.production =>
    \A r \in Requests : answer[r] = "allowed" => who[r] # Null
=============================================================================
