---------------------------- MODULE RefreshTokens ----------------------------
(***************************************************************************)
(* The RefreshToken table and the requests that work on it concurrently:   *)
(* login, refresh (rotateToken and handleRevokedToken), logout             *)
(* (revokeFamilyByRawToken) and revokeAllUserTokens of                     *)
(* src/features/auth/services/refresh-token.service.ts.                    *)
(*                                                                         *)
(* Every database statement is atomic; between two of them a request       *)
(* awaits, and any other request, of this process or of another replica,   *)
(* may run.  One action is the code from one await to the next: the checks *)
(* on what was read before the await, made now, and the statement that     *)
(* follows them.  No transaction spans two statements.                     *)
(***************************************************************************)
EXTENDS Integers, FiniteSets

CONSTANTS
  Requests,  \* requests to the service; each is made once
  Tokens,    \* raw tokens, one-to-one with their sha256 hashes
  Families,  \* family ids (nanoid)
  Users,
  Null,      \* SQL NULL, and the absence of a row
  TTL,       \* refreshTtlMs, in ticks
  Grace,     \* gracePeriodMs, in ticks
  Lag,       \* how far a time that the code has read may lie back, see Clock
  MaxTime    \* bound of the model: the clock stops here

ASSUME BoundsAssumption ==
  /\ TTL \in Nat
  /\ Grace \in Nat
  /\ Lag \in Nat
  /\ MaxTime \in Nat

Row == [user : Users, family : Families,
        createdAt : Nat, expiresAt : Nat, revokedAt : Nat \cup {Null}]

ASSUME NullAssumption ==
  /\ Null \notin Nat
  /\ Null \notin Tokens
  /\ Null \notin Row

VARIABLES
  table,      \* table[t]: the row of token t, or Null
  now,        \* the time
  pc,         \* pc[r]: where request r awaits
  stored,     \* stored[r]: the row storedToken, by token
  seen,       \* seen[r]: storedToken.revokedAt as it was when it was read
  latest,     \* latest[r]: the row latestToken, by token
  answer,     \* answer[r]: how request r was answered
  contended   \* history: the requests that read a row of f while another of
              \* the family was under way

vars == <<table, now, pc, stored, seen, latest, answer, contended>>

Waits == {"lookedUp", "create", "revokeLatest", "createLatest",
          "revokeFamily", "logout"}
Answers == {"none", "loggedIn", "served", "invalid", "expired", "reuse",
            "loggedOut", "revokedAll", "failed"}

----------------------------------------------------------------------------
(* The times that Date.now() and new Date() may have returned to the code  *)
(* whose statement is committed now: the statement was under way for a     *)
(* while, and the clocks of two replicas differ.  Lag bounds both at once; *)
(* now is the time of the clock that is ahead.                             *)
Clock == {d \in 0..now : now - d <= Lag}

(* Rows are never deleted and only revokedAt is ever updated, so a request *)
(* that holds a copy of a row holds its token and the revokedAt it read.   *)

Issued == {t \in Tokens : table[t] # Null}
Members(f) == {t \in Issued : table[t].family = f}
Live(f) == {t \in Members(f) : table[t].revokedAt = Null}

(* The requests in flight that have read a row of family f.                *)
Busy(f) == {r \in Requests : pc[r] \in Waits /\ table[stored[r]].family = f}

(* Mutant: findFirst without revokedAt: null in its where.                 *)
LatestOfAll(f) ==
  {t \in Members(f) :
     \A u \in Members(f) : table[u].createdAt <= table[t].createdAt}

(* findFirst by createdAt desc: rows of the same millisecond are tied and  *)
(* the database may return any of them.  Expiry is not part of the query.  *)
LatestLive(f) ==
  {t \in Live(f) : \A u \in Live(f) : table[u].createdAt <= table[t].createdAt}

Revoked(S, d) ==
  [t \in Tokens |-> IF t \in S THEN [table[t] EXCEPT !.revokedAt = d]
                               ELSE table[t]]

(* An update that sets revokedAt: new Date().                              *)
Revokes(S) == \E d \in Clock : table' = Revoked(S, d)

(* createToken: a fresh random token, for the user and the family given.   *)
CreateToken(t, u, f) ==
  /\ table[t] = Null
  /\ \E d \in Clock :
       table' = [table EXCEPT ![t] =
                   [user |-> u, family |-> f, createdAt |-> d,
                    expiresAt |-> d + TTL, revokedAt |-> Null]]

Answer(r, a) ==
  /\ answer' = [answer EXCEPT ![r] = a]
  /\ pc' = [pc EXCEPT ![r] = "done"]

Await(r, w) ==
  /\ pc' = [pc EXCEPT ![r] = w]
  /\ UNCHANGED answer

(* The requests that will create a token in family f unless they are       *)
(* rejected or fail: they read a live token, and it may be revoked since.  *)
Pending(f) ==
  {r \in Busy(f) : \/ pc[r] = "lookedUp" /\ seen[r] = Null
                   \/ pc[r] \in {"create", "revokeLatest", "createLatest"}}

(* Those of them that have revoked a token and create its successor next.  *)
Creating(f) == {r \in Busy(f) : pc[r] \in {"create", "createLatest"}}

(* findUnique by tokenHash, the first statement of a refresh and a logout. *)
Read(r, t) ==
  /\ pc[r] = "idle"
  /\ t \in Issued
  /\ stored' = [stored EXCEPT ![r] = t]
  /\ seen' = [seen EXCEPT ![r] = table[t].revokedAt]
  /\ contended' = [contended EXCEPT ![table[t].family] =
         @ \cup (IF Busy(table[t].family) = {} THEN {} ELSE {r})]
  /\ UNCHANGED <<table, now, latest>>

----------------------------------------------------------------------------
Init ==
  /\ table = [t \in Tokens |-> Null]
  /\ now = 0
  /\ pc = [r \in Requests |-> "idle"]
  /\ stored = [r \in Requests |-> Null]
  /\ seen = [r \in Requests |-> Null]
  /\ latest = [r \in Requests |-> Null]
  /\ answer = [r \in Requests |-> "none"]
  /\ contended = [f \in Families |-> {}]

(* login: the credentials were good; createToken without a family id draws *)
(* a fresh one.                                                            *)
Login(r, u, f, t) ==
  /\ pc[r] = "idle"
  /\ Members(f) = {}
  /\ CreateToken(t, u, f)
  /\ Answer(r, "loggedIn")
  /\ UNCHANGED <<now, stored, seen, latest, contended>>

(* Mutant: no throw when the token has no row.                             *)
RotateUnknownUnchecked(r) ==
  /\ pc[r] = "idle"
  /\ Await(r, "lookedUp")
  /\ UNCHANGED <<table, now, stored, seen, latest, contended>>

(* rotateToken, first statement: the token has no row.                     *)
RotateUnknown(r) ==
  /\ pc[r] = "idle"
  /\ Answer(r, "invalid")
  /\ UNCHANGED <<table, now, stored, seen, latest, contended>>

(* rotateToken, first statement: the row is read.                          *)
RotateLookup(r, t) ==
  /\ Read(r, t)
  /\ Await(r, "lookedUp")

(* rotateToken: not revoked when read, and expired by now.                 *)
RejectExpired(r) ==
  /\ pc[r] = "lookedUp"
  /\ seen[r] = Null
  /\ \E d \in Clock : table[stored[r]].expiresAt < d
  /\ Answer(r, "expired")
  /\ UNCHANGED <<table, now, stored, seen, latest, contended>>

(* rotateToken: the update by id has no condition on revokedAt.            *)
RevokePresented(r) ==
  /\ pc[r] = "lookedUp"
  /\ seen[r] = Null
  /\ \E d \in Clock : /\ table[stored[r]].expiresAt >= d
                       /\ table' = Revoked({stored[r]}, d)
  /\ Await(r, "create")
  /\ UNCHANGED <<now, stored, seen, latest, contended>>

(* Mutant: createToken without the family id draws a fresh one.            *)
CreateInFreshFamily(r, t) ==
  /\ pc[r] = "create"
  /\ \E f \in Families : Members(f) = {} /\ CreateToken(t, table[stored[r]].user, f)
  /\ Answer(r, "served")
  /\ UNCHANGED <<now, stored, seen, latest, contended>>

(* rotateToken: createToken for the user and the family of the row read.   *)
CreateSuccessor(r, t) ==
  /\ pc[r] = "create"
  /\ CreateToken(t, table[stored[r]].user, table[stored[r]].family)
  /\ Answer(r, "served")
  /\ UNCHANGED <<now, stored, seen, latest, contended>>

(* Mutant: < for <=.                                                       *)
WithinGraceStrictly(r, d) == d - seen[r] < Grace

WithinGrace(r, d) == d - seen[r] <= Grace

(* handleRevokedToken within the grace period: findFirst returns a row.    *)
FindLatest(r, t) ==
  /\ pc[r] = "lookedUp"
  /\ seen[r] # Null
  /\ \E d \in Clock : WithinGrace(r, d)
  /\ t \in LatestLive(table[stored[r]].family)
  /\ latest' = [latest EXCEPT ![r] = t]
  /\ Await(r, "revokeLatest")
  /\ UNCHANGED <<table, now, stored, seen, contended>>

(* handleRevokedToken within the grace period: findFirst returns null.     *)
FindNoLatest(r) ==
  /\ pc[r] = "lookedUp"
  /\ seen[r] # Null
  /\ \E d \in Clock : WithinGrace(r, d)
  /\ LatestLive(table[stored[r]].family) = {}
  /\ Await(r, "revokeFamily")
  /\ UNCHANGED <<table, now, stored, seen, latest, contended>>

(* Mutant: the latest token is left live.                                  *)
KeepLatest(r) ==
  /\ pc[r] = "revokeLatest"
  /\ Await(r, "createLatest")
  /\ UNCHANGED <<table, now, stored, seen, latest, contended>>

(* handleRevokedToken: again an update by id without a condition.          *)
RevokeLatest(r) ==
  /\ pc[r] = "revokeLatest"
  /\ Revokes({latest[r]})
  /\ Await(r, "createLatest")
  /\ UNCHANGED <<now, stored, seen, latest, contended>>

CreateFromLatest(r, t) ==
  /\ pc[r] = "createLatest"
  /\ CreateToken(t, table[latest[r]].user, table[latest[r]].family)
  /\ Answer(r, "served")
  /\ UNCHANGED <<now, stored, seen, latest, contended>>

(* Mutants: an else after the grace period's if; no revokeFamily.          *)
DetectReuseLateOnly(r) ==
  /\ pc[r] = "lookedUp" /\ seen[r] # Null
  /\ \E d \in Clock : /\ ~WithinGrace(r, d)
                       /\ table' = Revoked(Live(table[stored[r]].family), d)
  /\ Answer(r, "reuse")
  /\ UNCHANGED <<now, stored, seen, latest, contended>>

DetectReuseOnly(r) ==
  /\ \/ pc[r] = "lookedUp" /\ seen[r] # Null /\ \E d \in Clock : ~WithinGrace(r, d)
     \/ pc[r] = "revokeFamily"
  /\ Answer(r, "reuse")
  /\ UNCHANGED <<table, now, stored, seen, latest, contended>>

(* handleRevokedToken: revokeFamily, then "Refresh token reuse detected",  *)
(* outside the grace period or when findFirst returned null.               *)
DetectReuse(r) ==
  /\ \E d \in Clock :
       /\ \/ pc[r] = "lookedUp" /\ seen[r] # Null /\ ~WithinGrace(r, d)
          \/ pc[r] = "revokeFamily"
       /\ table' = Revoked(Live(table[stored[r]].family), d)
  /\ Answer(r, "reuse")
  /\ UNCHANGED <<now, stored, seen, latest, contended>>

(* revokeFamilyByRawToken: findUnique, then revokeFamily.                  *)
LogoutUnknown(r) ==
  /\ pc[r] = "idle"
  /\ Answer(r, "loggedOut")
  /\ UNCHANGED <<table, now, stored, seen, latest, contended>>

LogoutLookup(r, t) ==
  /\ Read(r, t)
  /\ Await(r, "logout")

(* Mutants: the logout revokes the token presented, not its family; its    *)
(* updateMany has no revokedAt: null in its where.                         *)
LogoutRevokeOne(r) ==
  /\ pc[r] = "logout"
  /\ Revokes({stored[r]})
  /\ Answer(r, "loggedOut")
  /\ UNCHANGED <<now, stored, seen, latest, contended>>

LogoutRevokeAgain(r) ==
  /\ pc[r] = "logout"
  /\ Revokes(Members(table[stored[r]].family))
  /\ Answer(r, "loggedOut")
  /\ UNCHANGED <<now, stored, seen, latest, contended>>

LogoutRevoke(r) ==
  /\ pc[r] = "logout"
  /\ Revokes(Live(table[stored[r]].family))
  /\ Answer(r, "loggedOut")
  /\ UNCHANGED <<now, stored, seen, latest, contended>>

(* revokeAllUserTokens: one updateMany over all the families of a user.    *)
RevokeAllUserTokens(r, u) ==
  /\ pc[r] = "idle"
  /\ Revokes({t \in Issued : table[t].user = u /\ table[t].revokedAt = Null})
  /\ Answer(r, "revokedAll")
  /\ UNCHANGED <<now, stored, seen, latest, contended>>

(* An awaited statement rejects, or the process stops, and the request     *)
(* ends with an error.  What it has already written stays.                 *)
Fail(r) ==
  /\ pc[r] \in Waits
  /\ Answer(r, "failed")
  /\ UNCHANGED <<table, now, stored, seen, latest, contended>>

Tick ==
  /\ now < MaxTime
  /\ now' = now + 1
  /\ UNCHANGED <<table, pc, stored, seen, latest, answer, contended>>

(* The end of a bounded behaviour, so that any other halt is a deadlock.   *)
Finished ==
  /\ now = MaxTime
  /\ \A r \in Requests : pc[r] = "done"
  /\ UNCHANGED vars

Start(r) ==
  \/ \E u \in Users, f \in Families, t \in Tokens : Login(r, u, f, t)
  \/ RotateUnknown(r)
  \/ \E t \in Tokens : RotateLookup(r, t)
  \/ LogoutUnknown(r)
  \/ \E t \in Tokens : LogoutLookup(r, t)
  \/ \E u \in Users : RevokeAllUserTokens(r, u)

Continue(r) ==
  \/ RejectExpired(r)
  \/ RevokePresented(r)
  \/ \E t \in Tokens : CreateSuccessor(r, t)
  \/ \E t \in Tokens : FindLatest(r, t)
  \/ FindNoLatest(r)
  \/ RevokeLatest(r)
  \/ \E t \in Tokens : CreateFromLatest(r, t)
  \/ DetectReuse(r)
  \/ LogoutRevoke(r)

Next ==
  \/ \E r \in Requests : Start(r) \/ Continue(r) \/ Fail(r)
  \/ Tick
  \/ Finished

Spec == Init /\ [][Next]_vars

(* Every statement a request awaits is executed, unless it fails: the      *)
(* event loop resumes the request, and nothing it does waits for another.  *)
FairSpec == Spec /\ \A r \in Requests : WF_vars(Continue(r))

----------------------------------------------------------------------------
TypeOK ==
  /\ table \in [Tokens -> Row \cup {Null}]
  /\ now \in Nat
  /\ pc \in [Requests -> Waits \cup {"idle", "done"}]
  /\ stored \in [Requests -> Tokens \cup {Null}]
  /\ seen \in [Requests -> Nat \cup {Null}]
  /\ latest \in [Requests -> Tokens \cup {Null}]
  /\ answer \in [Requests -> Answers]
  /\ contended \in [Families -> SUBSET Requests]
  /\ \A r \in Requests :
       /\ stored[r] \in Issued \cup {Null}
       /\ latest[r] \in Issued \cup {Null}
       /\ pc[r] = "idle" => stored[r] = Null
       /\ pc[r] \in Waits => stored[r] # Null
       /\ pc[r] \in {"revokeLatest", "createLatest"} => latest[r] # Null
       /\ pc[r] = "done" <=> answer[r] # "none"

(* As long as no two requests overlap on a family, whatever fails between  *)
(* their statements, the family has at most one token that is not revoked. *)
(* Rotation revokes before it creates; this is what that order is for.     *)
OneLiveToken ==
  \A f \in Families : contended[f] = {} =>
    \A t, u \in Live(f) : t = u

(* And where they overlap: the live tokens of a family beyond the first    *)
(* are no more than the refreshes that were served and had begun while     *)
(* another request of the family was under way.                            *)
Overlapping(f) == {r \in contended[f] : answer[r] = "served"}

LiveTokensExplained ==
  \A f \in Families : Cardinality(Live(f)) <= 1 + Cardinality(Overlapping(f))

(* A family for which a logout, or a detected reuse, has been answered has *)
(* no live token, unless another request overlapped on it.                 *)
EndedFamily ==
  \A r \in Requests :
    /\ answer[r] \in {"loggedOut", "reuse"}
    /\ stored[r] # Null
    /\ contended[table[stored[r]].family] = {}
    => Live(table[stored[r]].family) = {}

(* The inductive invariant behind OneLiveToken and EndedFamily.  A request *)
(* that is alone on its family knows which token, at most, is live: the    *)
(* one it is about to revoke, and none once it has revoked it; and nobody  *)
(* is about to create a token in a family that has been ended.             *)
Alone ==
  \A f \in Families : contended[f] = {} => \A q, r \in Busy(f) : q = r

SameFamily ==
  \A r \in Requests :
    pc[r] \in {"revokeLatest", "createLatest"}
    => table[latest[r]].family = table[stored[r]].family

LiveKnown(f, r) ==
  /\ pc[r] = "lookedUp" /\ seen[r] = Null => Live(f) \subseteq {stored[r]}
  /\ pc[r] = "revokeLatest" => Live(f) \subseteq {latest[r]}
  /\ pc[r] \in {"create", "createLatest"} => Live(f) = {}

Exclusive ==
  \A f \in Families : contended[f] = {} => \A r \in Busy(f) : LiveKnown(f, r)

EndedForGood ==
  \A r \in Requests :
    /\ answer[r] \in {"loggedOut", "reuse"}
    /\ stored[r] # Null
    /\ contended[table[stored[r]].family] = {}
    => /\ Live(table[stored[r]].family) = {}
       /\ Pending(table[stored[r]].family) = {}

SerialInv ==
  TypeOK /\ OneLiveToken /\ Alone /\ SameFamily /\ Exclusive /\ EndedForGood

(* No step makes a revoked token live again, whatever overlaps.  And the   *)
(* date of a revocation, from which the grace period counts, stays as it   *)
(* is although no update by id asks for revokedAt: null: it moves only     *)
(* where requests of the family overlapped, or after revokeAllUserTokens,  *)
(* and then back by no more than the clocks and the statements lag.        *)
RevocationIsFinal ==
  [][\A t \in Issued : table[t].revokedAt # Null =>
       /\ table'[t].revokedAt # Null
       /\ table'[t].revokedAt # table[t].revokedAt =>
            /\ \/ contended[table[t].family] # {}
               \/ \E q \in Requests : answer[q] = "revokedAll"
            /\ table'[t].revokedAt >= table[t].revokedAt - Lag]_vars

Phase(f) ==
  IF Members(f) = {} THEN "unborn"
  ELSE IF Live(f) # {} \/ Pending(f) # {} THEN "active"
  ELSE "ended"

(* Refinement: the table and the requests in flight implement sessions     *)
(* that belong to one user and that never come back once they have ended:  *)
(* a rotation, a grace-period refresh or a crash revives no family.        *)
Sessions == INSTANCE SessionFamilies WITH
  phase <- [f \in Families |-> Phase(f)],
  owners <- [f \in Families |-> {table[t].user : t \in Members(f)}]

SessionsImplemented == Sessions!Spec

(* "T1 reused: reuse detected, entire family revoked": a refresh that read *)
(* a token revoked longer ago than the grace period, by any clock, is      *)
(* answered by nothing but a failure or the rejection, and no token of the *)
(* family is live when it is.  A rotation of the family that is under way  *)
(* then may add one: see OnlyPendingRevives.                               *)
StaleReplay(r) ==
  pc[r] = "lookedUp" /\ seen[r] # Null /\ now - Lag - seen[r] > Grace

StaleReplayIsReuse ==
  [][\A r \in Requests : StaleReplay(r) =>
       \/ StaleReplay(r)'
       \/ answer'[r] = "failed"
       \/ answer'[r] = "reuse" /\ Live(table[stored[r]].family)' = {}]_vars

(* After the answer of q anything but a rotation may have revoked a token  *)
(* of family f: q ended f, or all sessions of some user, or failed in f.   *)
MayHaveEnded(q, f) ==
  \/ answer[q] = "revokedAll"
  \/ /\ answer[q] \in {"reuse", "loggedOut", "failed"}
     /\ stored[q] # Null
     /\ table[stored[q]].family = f

(* The request rejected as reuse is the first such one of its family.      *)
FirstRejection(r) ==
  /\ answer[r] = "reuse"
  /\ \A q \in Requests \ {r} : ~MayHaveEnded(q, table[stored[r]].family)

(* The grace period serves a stale tab: a refresh with a token that was    *)
(* rotated at most Grace ago is not taken for reuse, if no refresh of the  *)
(* family overlapped with another, and nobody logged out of it.            *)
GraceServesStaleTab ==
  \A r \in Requests :
    FirstRejection(r) /\ contended[table[stored[r]].family] = {}
    => now - seen[r] > Grace

(* What the grace period does not cover, however requests overlap: a       *)
(* refresh finds no live token only between the two statements of another  *)
(* rotation of its family, or after the family may have been ended.        *)
GraceFailsInWindow ==
  [][\A r \in Requests : pc[r] = "lookedUp" /\ pc'[r] = "revokeFamily" =>
       LET f == table[stored[r]].family
       IN \/ Creating(f) # {}
          \/ \E q \in Requests : MayHaveEnded(q, f)]_vars

(* An ended session can be revived only by who was under way: while no     *)
(* token of a family is live, no request comes to be about to create one   *)
(* that was not already, and a token becomes live only by such a request.  *)
OnlyPendingRevives ==
  [][\A f \in Families : Members(f) # {} /\ Live(f) = {} =>
       /\ Pending(f)' \subseteq Pending(f)
       /\ Live(f)' # {} => \E r \in Pending(f) : answer'[r] = "served"]_vars

(* Every request that reaches the service is answered: no branch of the    *)
(* rotation leaves a request without a next step.                          *)
Answered == \A r \in Requests : pc[r] \in Waits ~> answer[r] # "none"

----------------------------------------------------------------------------
(* What the documentation says and the interleavings refute.               *)

(* "Two tabs refresh simultaneously: grace period handles backend race     *)
(* condition": GraceServesStaleTab without its exemption for overlaps.     *)
GraceCoversRaces ==
  \A r \in Requests : FirstRejection(r) => now - seen[r] > Grace

(* "Reuse detected, entire family revoked, user must re-login": after the   *)
(* replay of a token revoked longer ago than the grace period has been     *)
(* rejected as reuse, no token of its family is ever live again.           *)
ReplayEndsSession ==
  \A r \in Requests :
    [](StaleReplay(r) =>
         [](answer[r] = "reuse" => Live(table[stored[r]].family) = {}))
=============================================================================
