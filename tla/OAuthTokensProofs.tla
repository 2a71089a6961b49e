-------------------------- MODULE OAuthTokensProofs --------------------------
(***************************************************************************)
(* Theorems about OAuthTokens, for every set of requests, clients, users,  *)
(* codes and tokens, for every lifetime, and whether or not a guard sets   *)
(* req.user.                                                               *)
(***************************************************************************)
EXTENDS OAuthTokens, TLAPS

(* The refusals: a step of one request that ends it and changes nothing    *)
(* that another request can see.                                           *)
Refusals == {"not_whitelisted", "redirected", "no_bearer", "no_user", "refused",
             "pkce_failed", "invalid_token", "ignored", "failed"}

Refuses(r) ==
  /\ pc[r] # "done"
  /\ \E a \in Refusals : Answer(r, a)
  /\ UNCHANGED <<tables, now, locals, before>>

(* VerifyPkce with the verifier of the challenge.                          *)
Verified(r) ==
  /\ pc[r] = "verify"
  /\ proof[r] = codes[token[r]].challenge
  /\ Await(r, "createAccess")
  /\ UNCHANGED <<tables, now, locals, before>>

(* What one step of request r can be; the queries, clients and tokens that *)
(* lead to a refusal no longer matter.                                     *)
StepOf(r) ==
  \/ Refuses(r)
  \/ Verified(r)
  \/ \E c \in Clients, k \in Codes, x \in Uris, v \in Verifiers \cup {Null} :
       ConsumeCode(r, c, k, x, v)
  \/ \E c \in Clients, t \in RTokens :
       RefreshReads(r, c, t) \/ RevokeRefreshReads(r, c, t)
  \/ SpendRefresh(r)
  \/ \E a \in ATokens : CreateAccess(r, a)
  \/ \E t \in RTokens : CreateRefresh(r, t)
  \/ RevokeRefresh(r)
  \/ Cascade(r)
  \/ \E c \in Clients, a \in ATokens : RevokeAccessReads(r, c, a)
  \/ RevokeAccess(r)
  \/ \E a \in ATokens : Validate(r, a)

LEMMA StepKinds ==
  ASSUME Next
  PROVE  \/ \E c \in Clients : Register(c)
         \/ \E k \in Codes, c \in Clients, u \in Users, s \in Scopes, x \in Uris,
               v \in Verifiers : Authorize(k, c, u, s, x, v)
         \/ \E r \in Requests : StepOf(r)
         \/ Tick
         \/ UNCHANGED vars
<1>1. ASSUME NEW r \in Requests, NEW query, AuthorizeGet(r, query)
      PROVE  Refuses(r)
  BY <1>1 DEF AuthorizeGet, Refuses, Refusals
<1>2. ASSUME NEW r \in Requests, AuthorizeRefused(r) PROVE Refuses(r)
  <2>1. PICK a \in {"no_bearer", "no_user"} : Answer(r, a)
    BY <1>2 DEF AuthorizeRefused
  <2> QED
    BY <1>2, <2>1 DEF AuthorizeRefused, Refuses, Refusals
<1>3. ASSUME NEW r \in Requests, Refuse(r) PROVE Refuses(r)
  BY <1>3 DEF Refuse, Refuses, Refusals
<1>4. ASSUME NEW r \in Requests, TokenCall(r) PROVE StepOf(r)
  <2>1. VerifyPkce(r) => Refuses(r) \/ Verified(r)
    BY DEF VerifyPkce, Refuses, Refusals, Verified
  <2>2. RefreshRefused(r) => Refuses(r)
    BY DEF RefreshRefused, Refuses, Refusals
  <2>3. BadSecret(r) \/ RefreshUnknown(r) => Refuses(r)
    BY <1>3 DEF BadSecret, RefreshUnknown
  <2>4. \A c \in Clients, k \in Codes, x \in Uris :
          CodeRefused(r, c, k, x) => Refuses(r)
    BY <1>3 DEF CodeRefused
  <2> QED
    BY <1>4, <2>1, <2>2, <2>3, <2>4 DEF TokenCall, StepOf
<1>5. ASSUME NEW r \in Requests, RevokeCall(r) PROVE StepOf(r)
  <2>1. RevokeIgnored(r) => Refuses(r)
    BY DEF RevokeIgnored, Refuses, Refusals
  <2> QED
    BY <1>5, <2>1 DEF RevokeCall, StepOf
<1>6. ASSUME NEW r \in Requests, NEW a \in ATokens,
             Validate(r, a) \/ ValidateRefused(r, a)
      PROVE  StepOf(r)
  BY <1>3, <1>6 DEF ValidateRefused, StepOf
<1>7. ASSUME NEW r \in Requests, Fail(r) PROVE Refuses(r)
  BY <1>7 DEF Fail, Refuses, Refusals
<1> QED
  BY <1>1, <1>2, <1>4, <1>5, <1>6, <1>7 DEF Next, StepOf, Finished

----------------------------------------------------------------------------
(* What a request holds: the row of what it presented, of the kind that    *)
(* its next statement works on; and the requests before it are answered.   *)
Presents(r) ==
  /\ pc[r] = "idle" => token[r] = Null /\ made[r] = Null
  /\ token[r] \in Codes => codes[token[r]] # Null /\ codes[token[r]].client = client[r]
  /\ token[r] \in ATokens => access[token[r]] # Null
  /\ token[r] \in RTokens => refresh[token[r]] # Null
  /\ pc[r] = "verify" => token[r] \in Codes
  /\ pc[r] \in {"createAccess", "createRefresh"} => token[r] \in Codes \cup RTokens
  /\ pc[r] \in {"checkRefresh", "revokeRefresh", "cascade"} => token[r] \in RTokens
  /\ pc[r] = "revokeAccess" => token[r] \in ATokens
  /\ \A q \in before[r] : pc[q] = "done"

Presented == \A r \in Requests : Presents(r)

TypeInv == OAuthTypeOK /\ Presented

LEMMA RowTypes ==
  ASSUME TypeInv
  PROVE  /\ \A k \in Codes : codes[k] # Null => codes[k] \in Code
         /\ \A a \in ATokens : access[a] # Null => access[a] \in Token
         /\ \A t \in RTokens : refresh[t] # Null => refresh[t] \in Token
  BY DEF TypeInv, OAuthTypeOK

(* A revocation of access tokens deletes no row.                           *)
LEMMA RevokingTypes ==
  ASSUME TypeInv, NEW r \in Requests, Answer(r, "revoked"), pc[r] # "idle",
         UNCHANGED <<registered, codes, refresh, now, locals, before>>,
         access' \in [ATokens -> Token \cup {Null}],
         \A a \in ATokens : (access'[a] = Null) <=> (access[a] = Null)
  PROVE  TypeInv'
<1>1. UNCHANGED <<client, token, proof, seen, made>>
  BY DEF locals
<1>2. /\ pc' \in [Requests -> {"idle", "verify", "checkRefresh", "createAccess",
                   "createRefresh", "revokeRefresh", "cascade", "revokeAccess", "done"}]
      /\ \A q \in Requests : pc'[q] = IF q = r THEN "done" ELSE pc[q]
  BY DEF Answer, TypeInv, OAuthTypeOK
<1>3. /\ answer' \in [Requests ->
           {"none", "not_whitelisted", "redirected", "no_bearer", "no_user", "refused",
            "pkce_failed", "invalid_token", "served", "revoked", "ignored", "accepted",
            "failed"}]
      /\ \A q \in Requests : answer'[q] = IF q = r THEN "revoked" ELSE answer[q]
  BY DEF Answer, TypeInv, OAuthTypeOK
<1>4. ASSUME NEW q \in Requests
      PROVE  (answer'[q] = "none" <=> pc'[q] # "done")
             /\ (made'[q] # Null => HasRow(access, made[q])')
  BY <1>1, <1>2, <1>3 DEF TypeInv, OAuthTypeOK, HasRow
<1>5. OAuthTypeOK'
  BY <1>1, <1>2, <1>3, <1>4 DEF TypeInv, OAuthTypeOK
<1>6. ASSUME NEW q \in Requests PROVE Presents(q)'
  <2>1. Presents(q) /\ before[q] \in SUBSET Requests
    BY DEF TypeInv, Presented, OAuthTypeOK
  <2> QED
    BY <1>1, <1>2, <2>1 DEF Presents
<1> QED
  BY <1>5, <1>6 DEF TypeInv, Presented

LEMMA GrantType ==
  ASSUME TypeInv, NEW r \in Requests, pc[r] \in {"createAccess", "createRefresh"}
  PROVE  /\ Grant(r).client \in Clients
         /\ Grant(r).user \in Users
         /\ Grant(r).scope \in Scopes
<1>1. token[r] \in Codes \cup RTokens
  BY DEF TypeInv, Presented, Presents
<1>2. CASE token[r] \in Codes
  <2>1. codes[token[r]] \in Code
    BY <1>2, RowTypes DEF TypeInv, Presented, Presents
  <2> QED
    BY <1>2, <2>1 DEF Grant, Code
<1>3. CASE token[r] \in RTokens
  <2>1. refresh[token[r]] \in Token /\ token[r] \notin Codes
    BY <1>3, RowTypes, OAuthPrefixes DEF TypeInv, Presented, Presents
  <2> QED
    BY <2>1 DEF Grant, Token
<1> QED
  BY <1>1, <1>2, <1>3

LEMMA NewTokenType ==
  ASSUME TypeInv, NEW r \in Requests, pc[r] \in {"createAccess", "createRefresh"}
  PROVE  /\ NewToken(Grant(r), AccessLife(Grant(r).scope)) \in Token
         /\ NewToken(Grant(r), RefreshLife(Grant(r).scope)) \in Token
<1> DEFINE g == Grant(r)
<1>1. g.client \in Clients /\ g.user \in Users /\ g.scope \in Scopes
  BY GrantType
<1>2. now \in Nat
  BY DEF TypeInv, OAuthTypeOK
<1> HIDE DEF g
<1>3. AccessLife(g.scope) \in Nat /\ RefreshLife(g.scope) \in Nat
  BY OAuthBounds DEF AccessLife, RefreshLife
<1>4. ASSUME NEW life \in Nat PROVE NewToken(g, life) \in Token
  BY <1>1, <1>2, OAuthNull DEF NewToken, Token, Time
<1> QED
  BY <1>3, <1>4 DEF g

LEMMA TypeInit == Init => TypeInv
  BY OAuthNull DEF Init, TypeInv, OAuthTypeOK, Presented, Presents, HasRow, Time

LEMMA TypeStep == TypeInv /\ [Next]_vars => TypeInv'
<1> SUFFICES ASSUME TypeInv, [Next]_vars PROVE TypeInv'
  OBVIOUS
<1> USE OAuthNull, OAuthPrefixes DEF TypeInv, HasRow, tables, locals
<1>1. ASSUME NEW c \in Clients, Register(c) PROVE TypeInv'
  BY <1>1 DEF Register, OAuthTypeOK, Presented, Presents
<1>2. ASSUME NEW k \in Codes, NEW c \in Clients, NEW u \in Users, NEW s \in Scopes,
             NEW x \in Uris, NEW v \in Verifiers, Authorize(k, c, u, s, x, v)
      PROVE  TypeInv'
  <2> DEFINE row == [client |-> c, user |-> u, scope |-> s, uri |-> x,
                     challenge |-> v, expiresAt |-> now + CodeTTL, usedAt |-> Null]
  <2>1. row \in Code
    BY OAuthBounds DEF OAuthTypeOK, Code, Time
  <2>2. codes' = [codes EXCEPT ![k] = row] /\ codes[k] = Null
    BY <1>2 DEF Authorize
  <2> HIDE DEF row
  <2> QED
    BY <1>2, <2>1, <2>2 DEF Authorize, OAuthTypeOK, Presented, Presents
<1>3. ASSUME NEW r \in Requests, StepOf(r) PROVE TypeInv'
  <2>1. CASE Refuses(r)
    BY <1>3, <2>1 DEF Refuses, Refusals, Answer, OAuthTypeOK, Presented, Presents
  <2>2. CASE Verified(r)
    BY <2>2 DEF Verified, Await, OAuthTypeOK, Presented, Presents
  <2>3. ASSUME NEW c \in Clients, NEW k \in Codes, NEW x \in Uris,
               NEW v \in Verifiers \cup {Null}, ConsumeCode(r, c, k, x, v)
        PROVE  TypeInv'
    <3>1. codes[k] \in Code /\ codes[k].client = c /\ c \in registered /\ now \in Nat
      BY <2>3, RowTypes DEF ConsumeCode, CodeMatches, OAuthTypeOK
    <3>2. codes' = [codes EXCEPT ![k] = [codes[k] EXCEPT !.usedAt = now]]
      BY <2>3 DEF ConsumeCode
    <3>3. [codes[k] EXCEPT !.usedAt = now] \in Code
      BY <3>1 DEF Code, Time
    <3>4. [codes[k] EXCEPT !.usedAt = now].client = c
      BY <3>1 DEF Code
    <3>5. /\ codes' \in [Codes -> Code \cup {Null}]
          /\ codes'[k] # Null /\ codes'[k].client = c
      BY <3>2, <3>3, <3>4 DEF OAuthTypeOK
    <3>6. \A j \in Codes : j # k => codes'[j] = codes[j]
      BY <3>2 DEF OAuthTypeOK
    <3>7. OAuthTypeOK'
      BY <2>3, <3>1, <3>5 DEF ConsumeCode, Sends, Await, OAuthTypeOK
    <3>8. ASSUME NEW q \in Requests, q # r
          PROVE  /\ pc'[q] = pc[q] /\ token'[q] = token[q] /\ made'[q] = made[q]
                 /\ client'[q] = client[q] /\ before'[q] = before[q]
      BY <2>3, <3>8 DEF ConsumeCode, Sends, Await, OAuthTypeOK
    <3>9. /\ pc'[r] = "verify" /\ token'[r] = k /\ client'[r] = c
          /\ \A q \in before'[r] : pc[q] = "done" /\ q \in Requests
          /\ pc[r] = "idle"
      BY <2>3 DEF ConsumeCode, Sends, Await, OAuthTypeOK
    <3>10. \A j \in Codes : codes[j] # Null =>
             codes'[j] # Null /\ codes'[j].client = codes[j].client
      BY <3>1, <3>5, <3>6
    <3>11. Presented'
      <4> SUFFICES ASSUME NEW q \in Requests
                   PROVE  Presents(q)'
        BY DEF Presented
      <4>1. CASE q = r
        BY <2>3, <3>5, <3>7, <3>8, <3>9, <4>1 DEF ConsumeCode, OAuthTypeOK, Presented, Presents
      <4>2. CASE q # r
        BY <2>3, <3>7, <3>8, <3>9, <3>10, <4>2 DEF ConsumeCode, OAuthTypeOK, Presented, Presents
      <4> QED
        BY <4>1, <4>2
    <3> QED
      BY <3>7, <3>11
  <2>4. ASSUME NEW c \in Clients, NEW t \in RTokens,
               RefreshReads(r, c, t) \/ RevokeRefreshReads(r, c, t)
        PROVE  TypeInv'
    <3>1. refresh[t] \in Token
      BY <2>4, RowTypes DEF RefreshReads, RevokeRefreshReads
    <3>2. refresh[t].revokedAt \in Time
      BY <3>1 DEF Token
    <3>3. CASE RefreshReads(r, c, t)
      BY <3>1, <3>2, <3>3 DEF RefreshReads, Sends, Await, OAuthTypeOK, Presented, Presents
    <3>4. CASE RevokeRefreshReads(r, c, t)
      BY <3>1, <3>4 DEF RevokeRefreshReads, Sends, Await, OAuthTypeOK, Presented, Presents
    <3> QED
      BY <2>4, <3>3, <3>4
  <2>5. ASSUME SpendRefresh(r) \/ RevokeRefresh(r) PROVE TypeInv'
    <3>1. /\ token[r] \in RTokens /\ refresh[token[r]] \in Token
          /\ now \in Nat
      BY <2>5, RowTypes DEF SpendRefresh, RevokeRefresh, Presented, Presents, OAuthTypeOK
    <3>2. refresh' = [refresh EXCEPT ![token[r]] =
                        [refresh[token[r]] EXCEPT !.revokedAt = now]]
      BY <2>5 DEF SpendRefresh, RevokeRefresh
    <3>3. [refresh[token[r]] EXCEPT !.revokedAt = now] \in Token
      BY <3>1 DEF Token, Time
    <3>4. /\ refresh' \in [RTokens -> Token \cup {Null}]
          /\ \A t \in RTokens : (refresh'[t] = Null) <=> (refresh[t] = Null)
      BY <3>1, <3>2, <3>3 DEF OAuthTypeOK
    <3>5. pc' = [pc EXCEPT ![r] = "createAccess"] \/ pc' = [pc EXCEPT ![r] = "cascade"]
      BY <2>5 DEF SpendRefresh, RevokeRefresh, Await
    <3>6. OAuthTypeOK'
      BY <2>5, <3>4 DEF SpendRefresh, RevokeRefresh, Await, OAuthTypeOK
    <3>7. Presented'
      BY <2>5, <3>1, <3>4, <3>5 DEF SpendRefresh, RevokeRefresh, OAuthTypeOK, Presented, Presents
    <3> QED
      BY <3>6, <3>7
  <2>6. ASSUME NEW a \in ATokens, CreateAccess(r, a) PROVE TypeInv'
    <3>1. NewToken(Grant(r), AccessLife(Grant(r).scope)) \in Token
      BY <2>6, NewTokenType DEF CreateAccess
    <3> QED
      BY <2>6, <3>1 DEF CreateAccess, Await, OAuthTypeOK, Presented, Presents
  <2>7. ASSUME NEW t \in RTokens, CreateRefresh(r, t) PROVE TypeInv'
    <3>1. NewToken(Grant(r), RefreshLife(Grant(r).scope)) \in Token
      BY <2>7, NewTokenType DEF CreateRefresh
    <3> QED
      BY <2>7, <3>1 DEF CreateRefresh, Answer, OAuthTypeOK, Presented, Presents
  <2>8. CASE Cascade(r)
    <3>1. \A a \in ATokens :
            /\ (access'[a] = Null) <=> (access[a] = Null)
            /\ access'[a] \in Token \cup {Null}
      <4> SUFFICES ASSUME NEW a \in ATokens
                   PROVE  /\ (access'[a] = Null) <=> (access[a] = Null)
                          /\ access'[a] \in Token \cup {Null}
        OBVIOUS
      <4>1. CASE a \in Cascaded(r)
        <5>1. access[a] \in Token /\ now \in Nat
          BY <4>1, RowTypes DEF Cascaded, LiveIn, OAuthTypeOK
        <5>2. [access[a] EXCEPT !.revokedAt = now] \in Token
          BY <5>1 DEF Token, Time
        <5> QED
          BY <2>8, <4>1, <5>1, <5>2 DEF Cascade
      <4>2. CASE a \notin Cascaded(r)
        BY <2>8, <4>2 DEF Cascade, OAuthTypeOK
      <4> QED
        BY <4>1, <4>2
    <3>2. access' \in [ATokens -> Token \cup {Null}]
      BY <2>8, <3>1 DEF Cascade
    <3> QED
      BY <2>8, <3>1, <3>2, RevokingTypes DEF Cascade
  <2>9. ASSUME NEW c \in Clients, NEW a \in ATokens, RevokeAccessReads(r, c, a)
        PROVE  TypeInv'
    BY <2>9 DEF RevokeAccessReads, Sends, Await, OAuthTypeOK, Presented, Presents
  <2>10. CASE RevokeAccess(r)
    <3>1. /\ token[r] \in ATokens /\ access[token[r]] \in Token
          /\ now \in Nat
      BY <2>10, RowTypes DEF RevokeAccess, Presented, Presents, OAuthTypeOK
    <3>2. access' = [access EXCEPT ![token[r]] =
                        [access[token[r]] EXCEPT !.revokedAt = now]]
      BY <2>10 DEF RevokeAccess
    <3>3. [access[token[r]] EXCEPT !.revokedAt = now] \in Token
      BY <3>1 DEF Token, Time
    <3>4. /\ access' \in [ATokens -> Token \cup {Null}]
          /\ \A a \in ATokens : (access'[a] = Null) <=> (access[a] = Null)
      BY <3>1, <3>2, <3>3, OAuthNull DEF OAuthTypeOK
    <3> QED
      BY <2>10, <3>4, RevokingTypes DEF RevokeAccess
  <2>11. ASSUME NEW a \in ATokens, Validate(r, a) PROVE TypeInv'
    BY <2>11 DEF Validate, Valid, LiveIn, Sends, Answer, OAuthTypeOK, Presented, Presents
  <2> QED
    BY <1>3, <2>1, <2>2, <2>3, <2>4, <2>5, <2>6, <2>7, <2>8, <2>9, <2>10, <2>11
    DEF StepOf
<1>4. CASE Tick
  BY <1>4, OAuthBounds DEF Tick, OAuthTypeOK, Presented, Presents
<1>5. CASE UNCHANGED vars
  BY <1>5 DEF vars, OAuthTypeOK, Presented, Presents
<1> QED
  BY <1>1, <1>2, <1>3, <1>4, <1>5, StepKinds

(* Every reachable state of the tables and of the requests is well typed;  *)
(* a token that a request has created is in its table.                     *)
THEOREM TypeCorrect == Spec => []OAuthTypeOK
<1>1. TypeInv => OAuthTypeOK
  BY DEF TypeInv
<1> QED
  BY <1>1, TypeInit, TypeStep, PTL DEF Spec

----------------------------------------------------------------------------
(* What no step undoes: a row stays, with its client, user and scope; a    *)
(* used code stays used and a revoked token revoked; a request that was    *)
(* sent keeps what it presented, and one that was answered its answer.     *)
SameGrant(x, y) == x.client = y.client /\ x.user = y.user /\ x.scope = y.scope

CodesKept ==
  \A k \in Codes : codes[k] # Null =>
    /\ codes'[k] # Null
    /\ SameGrant(codes'[k], codes[k])
    /\ codes'[k].challenge = codes[k].challenge
    /\ codes[k].usedAt # Null => codes'[k].usedAt # Null

AccessKept ==
  \A a \in ATokens : access[a] # Null =>
    /\ access'[a] # Null
    /\ SameGrant(access'[a], access[a])
    /\ access[a].revokedAt # Null => access'[a].revokedAt # Null

RefreshKept ==
  \A t \in RTokens : refresh[t] # Null =>
    /\ refresh'[t] # Null
    /\ SameGrant(refresh'[t], refresh[t])
    /\ refresh[t].revokedAt # Null => refresh'[t].revokedAt # Null

RequestKept(r) ==
  /\ pc[r] # "idle" =>
       /\ pc'[r] # "idle"
       /\ token'[r] = token[r] /\ client'[r] = client[r] /\ proof'[r] = proof[r]
       /\ seen'[r] = seen[r] /\ before'[r] = before[r]
  /\ pc[r] = "done" =>
       pc'[r] = "done" /\ answer'[r] = answer[r] /\ made'[r] = made[r]

Kept ==
  /\ CodesKept
  /\ AccessKept
  /\ RefreshKept
  /\ \A r \in Requests : RequestKept(r)

LEMMA RequestsKept ==
  ASSUME TypeInv, Next
  PROVE  \A r \in Requests : RequestKept(r)
<1> SUFFICES ASSUME NEW q \in Requests PROVE RequestKept(q)
  OBVIOUS
<1> USE DEF TypeInv, OAuthTypeOK, RequestKept, tables, locals
<1>1. ASSUME NEW c \in Clients, Register(c) PROVE RequestKept(q)
  BY <1>1 DEF Register
<1>2. ASSUME NEW k \in Codes, NEW c \in Clients, NEW u \in Users, NEW s \in Scopes,
             NEW x \in Uris, NEW v \in Verifiers, Authorize(k, c, u, s, x, v)
      PROVE  RequestKept(q)
  BY <1>2 DEF Authorize
<1>3. ASSUME NEW r \in Requests, StepOf(r) PROVE RequestKept(q)
  <2>1. CASE Refuses(r) \/ Verified(r)
    BY <2>1 DEF Refuses, Verified, Answer, Await
  <2>2. ASSUME NEW c \in Clients, NEW k \in Codes, NEW x \in Uris,
               NEW v \in Verifiers \cup {Null}, ConsumeCode(r, c, k, x, v)
        PROVE  RequestKept(q)
    BY <2>2 DEF ConsumeCode, Sends, Await
  <2>3. ASSUME NEW c \in Clients, NEW t \in RTokens,
               RefreshReads(r, c, t) \/ RevokeRefreshReads(r, c, t)
        PROVE  RequestKept(q)
    BY <2>3 DEF RefreshReads, RevokeRefreshReads, Sends, Await
  <2>4. CASE SpendRefresh(r) \/ RevokeRefresh(r)
    BY <2>4 DEF SpendRefresh, RevokeRefresh, Await
  <2>5. ASSUME NEW a \in ATokens, CreateAccess(r, a) PROVE RequestKept(q)
    BY <2>5 DEF CreateAccess, Await
  <2>6. ASSUME NEW t \in RTokens, CreateRefresh(r, t) PROVE RequestKept(q)
    BY <2>6 DEF CreateRefresh, Answer
  <2>7. CASE Cascade(r) \/ RevokeAccess(r)
    BY <2>7 DEF Cascade, RevokeAccess, Answer
  <2>8. ASSUME NEW c \in Clients, NEW a \in ATokens, RevokeAccessReads(r, c, a)
        PROVE  RequestKept(q)
    BY <2>8 DEF RevokeAccessReads, Sends, Await
  <2>9. ASSUME NEW a \in ATokens, Validate(r, a) PROVE RequestKept(q)
    BY <2>9 DEF Validate, Sends, Answer
  <2> QED
    BY <1>3, <2>1, <2>2, <2>3, <2>4, <2>5, <2>6, <2>7, <2>8, <2>9 DEF StepOf
<1>4. CASE Tick \/ UNCHANGED vars
  BY <1>4 DEF Tick, vars
<1> QED
  BY <1>1, <1>2, <1>3, <1>4, StepKinds

(* The three ways a step writes a table of tokens.                         *)
LEMMA Inserted ==
  ASSUME TypeInv, NEW g, NEW life
  PROVE  /\ \A a \in ATokens : access[a] = Null
              /\ access' = [access EXCEPT ![a] = NewToken(g, life)] => AccessKept
         /\ \A t \in RTokens : refresh[t] = Null
              /\ refresh' = [refresh EXCEPT ![t] = NewToken(g, life)] => RefreshKept
  BY DEF TypeInv, OAuthTypeOK, AccessKept, RefreshKept, SameGrant

LEMMA RevokedAlone ==
  ASSUME TypeInv
  PROVE  /\ \A a \in ATokens : access[a] # Null
              /\ access' = [access EXCEPT ![a].revokedAt = now] =>
              /\ AccessKept
              /\ access'[a].revokedAt = now
              /\ \A b \in ATokens : b # a => access'[b] = access[b]
         /\ \A t \in RTokens : refresh[t] # Null
              /\ refresh' = [refresh EXCEPT ![t].revokedAt = now] =>
              /\ RefreshKept
              /\ refresh'[t].revokedAt = now
              /\ \A u \in RTokens : u # t => refresh'[u] = refresh[u]
<1>1. now \in Nat /\ now # Null
  BY OAuthNull DEF TypeInv, OAuthTypeOK
<1>2. ASSUME NEW row \in Token
      PROVE  LET new == [row EXCEPT !.revokedAt = now]
             IN  SameGrant(new, row) /\ new.revokedAt = now /\ new # Null
  <2> DEFINE new == [row EXCEPT !.revokedAt = now]
  <2>1. new \in Token
    BY <1>1 DEF Token, Time
  <2> QED
    BY <2>1, OAuthNull DEF SameGrant, Token
<1>3. ASSUME NEW a \in ATokens, access[a] # Null,
             access' = [access EXCEPT ![a].revokedAt = now]
      PROVE  /\ AccessKept
             /\ access'[a].revokedAt = now
             /\ \A b \in ATokens : b # a => access'[b] = access[b]
  <2>1. access[a] \in Token
    BY <1>3, RowTypes
  <2>2. access'[a] = [access[a] EXCEPT !.revokedAt = now]
        /\ \A b \in ATokens : b # a => access'[b] = access[b]
    BY <1>3 DEF TypeInv, OAuthTypeOK
  <2>3. /\ SameGrant(access'[a], access[a])
        /\ access'[a].revokedAt = now /\ access'[a] # Null
    BY <1>2, <2>1, <2>2
  <2> QED
    BY <1>1, <2>2, <2>3 DEF AccessKept, SameGrant
<1>4. ASSUME NEW t \in RTokens, refresh[t] # Null,
             refresh' = [refresh EXCEPT ![t].revokedAt = now]
      PROVE  /\ RefreshKept
             /\ refresh'[t].revokedAt = now
             /\ \A u \in RTokens : u # t => refresh'[u] = refresh[u]
  <2>1. refresh[t] \in Token
    BY <1>4, RowTypes
  <2>2. refresh'[t] = [refresh[t] EXCEPT !.revokedAt = now]
        /\ \A u \in RTokens : u # t => refresh'[u] = refresh[u]
    BY <1>4 DEF TypeInv, OAuthTypeOK
  <2>3. /\ SameGrant(refresh'[t], refresh[t])
        /\ refresh'[t].revokedAt = now /\ refresh'[t] # Null
    BY <1>2, <2>1, <2>2
  <2> QED
    BY <1>1, <2>2, <2>3 DEF RefreshKept, SameGrant
<1> QED
  BY <1>3, <1>4

LEMMA CascadeRevokes ==
  ASSUME TypeInv, NEW r \in Requests, Cascade(r)
  PROVE  /\ AccessKept
         /\ \A a \in ATokens : access[a] = Null => access'[a] = Null
         /\ \A a \in ATokens :
              /\ access[a] # Null
              /\ access[a].client = refresh[token[r]].client
              /\ access[a].user = refresh[token[r]].user
              => access'[a].revokedAt # Null
<1>1. now \in Nat /\ now # Null
  BY OAuthNull DEF TypeInv, OAuthTypeOK
<1>2. ASSUME NEW a \in ATokens, a \in Cascaded(r)
      PROVE  /\ access'[a] # Null
             /\ SameGrant(access'[a], access[a])
             /\ access'[a].revokedAt # Null
  <2>1. access[a] \in Token
    BY <1>2, RowTypes DEF Cascaded, LiveIn, HasRow
  <2>2. access'[a] = [access[a] EXCEPT !.revokedAt = now]
    BY <1>2 DEF Cascade
  <2>3. access'[a] \in Token
    BY <1>1, <2>1, <2>2 DEF Token, Time
  <2> QED
    BY <1>1, <2>1, <2>2, <2>3, OAuthNull DEF SameGrant, Token
<1>3. ASSUME NEW a \in ATokens, a \notin Cascaded(r) PROVE access'[a] = access[a]
  BY <1>3 DEF Cascade
<1>4. AccessKept
  BY <1>2, <1>3 DEF AccessKept, SameGrant
<1>5. \A a \in ATokens : access[a] = Null => access'[a] = Null
  BY <1>3 DEF Cascaded, LiveIn, HasRow
<1>6. ASSUME NEW a \in ATokens, access[a] # Null,
             access[a].client = refresh[token[r]].client,
             access[a].user = refresh[token[r]].user
      PROVE  access'[a].revokedAt # Null
  <2>1. CASE access[a].revokedAt = Null
    BY <1>2, <1>6, <2>1 DEF Cascaded, LiveIn, HasRow
  <2>2. CASE access[a].revokedAt # Null
    BY <1>4, <1>6, <2>2 DEF AccessKept
  <2> QED
    BY <2>1, <2>2
<1> QED
  BY <1>4, <1>5, <1>6

LEMMA CodeConsumed ==
  ASSUME TypeInv, NEW r \in Requests, NEW c, NEW k \in Codes, NEW x, NEW v,
         ConsumeCode(r, c, k, x, v)
  PROVE  /\ CodesKept
         /\ codes'[k].usedAt # Null
         /\ \A j \in Codes : j # k => codes'[j] = codes[j]
<1>1. codes[k] \in Code /\ now \in Nat /\ now # Null
  BY RowTypes, OAuthNull DEF ConsumeCode, CodeMatches, HasRow, TypeInv, OAuthTypeOK
<1>2. codes'[k] = [codes[k] EXCEPT !.usedAt = now]
      /\ \A j \in Codes : j # k => codes'[j] = codes[j]
  BY DEF ConsumeCode, TypeInv, OAuthTypeOK
<1>3. codes'[k] \in Code
  BY <1>1, <1>2 DEF Code, Time
<1>4. /\ codes'[k] # Null /\ codes'[k].usedAt = now
      /\ SameGrant(codes'[k], codes[k])
      /\ codes'[k].challenge = codes[k].challenge
  BY <1>1, <1>2, <1>3, OAuthNull DEF SameGrant, Code
<1> QED
  BY <1>1, <1>2, <1>4 DEF CodesKept, SameGrant

LEMMA StepKeeps == TypeInv /\ Next => Kept
<1> SUFFICES ASSUME TypeInv, Next PROVE CodesKept /\ AccessKept /\ RefreshKept
  BY RequestsKept DEF Kept
<1>1. UNCHANGED codes => CodesKept
  BY DEF CodesKept, SameGrant
<1>2. UNCHANGED access => AccessKept
  BY DEF AccessKept, SameGrant
<1>3. UNCHANGED refresh => RefreshKept
  BY DEF RefreshKept, SameGrant
<1> USE <1>1, <1>2, <1>3
<1> USE DEF tables
<1>4. ASSUME NEW c \in Clients, Register(c)
      PROVE  CodesKept /\ AccessKept /\ RefreshKept
  BY <1>4 DEF Register
<1>5. ASSUME NEW k \in Codes, NEW c \in Clients, NEW u \in Users, NEW s \in Scopes,
             NEW x \in Uris, NEW v \in Verifiers, Authorize(k, c, u, s, x, v)
      PROVE  CodesKept /\ AccessKept /\ RefreshKept
  <2>1. CodesKept
    BY <1>5 DEF Authorize, HasRow, TypeInv, OAuthTypeOK, CodesKept, SameGrant
  <2> QED
    BY <1>5, <2>1 DEF Authorize
<1>6. ASSUME NEW r \in Requests, StepOf(r)
      PROVE  CodesKept /\ AccessKept /\ RefreshKept
  <2>1. CASE Refuses(r) \/ Verified(r)
    BY <2>1 DEF Refuses, Verified
  <2>2. ASSUME NEW c \in Clients, NEW k \in Codes, NEW x \in Uris,
               NEW v \in Verifiers \cup {Null}, ConsumeCode(r, c, k, x, v)
        PROVE  CodesKept /\ AccessKept /\ RefreshKept
    BY <2>2, CodeConsumed DEF ConsumeCode
  <2>3. ASSUME NEW c \in Clients, NEW t \in RTokens,
               RefreshReads(r, c, t) \/ RevokeRefreshReads(r, c, t)
        PROVE  CodesKept /\ AccessKept /\ RefreshKept
    BY <2>3 DEF RefreshReads, RevokeRefreshReads
  <2>4. CASE SpendRefresh(r) \/ RevokeRefresh(r)
    <3>1. token[r] \in RTokens /\ refresh[token[r]] # Null
      BY <2>4 DEF SpendRefresh, RevokeRefresh, TypeInv, Presented, Presents
    <3> QED
      BY <2>4, <3>1, RevokedAlone DEF SpendRefresh, RevokeRefresh
  <2>5. ASSUME NEW a \in ATokens, CreateAccess(r, a)
        PROVE  CodesKept /\ AccessKept /\ RefreshKept
    BY <2>5, Inserted DEF CreateAccess, HasRow
  <2>6. ASSUME NEW t \in RTokens, CreateRefresh(r, t)
        PROVE  CodesKept /\ AccessKept /\ RefreshKept
    BY <2>6, Inserted DEF CreateRefresh, HasRow
  <2>7. CASE Cascade(r)
    BY <2>7, CascadeRevokes DEF Cascade
  <2>8. ASSUME NEW c \in Clients, NEW a \in ATokens, RevokeAccessReads(r, c, a)
        PROVE  CodesKept /\ AccessKept /\ RefreshKept
    BY <2>8 DEF RevokeAccessReads
  <2>9. CASE RevokeAccess(r)
    <3>1. token[r] \in ATokens /\ access[token[r]] # Null
      BY <2>9 DEF RevokeAccess, TypeInv, Presented, Presents
    <3> QED
      BY <2>9, <3>1, RevokedAlone DEF RevokeAccess
  <2>10. ASSUME NEW a \in ATokens, Validate(r, a)
         PROVE  CodesKept /\ AccessKept /\ RefreshKept
    BY <2>10 DEF Validate
  <2> QED
    BY <1>6, <2>1, <2>2, <2>3, <2>4, <2>5, <2>6, <2>7, <2>8, <2>9, <2>10 DEF StepOf
<1>7. CASE Tick \/ UNCHANGED vars
  BY <1>7 DEF Tick, vars
<1> QED
  BY <1>4, <1>5, <1>6, <1>7, StepKinds

----------------------------------------------------------------------------
(* Only exchangeCode's updateMany makes a request hold a code.             *)
LEMMA CodesHeld ==
  ASSUME TypeInv, Next
  PROVE  \/ \A q \in Requests : token'[q] \in Codes => token'[q] = token[q]
         \/ \E r \in Requests, c \in Clients, k \in Codes, x \in Uris,
               v \in Verifiers \cup {Null} : ConsumeCode(r, c, k, x, v)
<1> DEFINE Goal == \A q \in Requests : token'[q] \in Codes => token'[q] = token[q]
<1> USE OAuthPrefixes DEF TypeInv, OAuthTypeOK, tables, locals
<1>1. UNCHANGED token => Goal
  OBVIOUS
<1>2. ASSUME NEW r \in Requests, NEW c, NEW t \in RTokens \cup ATokens, NEW v,
             Sends(r, c, t, v)
      PROVE  Goal
  BY <1>2 DEF Sends
<1> HIDE DEF Goal
<1>3. ASSUME NEW r \in Requests, StepOf(r)
      PROVE  \/ Goal
             \/ \E c \in Clients, k \in Codes, x \in Uris,
                   v \in Verifiers \cup {Null} : ConsumeCode(r, c, k, x, v)
  BY <1>1, <1>2, <1>3 DEF StepOf, Refuses, Verified, RefreshReads, RevokeRefreshReads,
     SpendRefresh, CreateAccess, CreateRefresh, RevokeRefresh, Cascade,
     RevokeAccessReads, RevokeAccess, Validate
<1>4. (\E c \in Clients : Register(c)) \/ Tick \/ UNCHANGED vars => Goal
  BY <1>1 DEF Register, Tick, vars
<1>5. ASSUME NEW k \in Codes, NEW c \in Clients, NEW u \in Users, NEW s \in Scopes,
             NEW x \in Uris, NEW v \in Verifiers, Authorize(k, c, u, s, x, v)
      PROVE  Goal
  BY <1>1, <1>5 DEF Authorize
<1> QED
  BY <1>3, <1>4, <1>5, StepKinds DEF Goal

LEMMA OnceStep == TypeInv /\ CodeUsedOnce /\ Next => CodeUsedOnce'
<1> SUFFICES ASSUME TypeInv, CodeUsedOnce, Next,
                    NEW q \in Requests, NEW r \in Requests, token'[q] \in Codes
             PROVE  /\ codes'[token'[q]].usedAt # Null
                    /\ token'[r] \in Codes /\ token'[q] = token'[r] => q = r
  BY DEF CodeUsedOnce, Consumed
<1>1. CASE \A p \in Requests : token'[p] \in Codes => token'[p] = token[p]
  <2>1. token[q] \in Codes /\ codes[token[q]] # Null /\ token'[q] = token[q]
    BY <1>1 DEF TypeInv, Presented, Presents
  <2>2. codes'[token'[q]].usedAt # Null
    BY <2>1, StepKeeps DEF Kept, CodesKept, CodeUsedOnce, Consumed
  <2> QED
    BY <1>1, <2>1, <2>2 DEF CodeUsedOnce, Consumed
<1>2. ASSUME NEW p \in Requests, NEW c \in Clients, NEW k \in Codes, NEW x \in Uris,
             NEW v \in Verifiers \cup {Null}, ConsumeCode(p, c, k, x, v)
      PROVE  /\ codes'[token'[q]].usedAt # Null
             /\ token'[r] \in Codes /\ token'[q] = token'[r] => q = r
  <2>1. \A s \in Requests : token'[s] = IF s = p THEN k ELSE token[s]
    BY <1>2 DEF ConsumeCode, Sends, TypeInv, OAuthTypeOK
  <2>2. \A s \in Requests : token[s] # k
    BY <1>2 DEF ConsumeCode, CodeMatches, CodeUsedOnce, Consumed
  <2>3. codes'[k].usedAt # Null /\ \A j \in Codes : j # k => codes'[j] = codes[j]
    BY <1>2, CodeConsumed
  <2> QED
    BY <2>1, <2>2, <2>3 DEF CodeUsedOnce, Consumed
<1> QED
  BY <1>1, <1>2, CodesHeld

LEMMA OnceInit == Init => CodeUsedOnce
  BY OAuthNull DEF Init, CodeUsedOnce, Consumed

LEMMA OnceInvariant == Spec => [](TypeInv /\ CodeUsedOnce)
<1>1. UNCHANGED vars /\ CodeUsedOnce => CodeUsedOnce'
  BY DEF vars, tables, locals, CodeUsedOnce, Consumed
<1> QED
  BY <1>1, TypeInit, TypeStep, OnceInit, OnceStep, PTL DEF Spec

(* However exchanges of a code interleave, fail or are retried, one        *)
(* request at most gets past the updateMany, and only by using the code up.*)
THEOREM CodeUsedOnceHolds == Spec => []CodeUsedOnce
  BY OnceInvariant, PTL

----------------------------------------------------------------------------
(* A request that is about to create tokens for a code has shown the       *)
(* verifier of its challenge.                                              *)
ProofChecked ==
  \A r \in Requests :
    pc[r] \in {"createAccess", "createRefresh"} /\ token[r] \in Codes
    => proof[r] = codes[token[r]].challenge

AccessGranted == \A a \in ATokens : access[a] # Null => Granted(access[a])
RefreshGranted == \A t \in RTokens : refresh[t] # Null => Granted(refresh[t])

GrantInv == ProofChecked /\ AccessGranted /\ RefreshGranted

LEMMA GrantedRows ==
  ASSUME TypeInv
  PROVE  TokensGranted <=> AccessGranted /\ RefreshGranted
<1>1. DOMAIN access = ATokens /\ DOMAIN refresh = RTokens
  BY DEF TypeInv, OAuthTypeOK
<1> QED
  BY <1>1 DEF TokensGranted, AccessGranted, RefreshGranted, Rows, HasRow

(* What a request was granted, it was granted for good, and a row with the *)
(* same client, user and scope is covered by the same code.                *)
LEMMA GrantedKept ==
  ASSUME TypeInv, Next, NEW row, NEW new, Granted(row), SameGrant(new, row)
  PROVE  Granted(new)'
<1>1. PICK r \in Requests :
        /\ token[r] \in Codes
        /\ proof[r] = codes[token[r]].challenge
        /\ row.client = client[r]
        /\ row.client = codes[token[r]].client
        /\ row.user = codes[token[r]].user
        /\ row.scope = codes[token[r]].scope
  BY DEF Granted, Consumed
<1>2. codes[token[r]] # Null /\ pc[r] # "idle"
  BY <1>1, OAuthNull DEF TypeInv, Presented, Presents
<1>3. /\ token'[r] = token[r] /\ proof'[r] = proof[r] /\ client'[r] = client[r]
      /\ SameGrant(codes'[token[r]], codes[token[r]])
      /\ codes'[token[r]].challenge = codes[token[r]].challenge
  BY <1>1, <1>2, StepKeeps DEF Kept, CodesKept, RequestKept
<1> QED
  BY <1>1, <1>3 DEF Granted, Consumed, SameGrant

(* The tokens that a request creates are covered, by its own code or by    *)
(* the one behind the refresh token that it spends.                        *)
LEMMA NewTokenGranted ==
  ASSUME TypeInv, GrantInv, Next, NEW r \in Requests, NEW life,
         pc[r] \in {"createAccess", "createRefresh"},
         NEW new, new = NewToken(Grant(r), life)
  PROVE  Granted(new)'
<1>1. SameGrant(new, Grant(r))
  BY DEF NewToken, SameGrant
<1>2. Granted(Grant(r))
  <2>1. CASE token[r] \in Codes
    BY <2>1 DEF Granted, Grant, Consumed, TypeInv, Presented, Presents, GrantInv,
       ProofChecked
  <2>2. CASE token[r] \in RTokens
    BY <2>2, OAuthPrefixes DEF Grant, TypeInv, Presented, Presents, GrantInv,
       RefreshGranted
  <2> QED
    BY <2>1, <2>2 DEF TypeInv, Presented, Presents
<1> QED
  BY <1>1, <1>2, GrantedKept

LEMMA CheckedStep == TypeInv /\ ProofChecked /\ Next => ProofChecked'
<1> SUFFICES ASSUME TypeInv, ProofChecked, Next PROVE ProofChecked'
  OBVIOUS
<1> DEFINE Open(r) == pc[r] \in {"createAccess", "createRefresh"}
           New(r) == pc'[r] \in {"createAccess", "createRefresh"}
<1>1. ASSUME NEW q \in Requests, Open(q), token[q] \in Codes, New(q)
      PROVE  proof'[q] = codes'[token'[q]].challenge
  <2>1. codes[token[q]] # Null
    BY <1>1 DEF TypeInv, Presented, Presents
  <2> QED
    BY <1>1, <2>1, StepKeeps DEF Kept, CodesKept, RequestKept, ProofChecked
<1>2. ASSUME NEW q \in Requests, Open(q) PROVE token'[q] = token[q]
  BY <1>2, StepKeeps DEF Kept, RequestKept
<1>3. SUFFICES ASSUME NEW q \in Requests, ~Open(q), New(q), token'[q] \in Codes
               PROVE  proof'[q] = codes'[token'[q]].challenge
  BY <1>1, <1>2 DEF ProofChecked
<1> USE DEF TypeInv, OAuthTypeOK, tables, locals
<1>4. UNCHANGED pc => FALSE
  BY <1>3
<1>5. (\E c \in Clients : Register(c)) \/ Tick \/ UNCHANGED vars => UNCHANGED pc
  BY DEF Register, Tick, vars
<1>6. ASSUME NEW k \in Codes, NEW c \in Clients, NEW u \in Users, NEW s \in Scopes,
             NEW x \in Uris, NEW v \in Verifiers, Authorize(k, c, u, s, x, v)
      PROVE  UNCHANGED pc
  BY <1>6 DEF Authorize
<1>7. ASSUME NEW r \in Requests, StepOf(r)
      PROVE  proof'[q] = codes'[token'[q]].challenge
  <2>1. CASE Verified(r)
    BY <1>3, <2>1 DEF Verified, Await
  <2>2. CASE SpendRefresh(r)
    BY <1>3, <2>2, OAuthPrefixes DEF SpendRefresh, Await, Presented, Presents
  <2>3. CASE \/ Refuses(r) \/ RevokeRefresh(r) \/ Cascade(r) \/ RevokeAccess(r)
             \/ \E a \in ATokens : CreateAccess(r, a)
             \/ \E t \in RTokens : CreateRefresh(r, t)
    BY <1>3, <2>3 DEF Refuses, RevokeRefresh, Cascade, RevokeAccess, CreateAccess,
       CreateRefresh, Answer, Await
  <2>4. CASE \/ \E c \in Clients, k \in Codes, x \in Uris,
                   v \in Verifiers \cup {Null} : ConsumeCode(r, c, k, x, v)
             \/ \E c \in Clients, t \in RTokens :
                   RefreshReads(r, c, t) \/ RevokeRefreshReads(r, c, t)
             \/ \E c \in Clients, a \in ATokens : RevokeAccessReads(r, c, a)
             \/ \E a \in ATokens : Validate(r, a)
    BY <1>3, <2>4 DEF ConsumeCode, RefreshReads, RevokeRefreshReads,
       RevokeAccessReads, Validate, Answer, Await
  <2> QED
    BY <1>7, <2>1, <2>2, <2>3, <2>4 DEF StepOf
<1> QED
  BY <1>4, <1>5, <1>6, <1>7, StepKinds

(* Every row of a table of tokens after a step is the row before it, that  *)
(* row revoked, or the row that a request in createTokens inserts.         *)
LEMMA AccessRows ==
  ASSUME TypeInv, Next, NEW a \in ATokens, access'[a] # Null, access[a] = Null
  PROVE  \E r \in Requests : CreateAccess(r, a)
<1> USE DEF TypeInv, OAuthTypeOK, tables
<1>1. ~ UNCHANGED access
  OBVIOUS
<1>2. ASSUME NEW r \in Requests, StepOf(r) PROVE CreateAccess(r, a)
  <2>1. ~ Cascade(r)
    BY CascadeRevokes
  <2>2. ~ RevokeAccess(r)
    BY RevokedAlone DEF RevokeAccess, Presented, Presents
  <2>3. \A b \in ATokens : CreateAccess(r, b) => b = a
    BY DEF CreateAccess
  <2> QED
    BY <1>1, <1>2, <2>1, <2>2, <2>3 DEF StepOf, Refuses, Verified, ConsumeCode,
       RefreshReads, RevokeRefreshReads, SpendRefresh, CreateRefresh, RevokeRefresh,
       RevokeAccessReads, Validate
<1>3. ASSUME NEW k \in Codes, NEW c \in Clients, NEW u \in Users, NEW s \in Scopes,
             NEW x \in Uris, NEW v \in Verifiers, Authorize(k, c, u, s, x, v)
      PROVE  FALSE
  BY <1>1, <1>3 DEF Authorize
<1> QED
  BY <1>1, <1>2, <1>3, StepKinds DEF Register, Tick, vars

LEMMA RefreshRows ==
  ASSUME TypeInv, Next, NEW t \in RTokens, refresh'[t] # Null, refresh[t] = Null
  PROVE  \E r \in Requests : CreateRefresh(r, t)
<1> USE DEF TypeInv, OAuthTypeOK, tables
<1>1. ~ UNCHANGED refresh
  OBVIOUS
<1>2. ASSUME NEW r \in Requests, StepOf(r) PROVE CreateRefresh(r, t)
  <2>1. ~ SpendRefresh(r) /\ ~ RevokeRefresh(r)
    BY RevokedAlone DEF SpendRefresh, RevokeRefresh, Presented, Presents
  <2>2. \A u \in RTokens : CreateRefresh(r, u) => u = t
    BY DEF CreateRefresh
  <2> QED
    BY <1>1, <1>2, <2>1, <2>2 DEF StepOf, Refuses, Verified, ConsumeCode,
       RefreshReads, RevokeRefreshReads, CreateAccess, Cascade, RevokeAccess,
       RevokeAccessReads, Validate
<1>3. ASSUME NEW k \in Codes, NEW c \in Clients, NEW u \in Users, NEW s \in Scopes,
             NEW x \in Uris, NEW v \in Verifiers, Authorize(k, c, u, s, x, v)
      PROVE  FALSE
  BY <1>1, <1>3 DEF Authorize
<1> QED
  BY <1>1, <1>2, <1>3, StepKinds DEF Register, Tick, vars

LEMMA GrantStep == TypeInv /\ GrantInv /\ Next => GrantInv'
<1> SUFFICES ASSUME TypeInv, GrantInv, Next PROVE AccessGranted' /\ RefreshGranted'
  BY CheckedStep DEF GrantInv
<1>1. ASSUME NEW a \in ATokens, access'[a] # Null, NEW row, row = access'[a]
      PROVE  Granted(row)'
  <2>1. CASE access[a] # Null
    <3>1. SameGrant(row, access[a])
      BY <1>1, <2>1, StepKeeps DEF Kept, AccessKept
    <3> QED
      BY <2>1, <3>1, GrantedKept DEF GrantInv, AccessGranted
  <2>2. CASE access[a] = Null
    <3>1. PICK r \in Requests : CreateAccess(r, a)
      BY <1>1, <2>2, AccessRows
    <3>2. row = NewToken(Grant(r), AccessLife(Grant(r).scope))
      BY <1>1, <3>1 DEF CreateAccess, TypeInv, OAuthTypeOK
    <3> QED
      BY <3>1, <3>2, NewTokenGranted DEF CreateAccess
  <2> QED
    BY <2>1, <2>2
<1>2. ASSUME NEW t \in RTokens, refresh'[t] # Null, NEW row, row = refresh'[t]
      PROVE  Granted(row)'
  <2>1. CASE refresh[t] # Null
    <3>1. SameGrant(row, refresh[t])
      BY <1>2, <2>1, StepKeeps DEF Kept, RefreshKept
    <3> QED
      BY <2>1, <3>1, GrantedKept DEF GrantInv, RefreshGranted
  <2>2. CASE refresh[t] = Null
    <3>1. PICK r \in Requests : CreateRefresh(r, t)
      BY <1>2, <2>2, RefreshRows
    <3>2. row = NewToken(Grant(r), RefreshLife(Grant(r).scope))
      BY <1>2, <3>1 DEF CreateRefresh, TypeInv, OAuthTypeOK
    <3> QED
      BY <3>1, <3>2, NewTokenGranted DEF CreateRefresh
  <2> QED
    BY <2>1, <2>2
<1> QED
  BY <1>1, <1>2 DEF AccessGranted, RefreshGranted

LEMMA GrantInit == Init => GrantInv
  BY DEF Init, GrantInv, ProofChecked, AccessGranted, RefreshGranted

LEMMA GrantInvariant == Spec => [](TypeInv /\ GrantInv)
<1>1. UNCHANGED vars /\ GrantInv => GrantInv'
  BY DEF vars, tables, locals, GrantInv, ProofChecked, AccessGranted, RefreshGranted,
     Granted, Consumed
<1> QED
  BY <1>1, TypeInit, TypeStep, GrantInit, GrantStep, PTL DEF Spec

(* Nobody gets a token but by a code that the same client exchanged with   *)
(* the verifier of its challenge, and no refresh changes whose it is.      *)
THEOREM TokensGrantedHolds == Spec => []TokensGranted
<1>1. TypeInv /\ GrantInv => TokensGranted
  BY GrantedRows DEF GrantInv
<1> QED
  BY <1>1, GrantInvariant, PTL

(* Only POST /oauth/authorize makes a code, so without a user there is     *)
(* none, and every token goes back to one.                                 *)
NoCodes == \A k \in Codes : codes[k] = Null

LEMMA NoCodesStep == TypeInv /\ NoCodes /\ ~UserOnRequest /\ [Next]_vars => NoCodes'
<1> SUFFICES ASSUME TypeInv, NoCodes, ~UserOnRequest, [Next]_vars PROVE codes' = codes
  BY DEF NoCodes
<1>1. ASSUME NEW r \in Requests, StepOf(r) PROVE codes' = codes
  <2>1. \A k \in Codes : \A c, x : ~CodeMatches(k, c, x)
    BY DEF NoCodes, CodeMatches, HasRow
  <2>2. \A c \in Clients, k \in Codes, x \in Uris, v \in Verifiers \cup {Null} :
          ~ConsumeCode(r, c, k, x, v)
    BY <2>1 DEF ConsumeCode
  <2> QED
    BY <1>1, <2>2 DEF StepOf, Refuses, Verified, RefreshReads, RevokeRefreshReads,
       SpendRefresh, CreateAccess, CreateRefresh, RevokeRefresh, Cascade,
       RevokeAccessReads, RevokeAccess, Validate, tables
<1>2. ASSUME NEW c \in Clients, Register(c) PROVE codes' = codes
  BY <1>2 DEF Register
<1>3. CASE Tick \/ UNCHANGED vars
  BY <1>3 DEF Tick, vars, tables
<1>4. \A k, c, u, s, x, v : ~Authorize(k, c, u, s, x, v)
  BY DEF Authorize
<1> QED
  BY <1>1, <1>2, <1>3, <1>4, StepKinds

(* With the routes as they are, where no guard sets req.user, the tables   *)
(* of codes and tokens stay empty, whatever requests come in.              *)
THEOREM NothingWithoutUserHolds == Spec => []NothingWithoutUser
<1>1. Init /\ ~UserOnRequest => NoCodes
  BY DEF Init, NoCodes
<1>2. TypeInv /\ GrantInv /\ (~UserOnRequest => NoCodes) => NothingWithoutUser
  <2> SUFFICES ASSUME TypeInv, GrantInv, ~UserOnRequest, NoCodes
               PROVE  /\ \A k \in Codes : ~HasRow(codes, k)
                      /\ Rows(access) \cup Rows(refresh) = {}
    BY DEF NothingWithoutUser
  <2>1. \A row : ~Granted(row)
    BY DEF Granted, Consumed, TypeInv, Presented, Presents, NoCodes
  <2>2. \A row \in Rows(access) \cup Rows(refresh) : Granted(row)
    BY GrantedRows DEF GrantInv, TokensGranted
  <2> QED
    BY <2>1, <2>2 DEF NoCodes, HasRow
<1>3. (~UserOnRequest => NoCodes) /\ TypeInv /\ [Next]_vars => (~UserOnRequest => NoCodes)'
  BY NoCodesStep
<1>4. Init => (~UserOnRequest => NoCodes)
  BY <1>1
<1> QED
  BY <1>2, <1>3, <1>4, GrantInvariant, PTL DEF Spec

----------------------------------------------------------------------------
(* A step leaves a request as it is, unless it is a step of that request.  *)
Unmoved(q) ==
  /\ pc'[q] = pc[q] /\ answer'[q] = answer[q] /\ token'[q] = token[q]
  /\ seen'[q] = seen[q] /\ made'[q] = made[q] /\ before'[q] = before[q]

LEMMA OnlyOneMoves ==
  ASSUME TypeInv, Next, NEW q \in Requests
  PROVE  Unmoved(q) \/ StepOf(q)
<1> USE DEF TypeInv, OAuthTypeOK, Unmoved, tables, locals
<1>1. ASSUME NEW r \in Requests, StepOf(r), r # q PROVE Unmoved(q)
  <2>1. CASE \/ Refuses(r) \/ Verified(r) \/ SpendRefresh(r) \/ RevokeRefresh(r)
             \/ Cascade(r) \/ RevokeAccess(r)
             \/ \E a \in ATokens : CreateAccess(r, a)
             \/ \E t \in RTokens : CreateRefresh(r, t)
    BY <1>1, <2>1 DEF Refuses, Verified, SpendRefresh, RevokeRefresh, Cascade,
       RevokeAccess, CreateAccess, CreateRefresh, Answer, Await
  <2>2. CASE \/ \E c \in Clients, k \in Codes, x \in Uris,
                   v \in Verifiers \cup {Null} : ConsumeCode(r, c, k, x, v)
             \/ \E c \in Clients, t \in RTokens :
                   RefreshReads(r, c, t) \/ RevokeRefreshReads(r, c, t)
             \/ \E c \in Clients, a \in ATokens : RevokeAccessReads(r, c, a)
             \/ \E a \in ATokens : Validate(r, a)
    BY <1>1, <2>2 DEF ConsumeCode, RefreshReads, RevokeRefreshReads,
       RevokeAccessReads, Validate, Sends, Answer, Await
  <2> QED
    BY <1>1, <2>1, <2>2 DEF StepOf
<1>2. ASSUME NEW k \in Codes, NEW c \in Clients, NEW u \in Users, NEW s \in Scopes,
             NEW x \in Uris, NEW v \in Verifiers, Authorize(k, c, u, s, x, v)
      PROVE  Unmoved(q)
  BY <1>2 DEF Authorize
<1>3. (\E c \in Clients : Register(c)) \/ Tick \/ UNCHANGED vars => Unmoved(q)
  BY DEF Register, Tick, vars
<1> QED
  BY <1>1, <1>2, <1>3, StepKinds

(* The request has marked the refresh token that it presented: it is past  *)
(* the update of refreshTokens, or past that of revokeToken.               *)
Spent(r) == answer[r] \in {"served", "revoked"} \/ made[r] # Null

Marking(r) ==
  \/ pc[r] \in {"createAccess", "createRefresh", "cascade"}
  \/ Spent(r)

Marked ==
  \A r \in Requests :
    token[r] \in RTokens /\ Marking(r) => refresh[token[r]].revokedAt # Null

(* Request q had spent or revoked the token of r before r was sent.        *)
SpentBefore(q, r) ==
  /\ token[q] \in RTokens /\ token[r] = token[q]
  /\ Spent(q)
  /\ q \in before[r]

SpentSeen ==
  \A q, r \in Requests :
    SpentBefore(q, r) /\ pc[r] = "checkRefresh" => seen[r] # Null

SpentInv == Marked /\ SpentSeen /\ SpentNotServed

LEMMA MarkedStep == TypeInv /\ Marked /\ Next => Marked'
<1> SUFFICES ASSUME TypeInv, Marked, Next, NEW r \in Requests,
                    token'[r] \in RTokens, Marking(r)'
             PROVE  refresh'[token'[r]].revokedAt # Null
  BY DEF Marked
<1>1. ASSUME Marking(r), pc[r] # "idle" PROVE refresh'[token'[r]].revokedAt # Null
  <2>1. token'[r] = token[r] /\ refresh[token[r]] # Null
    BY <1>1, StepKeeps DEF Kept, RequestKept, TypeInv, Presented, Presents
  <2> QED
    BY <1>1, <2>1, StepKeeps DEF Kept, RefreshKept, Marked
<1>2. CASE Unmoved(r)
  BY <1>1, <1>2 DEF Unmoved, Marking, Spent, TypeInv, Presented, Presents, OAuthTypeOK
<1>3. CASE StepOf(r)
  <2> USE DEF TypeInv, OAuthTypeOK, tables, locals
  <2>1. CASE SpendRefresh(r) \/ RevokeRefresh(r)
    <3>1. token[r] \in RTokens /\ refresh[token[r]] # Null /\ token'[r] = token[r]
      BY <2>1 DEF SpendRefresh, RevokeRefresh, Presented, Presents
    <3>2. refresh'[token[r]].revokedAt = now
      BY <2>1, <3>1, RevokedAlone DEF SpendRefresh, RevokeRefresh
    <3> QED
      BY <3>1, <3>2, OAuthNull
  <2>2. CASE Cascade(r) \/ (\E a \in ATokens : CreateAccess(r, a))
             \/ (\E t \in RTokens : CreateRefresh(r, t))
    BY <1>1, <2>2 DEF Marking, Cascade, CreateAccess, CreateRefresh
  <2>3. CASE Verified(r) \/ RevokeAccess(r)
    BY <2>3, OAuthPrefixes DEF Verified, RevokeAccess, Presented, Presents
  <2>4. CASE Refuses(r)
    BY <1>1, <2>4 DEF Refuses, Refusals, Answer, Marking, Spent, Presented, Presents
  <2>5. CASE \/ \E c \in Clients, k \in Codes, x \in Uris,
                   v \in Verifiers \cup {Null} : ConsumeCode(r, c, k, x, v)
             \/ \E c \in Clients, t \in RTokens :
                   RefreshReads(r, c, t) \/ RevokeRefreshReads(r, c, t)
             \/ \E c \in Clients, a \in ATokens : RevokeAccessReads(r, c, a)
             \/ \E a \in ATokens : Validate(r, a)
    BY <2>5 DEF ConsumeCode, RefreshReads, RevokeRefreshReads,
       RevokeAccessReads, Validate, Sends, Answer, Await, Marking, Spent, Presented,
       Presents
  <2> QED
    BY <1>3, <2>1, <2>2, <2>3, <2>4, <2>5 DEF StepOf
<1> QED
  BY <1>2, <1>3, OnlyOneMoves

(* Who presents a token that an answered request had spent did so before,  *)
(* or presents it now and reads its revokedAt.                             *)
LEMMA SpentBeforeStep ==
  ASSUME TypeInv, Marked, Next, NEW q \in Requests, NEW r \in Requests,
         SpentBefore(q, r)'
  PROVE  \/ pc[r] # "idle" /\ SpentBefore(q, r)
         \/ pc[r] = "idle" /\ refresh[token'[r]].revokedAt # Null
<1> USE DEF TypeInv, OAuthTypeOK
<1>1. CASE pc[r] # "idle"
  <2>1. token'[r] = token[r] /\ before'[r] = before[r]
    BY <1>1, StepKeeps DEF Kept, RequestKept
  <2>2. pc[q] = "done"
    BY <2>1 DEF SpentBefore, Presented, Presents
  <2> QED
    BY <1>1, <2>1, <2>2, StepKeeps DEF Kept, RequestKept, SpentBefore, Spent
<1>2. CASE pc[r] = "idle"
  <2>1. token'[r] # token[r]
    BY <1>2, OAuthNull DEF SpentBefore, Presented, Presents
  <2>2. StepOf(r)
    BY <2>1, OnlyOneMoves DEF Unmoved
  <2>3. before'[r] = {p \in Requests : pc[p] = "done"}
    BY <1>2, <2>1, <2>2 DEF StepOf, Refuses, Verified, ConsumeCode, RefreshReads,
       RevokeRefreshReads, SpendRefresh, CreateAccess, CreateRefresh, RevokeRefresh,
       Cascade, RevokeAccessReads, RevokeAccess, Validate, Sends, tables, locals
  <2>4. pc[q] = "done"
    BY <2>3 DEF SpentBefore
  <2>5. token'[q] = token[q] /\ answer'[q] = answer[q] /\ made'[q] = made[q]
    BY <2>4, StepKeeps DEF Kept, RequestKept
  <2> QED
    BY <1>2, <2>5 DEF SpentBefore, Spent, Marked, Marking
<1> QED
  BY <1>1, <1>2

(* A refresh token is presented to be refreshed or to be revoked.          *)
LEMMA RefreshPresented ==
  ASSUME TypeInv, NEW r \in Requests, pc[r] = "idle", StepOf(r), token'[r] \in RTokens
  PROVE  \E c \in Clients, t \in RTokens :
           RefreshReads(r, c, t) \/ RevokeRefreshReads(r, c, t)
<1>1. token \in [Requests -> Codes \cup ATokens \cup RTokens \cup {Null}]
  BY DEF TypeInv, OAuthTypeOK
<1>2. token[r] = Null
  BY DEF TypeInv, Presented, Presents
<1>3. ~Refuses(r)
  BY <1>2, OAuthNull DEF Refuses, locals
<1>4. ~ \E c \in Clients, k \in Codes, x \in Uris, v \in Verifiers \cup {Null} :
        ConsumeCode(r, c, k, x, v)
  BY <1>1, OAuthPrefixes DEF ConsumeCode, Sends
<1>5. /\ ~ \E c \in Clients, a \in ATokens : RevokeAccessReads(r, c, a)
      /\ ~ \E a \in ATokens : Validate(r, a)
  BY <1>1, OAuthPrefixes DEF RevokeAccessReads, Validate, Sends
<1>6. /\ ~Verified(r) /\ ~SpendRefresh(r) /\ ~RevokeRefresh(r) /\ ~Cascade(r)
      /\ ~RevokeAccess(r) /\ ~ \E a \in ATokens : CreateAccess(r, a)
      /\ ~ \E t \in RTokens : CreateRefresh(r, t)
  BY DEF Verified, SpendRefresh, CreateAccess, CreateRefresh, RevokeRefresh, Cascade,
     RevokeAccess
<1> QED
  BY <1>3, <1>4, <1>5, <1>6 DEF StepOf

LEMMA SpentStep == TypeInv /\ SpentInv /\ Next => SpentInv'
<1> SUFFICES ASSUME TypeInv, SpentInv, Next, NEW q \in Requests, NEW r \in Requests,
                    SpentBefore(q, r)'
             PROVE  /\ pc'[r] = "checkRefresh" => seen'[r] # Null
                    /\ ~Served(r)'
  BY MarkedStep DEF SpentInv, SpentSeen, SpentNotServed, SpentBefore, Spent
<1> USE OAuthPrefixes DEF TypeInv, OAuthTypeOK, tables, locals
<1>0. token'[r] \in RTokens
  BY DEF SpentBefore
<1>1. CASE pc[r] # "idle"
  <2>1. SpentBefore(q, r) /\ token'[r] = token[r]
    BY <1>1, SpentBeforeStep, StepKeeps DEF SpentInv, Kept, RequestKept
  <2>2. ~Served(r) /\ (pc[r] = "checkRefresh" => seen[r] # Null)
    BY <2>1 DEF SpentInv, SpentSeen, SpentNotServed, SpentBefore, Spent
  <2>3. CASE Unmoved(r)
    BY <2>2, <2>3 DEF Unmoved, Served
  <2>4. CASE StepOf(r)
    <3>1. ~Verified(r)
      BY <1>0, <2>1 DEF Verified, Presented, Presents
    <3>2. ~SpendRefresh(r)
      BY <2>2 DEF SpendRefresh, Spendable
    <3> QED
      BY <1>1, <2>2, <2>4, <3>1, <3>2 DEF StepOf, Refuses, Refusals, ConsumeCode,
         RefreshReads, RevokeRefreshReads, CreateAccess, CreateRefresh, RevokeRefresh,
         Cascade, RevokeAccessReads, RevokeAccess, Validate, Sends, Answer, Await, Served
  <2> QED
    BY <2>3, <2>4, OnlyOneMoves
<1>2. CASE pc[r] = "idle"
  <2>1. refresh[token'[r]].revokedAt # Null
    BY <1>2, SpentBeforeStep DEF SpentInv
  <2>2. StepOf(r)
    BY <1>0, <1>2, OAuthNull, OnlyOneMoves DEF Unmoved, Presented, Presents
  <2>3. PICK c \in Clients, t \in RTokens :
          RefreshReads(r, c, t) \/ RevokeRefreshReads(r, c, t)
    BY <1>0, <1>2, <2>2, RefreshPresented
  <2> QED
    BY <1>2, <2>1, <2>3 DEF RefreshReads, RevokeRefreshReads, Sends, Await, Served, Presented,
       Presents
<1> QED
  BY <1>1, <1>2

LEMMA SpentInit == Init => SpentInv
  BY DEF Init, SpentInv, Marked, Marking, Spent, SpentSeen, SpentBefore, SpentNotServed, Served

LEMMA SpentInvariant == Spec => [](TypeInv /\ SpentInv)
<1>1. UNCHANGED vars /\ SpentInv => SpentInv'
  BY DEF vars, tables, locals, SpentInv, Marked, Marking, Spent, SpentSeen, SpentBefore,
     SpentNotServed, Served
<1> QED
  BY <1>1, TypeInit, TypeStep, SpentInit, SpentStep, PTL DEF Spec

(* A refresh token that was answered with new tokens, or was revoked, gets *)
(* nobody who presents it afterwards anything, whatever is in flight; nor  *)
(* does one that a request had spent before it failed.                     *)
THEOREM SpentNotServedHolds == Spec => []SpentNotServed
<1>1. SpentInv => SpentNotServed
  BY DEF SpentInv
<1> QED
  BY <1>1, SpentInvariant, PTL

----------------------------------------------------------------------------
(* Which steps answer a request "revoked" or "accepted".                   *)
LEMMA RevokedBy ==
  ASSUME TypeInv, NEW r \in Requests, StepOf(r), pc[r] # "done"
  PROVE  /\ answer'[r] = "revoked" => Cascade(r) \/ RevokeAccess(r)
         /\ answer'[r] = "accepted" => \E a \in ATokens : Validate(r, a)
<1>0. answer[r] = "none" /\ answer = [q \in Requests |-> answer[q]]
  BY DEF TypeInv, OAuthTypeOK
<1>1. Refuses(r) => answer'[r] \in Refusals
  BY <1>0 DEF Refuses, Answer
<1>2. \/ Verified(r) \/ SpendRefresh(r) \/ RevokeRefresh(r)
      \/ \E a \in ATokens : CreateAccess(r, a)
      \/ \E c \in Clients, k \in Codes, x \in Uris, v \in Verifiers \cup {Null} :
           ConsumeCode(r, c, k, x, v)
      \/ \E c \in Clients, t \in RTokens :
           RefreshReads(r, c, t) \/ RevokeRefreshReads(r, c, t)
      \/ \E c \in Clients, a \in ATokens : RevokeAccessReads(r, c, a)
      => answer'[r] = "none"
  BY <1>0 DEF Verified, SpendRefresh, RevokeRefresh, CreateAccess, ConsumeCode,
     RefreshReads, RevokeRefreshReads, RevokeAccessReads, Await
<1>3. (\E t \in RTokens : CreateRefresh(r, t)) => answer'[r] = "served"
  BY <1>0 DEF CreateRefresh, Answer
<1>4. Cascade(r) \/ RevokeAccess(r) => answer'[r] = "revoked"
  BY <1>0 DEF Cascade, RevokeAccess, Answer
<1>5. (\E a \in ATokens : Validate(r, a)) => answer'[r] = "accepted"
  BY <1>0 DEF Validate, Answer
<1> QED
  BY <1>1, <1>2, <1>3, <1>4, <1>5 DEF StepOf, Refusals

(* A request that was answered revokes nothing more.                       *)
LEMMA RevokedBefore ==
  ASSUME TypeInv, Next, NEW r \in Requests, NEW a \in ATokens,
         pc[r] = "done", Revoked(r, a)'
  PROVE  Revoked(r, a) /\ access[a] # Null
<1> USE DEF TypeInv, Presented, Presents, Kept, RequestKept
<1>1. /\ answer'[r] = answer[r] /\ token'[r] = token[r] /\ before'[r] = before[r]
  BY StepKeeps
<1>2. CASE token'[r] = a
  BY <1>1, <1>2 DEF Revoked
<1>3. CASE token'[r] \in RTokens /\ token'[r] # a
  <2>1. PICK q \in before'[r] :
          /\ made'[q] = a
          /\ access'[a].client = refresh'[token[r]].client
          /\ access'[a].user = refresh'[token[r]].user
    BY <1>1, <1>3 DEF Revoked
  <2>2. q \in Requests /\ q \in before[r] /\ pc[q] = "done"
    BY <1>1, <2>1 DEF OAuthTypeOK
  <2>3. made[q] = a
    BY <2>1, <2>2, StepKeeps
  <2>4. access[a] # Null
    BY <2>2, <2>3, OAuthNull DEF OAuthTypeOK, HasRow
  <2>5. refresh[token[r]] # Null /\ token[r] \in RTokens
    BY <1>1, <1>3
  <2>6. SameGrant(access'[a], access[a]) /\ SameGrant(refresh'[token[r]], refresh[token[r]])
    BY <2>4, <2>5, StepKeeps DEF AccessKept, RefreshKept
  <2> QED
    BY <1>1, <1>3, <2>1, <2>2, <2>3, <2>4, <2>6 DEF Revoked, SameGrant
<1> QED
  BY <1>2, <1>3 DEF Revoked

LEMMA CascadeStep ==
  TypeInv /\ CascadeReachesGranted /\ Next => CascadeReachesGranted'
<1> SUFFICES ASSUME TypeInv, CascadeReachesGranted, Next, NEW r \in Requests,
                    NEW a \in ATokens, Revoked(r, a)'
             PROVE  access'[a] # Null => access'[a].revokedAt # Null
  BY DEF CascadeReachesGranted, LiveIn, HasRow
<1>1. CASE pc[r] = "done"
  <2>1. access[a] # Null /\ access[a].revokedAt # Null
    BY <1>1, RevokedBefore DEF CascadeReachesGranted, LiveIn, HasRow
  <2> QED
    BY <2>1, StepKeeps DEF Kept, AccessKept
<1>2. CASE pc[r] # "done"
  <2>1. StepOf(r)
    BY <1>2, OnlyOneMoves DEF Unmoved, Revoked, TypeInv, OAuthTypeOK
  <2>2. Cascade(r) \/ RevokeAccess(r)
    BY <1>2, <2>1, RevokedBy DEF Revoked
  <2>3. CASE RevokeAccess(r)
    <3>1. /\ token[r] \in ATokens /\ access[token[r]] # Null
          /\ token'[r] = token[r]
          /\ now \in Nat
      BY <2>3 DEF RevokeAccess, TypeInv, OAuthTypeOK, Presented, Presents, locals
    <3>2. token[r] = a
      BY <3>1, OAuthPrefixes DEF Revoked
    <3> QED
      BY <2>3, <3>1, <3>2, RevokedAlone, OAuthNull DEF RevokeAccess
  <2>4. CASE Cascade(r)
    <3>1. /\ token[r] \in RTokens /\ token'[r] = token[r] /\ before'[r] = before[r]
          /\ refresh' = refresh /\ made' = made
      BY <2>4 DEF Cascade, TypeInv, Presented, Presents, locals
    <3>2. PICK q \in before[r] :
            /\ made[q] = a
            /\ access'[a].client = refresh[token[r]].client
            /\ access'[a].user = refresh[token[r]].user
      BY <3>1, OAuthPrefixes DEF Revoked
    <3>3. access[a] # Null
      BY <3>2, OAuthNull DEF TypeInv, OAuthTypeOK, HasRow
    <3>4. SameGrant(access'[a], access[a])
      BY <3>3, StepKeeps DEF Kept, AccessKept
    <3> QED
      BY <2>4, <3>2, <3>3, <3>4, CascadeRevokes DEF SameGrant
  <2> QED
    BY <2>2, <2>3, <2>4
<1> QED
  BY <1>1, <1>2

LEMMA AcceptedStep ==
  TypeInv /\ CascadeReachesGranted /\ RevokedNotAccepted /\ Next => RevokedNotAccepted'
<1> SUFFICES ASSUME TypeInv, CascadeReachesGranted, RevokedNotAccepted, Next,
                    NEW q \in Requests, NEW r \in Requests,
                    token'[r] \in ATokens, q \in before'[r],
                    Revoked(q, token[r])' , answer'[r] = "accepted"
             PROVE  FALSE
  BY DEF RevokedNotAccepted
<1> DEFINE a == token'[r]
<1>1. CASE pc[r] # "idle"
  <2>1. token'[r] = token[r] /\ before'[r] = before[r]
    BY <1>1, StepKeeps DEF Kept, RequestKept
  <2>2. Revoked(q, token[r])
    BY <2>1, RevokedBefore DEF TypeInv, Presented, Presents, Revoked
  <2>3. answer[r] # "accepted"
    BY <2>1, <2>2 DEF RevokedNotAccepted
  <2>4. StepOf(r) /\ pc[r] # "done"
    BY <2>3, OnlyOneMoves, StepKeeps DEF Unmoved, Kept, RequestKept
  <2>5. PICK b \in ATokens : Validate(r, b)
    BY <2>4, RevokedBy
  <2> QED
    BY <1>1, <2>5 DEF Validate, Sends
<1>2. CASE pc[r] = "idle"
  <2>1. StepOf(r)
    BY <1>2, OnlyOneMoves DEF Unmoved, TypeInv, OAuthTypeOK
  <2>2. PICK b \in ATokens : Validate(r, b)
    BY <1>2, <2>1, RevokedBy
  <2>3. token'[r] = b /\ pc[q] = "done"
    BY <2>2 DEF Validate, Sends, TypeInv, OAuthTypeOK
  <2>4. Revoked(q, b)
    BY <2>3, RevokedBefore DEF Revoked
  <2> QED
    BY <2>2, <2>4 DEF CascadeReachesGranted, Validate, Valid
<1> QED
  BY <1>1, <1>2

RevocationInv == TypeInv /\ CascadeReachesGranted /\ RevokedNotAccepted

LEMMA RevocationInvariant == Spec => []RevocationInv
<1>1. Init => CascadeReachesGranted /\ RevokedNotAccepted
  BY DEF Init, CascadeReachesGranted, RevokedNotAccepted, Revoked
<1>2. UNCHANGED vars /\ CascadeReachesGranted /\ RevokedNotAccepted
        => CascadeReachesGranted' /\ RevokedNotAccepted'
  BY DEF vars, tables, locals, CascadeReachesGranted, RevokedNotAccepted, Revoked,
     LiveIn, HasRow
<1>3. RevocationInv /\ [Next]_vars => RevocationInv'
  BY <1>2, TypeStep, CascadeStep, AcceptedStep DEF RevocationInv
<1> QED
  BY <1>1, <1>3, TypeInit, PTL DEF Spec, RevocationInv

(* Once the revocation of a refresh token is answered, every access token  *)
(* that had been made for its client and user before it was sent is dead   *)
(* for good, the ones whose creation was never answered included.          *)
THEOREM CascadeReachesGrantedHolds == Spec => []CascadeReachesGranted
<1>1. RevocationInv => CascadeReachesGranted
  BY DEF RevocationInv
<1> QED
  BY <1>1, RevocationInvariant, PTL

(* The MCP endpoint accepts no access token whose revocation was answered  *)
(* before the call was sent, by the cascade or directly.                   *)
THEOREM RevokedNotAcceptedHolds == Spec => []RevokedNotAccepted
<1>1. RevocationInv => RevokedNotAccepted
  BY DEF RevocationInv
<1> QED
  BY <1>1, RevocationInvariant, PTL

----------------------------------------------------------------------------
(* What a refresh makes is made for the client and the user of the refresh *)
(* token: that is why the cascade finds it.                                *)
MadeFor ==
  \A q \in Requests :
    made[q] # Null /\ token[q] \in RTokens =>
      /\ access[made[q]].client = refresh[token[q]].client
      /\ access[made[q]].user = refresh[token[q]].user

LEMMA MadeStep == TypeInv /\ MadeFor /\ Next => MadeFor'
<1> SUFFICES ASSUME TypeInv, MadeFor, Next, NEW q \in Requests,
                    made'[q] # Null, token'[q] \in RTokens
             PROVE  /\ access'[made'[q]].client = refresh'[token'[q]].client
                    /\ access'[made'[q]].user = refresh'[token'[q]].user
  BY DEF MadeFor
<1>1. CASE made'[q] = made[q]
  <2>1. /\ pc[q] # "idle" /\ token'[q] = token[q]
        /\ made[q] \in ATokens /\ access[made[q]] # Null
        /\ token[q] \in RTokens /\ refresh[token[q]] # Null
    BY <1>1, StepKeeps DEF Kept, RequestKept, TypeInv, OAuthTypeOK, HasRow, Presented,
       Presents
  <2>2. SameGrant(access'[made[q]], access[made[q]])
        /\ SameGrant(refresh'[token[q]], refresh[token[q]])
    BY <2>1, StepKeeps DEF Kept, AccessKept, RefreshKept
  <2> QED
    BY <1>1, <2>1, <2>2 DEF MadeFor, SameGrant
<1>2. CASE made'[q] # made[q]
  <2>1. PICK a \in ATokens : CreateAccess(q, a)
    BY <1>2, OnlyOneMoves DEF Unmoved, StepOf, Refuses, Verified, ConsumeCode,
       RefreshReads, RevokeRefreshReads, SpendRefresh, CreateRefresh, RevokeRefresh,
       Cascade, RevokeAccessReads, RevokeAccess, Validate, locals
  <2>2. /\ made'[q] = a /\ token'[q] = token[q] /\ refresh' = refresh
        /\ access'[a] = NewToken(Grant(q), AccessLife(Grant(q).scope))
    BY <2>1 DEF CreateAccess, TypeInv, OAuthTypeOK
  <2>3. Grant(q) = refresh[token[q]]
    BY <2>2, OAuthPrefixes DEF Grant
  <2> QED
    BY <2>2, <2>3 DEF NewToken
<1> QED
  BY <1>1, <1>2

OverlapInv == RevocationInv /\ SpentInv /\ MadeFor

LEMMA OverlapInvariant == Spec => []OverlapInv
<1>1. Init => MadeFor
  BY DEF Init, MadeFor
<1>2. UNCHANGED vars /\ MadeFor => MadeFor'
  BY DEF vars, tables, locals, MadeFor
<1>3. RevocationInv => TypeInv
  BY DEF RevocationInv
<1>4. RevocationInv /\ MadeFor /\ [Next]_vars => MadeFor'
  BY <1>2, <1>3, MadeStep
<1> QED
  BY <1>1, <1>4, RevocationInvariant, SpentInvariant, PTL DEF Spec, OverlapInv

(* The exact window of a revocation: an access token made from a refresh   *)
(* token outlives the revocation of it only if the refresh and the         *)
(* revocation overlapped.                                                  *)
THEOREM CascadeMissesOverlapHolds == Spec => []CascadeMissesOverlap
<1>1. OverlapInv => CascadeMissesOverlap
  <2> SUFFICES ASSUME OverlapInv, NEW r \in Requests, NEW q \in Requests,
                      answer[r] = "revoked", token[r] \in RTokens,
                      token[q] = token[r], made[q] # Null, LiveIn(access, made[q])
               PROVE  q \notin before[r] /\ r \notin before[q]
    BY DEF CascadeMissesOverlap
  <2>1. q \notin before[r]
    <3>1. made[q] \in ATokens
      BY DEF OverlapInv, RevocationInv, TypeInv, OAuthTypeOK
    <3>2. q \in before[r] => Revoked(r, made[q])
      BY DEF OverlapInv, MadeFor, Revoked
    <3> QED
      BY <3>1, <3>2 DEF OverlapInv, RevocationInv, CascadeReachesGranted
  <2>2. r \notin before[q]
    BY DEF OverlapInv, SpentInv, SpentNotServed, Served
  <2> QED
    BY <2>1, <2>2
<1> QED
  BY <1>1, OverlapInvariant, PTL

----------------------------------------------------------------------------
(* OAuthTokens implements OAuthGrants: every step of the server, however   *)
(* its requests interleave or fail, issues a code, spends one, mints a     *)
(* token from a redeemed one, revokes tokens of one client and user, or    *)
(* changes nothing of what the grants promise.                             *)

(* The refinement mapping, by name.                                        *)
Consent == [k \in Codes |-> ConsentOf(codes[k])]
Fates == [k \in Codes |-> Fate(k)]
Holds == [t \in ATokens \cup RTokens |-> ConsentOf(TokenRow(t))]
RevokedTokens ==
  {t \in ATokens \cup RTokens : TokenRow(t) # Null /\ TokenRow(t).revokedAt # Null}

RefInv == TypeInv /\ CodeUsedOnce /\ GrantInv

LEMMA RowsSplit ==
  /\ \A a \in ATokens : TokenRow(a) = access[a] /\ TokenRow(a)' = access'[a]
  /\ \A t \in RTokens : TokenRow(t) = refresh[t] /\ TokenRow(t)' = refresh'[t]
  BY OAuthPrefixes DEF TokenRow

LEMMA SameConsent ==
  ASSUME NEW x, NEW y, x # Null, y # Null, SameGrant(x, y)
  PROVE  ConsentOf(x) = ConsentOf(y)
  BY DEF ConsentOf, SameGrant

(* A consent is never Null.                                                *)
LEMMA ConsentType ==
  ASSUME NEW row, row.client \in Clients, row.user \in Users, row.scope \in Scopes,
         row # Null
  PROVE  /\ ConsentOf(row) \in [client : Clients, user : Users, scope : Scopes]
         /\ ConsentOf(row) # Null
         /\ ConsentOf(row).client = row.client
         /\ ConsentOf(row).user = row.user
  BY OAuthNull DEF ConsentOf

LEMMA ConsentsKept ==
  ASSUME TypeInv, Next, \A k \in Codes : codes[k] = Null => codes'[k] = Null
  PROVE  Consent' = Consent
<1>1. ASSUME NEW k \in Codes PROVE ConsentOf(codes'[k]) = ConsentOf(codes[k])
  <2>1. CASE codes[k] = Null
    BY <2>1
  <2>2. CASE codes[k] # Null
    BY <2>2, StepKeeps, SameConsent DEF Kept, CodesKept
  <2> QED
    BY <2>1, <2>2
<1> QED
  BY <1>1 DEF Consent

(* The requests that hold a code keep it, and the verifier they presented. *)
LEMMA HeldKept ==
  ASSUME TypeInv, Next, NEW q \in Requests, token[q] \in Codes
  PROVE  /\ token'[q] = token[q] /\ proof'[q] = proof[q]
         /\ codes'[token[q]].challenge = codes[token[q]].challenge
<1>1. codes[token[q]] # Null /\ pc[q] # "idle"
  BY OAuthNull DEF TypeInv, Presented, Presents
<1> QED
  BY <1>1, StepKeeps DEF Kept, CodesKept, RequestKept

LEMMA FateKept ==
  ASSUME TypeInv, Next, NEW k \in Codes,
         \A q \in Requests : token'[q] = k => token[q] = k
  PROVE  Fate(k)' = Fate(k)
<1>1. \A q \in Requests : token'[q] = k <=> token[q] = k
  BY HeldKept
<1>2. \A q \in Requests : token[q] = k =>
        (proof'[q] = codes'[k].challenge <=> proof[q] = codes[k].challenge)
  BY HeldKept
<1> QED
  BY <1>1, <1>2 DEF Fate

LEMMA FatesKept ==
  ASSUME TypeInv, Next, \A q \in Requests : token'[q] \in Codes => token'[q] = token[q]
  PROVE  Fates' = Fates
<1>1. \A k \in Codes : Fate(k)' = Fate(k)
  BY FateKept
<1> QED
  BY <1>1 DEF Fates

(* What a token stands for never changes.                                  *)
LEMMA HoldKept ==
  ASSUME TypeInv, Next, NEW t \in ATokens \cup RTokens, TokenRow(t) # Null
  PROVE  /\ ConsentOf(TokenRow(t))' = ConsentOf(TokenRow(t))
         /\ t \in RevokedTokens => t \in RevokedTokens'
<1>1. /\ TokenRow(t)' # Null /\ SameGrant(TokenRow(t)', TokenRow(t))
      /\ TokenRow(t).revokedAt # Null => TokenRow(t)'.revokedAt # Null
  BY RowsSplit, StepKeeps DEF Kept, AccessKept, RefreshKept
<1>2. ConsentOf(TokenRow(t))' = ConsentOf(TokenRow(t))
  BY <1>1, SameConsent DEF ConsentOf
<1> QED
  BY <1>1, <1>2 DEF RevokedTokens

LEMMA HoldsKept ==
  ASSUME TypeInv, Next,
         \A a \in ATokens : access[a] = Null => access'[a] = Null,
         \A t \in RTokens : refresh[t] = Null => refresh'[t] = Null
  PROVE  Holds' = Holds
<1>1. ASSUME NEW t \in ATokens \cup RTokens
      PROVE  ConsentOf(TokenRow(t))' = ConsentOf(TokenRow(t))
  <2>1. CASE TokenRow(t) # Null
    BY <2>1, HoldKept
  <2>2. CASE TokenRow(t) = Null
    BY <2>2, RowsSplit DEF ConsentOf
  <2> QED
    BY <2>1, <2>2
<1> QED
  BY <1>1 DEF Holds

----------------------------------------------------------------------------
(* A step that consumes no code, issues none and inserts no token revokes  *)
(* the tokens in T, or is a stutter.                                       *)
LEMMA RevokingStep ==
  ASSUME TypeInv, Next,
         \A k \in Codes : codes[k] = Null => codes'[k] = Null,
         \A q \in Requests : token'[q] \in Codes => token'[q] = token[q],
         \A a \in ATokens : access[a] = Null => access'[a] = Null,
         \A t \in RTokens : refresh[t] = Null => refresh'[t] = Null,
         NEW T \in SUBSET (ATokens \cup RTokens),
         \A t \in T : TokenRow(t) # Null,
         \A s, t \in T : /\ TokenRow(s).client = TokenRow(t).client
                         /\ TokenRow(s).user = TokenRow(t).user,
         \A t \in T : TokenRow(t)'.revokedAt # Null,
         \A t \in (ATokens \cup RTokens) \ T :
           TokenRow(t)' # Null => TokenRow(t)'.revokedAt = TokenRow(t).revokedAt
  PROVE  [Grants!Next]_(Grants!vars)
<1>1. Consent' = Consent /\ Fates' = Fates /\ Holds' = Holds
  BY ConsentsKept, FatesKept, HoldsKept
<1>2. RevokedTokens' = RevokedTokens \cup T
  <2>1. ASSUME NEW t \in ATokens \cup RTokens
        PROVE  t \in RevokedTokens' <=> t \in RevokedTokens \/ t \in T
    <3>1. TokenRow(t) # Null <=> TokenRow(t)' # Null
      BY RowsSplit, StepKeeps DEF Kept, AccessKept, RefreshKept
    <3> QED
      BY <3>1 DEF RevokedTokens
  <2> QED
    BY <2>1 DEF RevokedTokens
<1>3. /\ \A t \in T : Holds[t] # Null
      /\ \A s, t \in T : /\ Holds[s].client = Holds[t].client
                         /\ Holds[s].user = Holds[t].user
  <2>1. ASSUME NEW t \in T
        PROVE  /\ Holds[t] # Null
               /\ Holds[t].client = TokenRow(t).client
               /\ Holds[t].user = TokenRow(t).user
    <3>1. TokenRow(t) \in Token
      BY RowTypes, RowsSplit
    <3> QED
      BY <3>1, ConsentType DEF Holds, Token
  <2> QED
    BY <2>1
<1>4. Grants!Revoke(T)
  BY <1>1, <1>2, <1>3 DEF Grants!Revoke, Consent, Fates, Holds, RevokedTokens
<1> QED
  BY <1>4 DEF Grants!Next

LEMMA QuietStep ==
  ASSUME TypeInv, Next, UNCHANGED <<codes, access, refresh>>,
         \A q \in Requests : token'[q] \in Codes => token'[q] = token[q]
  PROVE  [Grants!Next]_(Grants!vars)
<1>1. \A t \in ATokens \cup RTokens : TokenRow(t)' = TokenRow(t)
  BY DEF TokenRow
<1>2. {} \in SUBSET (ATokens \cup RTokens)
  OBVIOUS
<1> QED
  BY <1>1, <1>2, RevokingStep

LEMMA IssueStep ==
  ASSUME TypeInv, Next, NEW k \in Codes, NEW c \in Clients, NEW u \in Users,
         NEW s \in Scopes, NEW x \in Uris, NEW v \in Verifiers,
         Authorize(k, c, u, s, x, v)
  PROVE  [Grants!Next]_(Grants!vars)
<1> DEFINE g == [client |-> c, user |-> u, scope |-> s]
<1>1. /\ codes[k] = Null
      /\ codes' = [codes EXCEPT ![k] =
                 [client |-> c, user |-> u, scope |-> s, uri |-> x,
                  challenge |-> v, expiresAt |-> now + CodeTTL, usedAt |-> Null]]
      /\ UNCHANGED <<access, refresh, token>>
  BY DEF Authorize, HasRow, locals
<1>2. codes'[k] # Null
  <2>1. [client |-> c, user |-> u, scope |-> s, uri |-> x,
         challenge |-> v, expiresAt |-> now + CodeTTL, usedAt |-> Null] \in Code
    BY OAuthBounds DEF TypeInv, OAuthTypeOK, Code, Time
  <2> QED
    BY <1>1, <2>1, OAuthNull DEF TypeInv, OAuthTypeOK
<1>3. ConsentOf(codes'[k]) = g /\ \A j \in Codes : j # k => codes'[j] = codes[j]
  BY <1>1, <1>2 DEF ConsentOf, TypeInv, OAuthTypeOK
<1>4. Consent' = [Consent EXCEPT ![k] = g] /\ Consent[k] = Null
  BY <1>1, <1>3 DEF Consent, ConsentOf
<1>5. Fates' = Fates
  BY <1>1, FatesKept
<1>6. Holds' = Holds /\ RevokedTokens' = RevokedTokens
  BY <1>1 DEF Holds, RevokedTokens, TokenRow, ConsentOf
<1>7. Grants!Issue(k, g)
  BY <1>4, <1>5, <1>6 DEF Grants!Issue, Consent, Fates, Holds, RevokedTokens
<1> QED
  BY <1>7 DEF Grants!Next

LEMMA SpendStep ==
  ASSUME TypeInv, CodeUsedOnce, Next, NEW r \in Requests, NEW c \in Clients,
         NEW k \in Codes, NEW x \in Uris, NEW v \in Verifiers \cup {Null},
         ConsumeCode(r, c, k, x, v)
  PROVE  [Grants!Next]_(Grants!vars)
<1> DEFINE f == IF v = codes[k].challenge THEN "redeemed" ELSE "burnt"
<1>1. /\ codes[k] # Null /\ codes[k].usedAt = Null
      /\ UNCHANGED <<access, refresh>>
      /\ \A q \in Requests : token'[q] = IF q = r THEN k ELSE token[q]
      /\ proof'[r] = v
  BY DEF ConsumeCode, CodeMatches, HasRow, Sends, TypeInv, OAuthTypeOK
<1>2. \A q \in Requests : token[q] # k
  BY <1>1 DEF CodeUsedOnce, Consumed
<1>3. \A j \in Codes : j # k => codes'[j] = codes[j]
  BY CodeConsumed
<1>4. codes'[k] # Null /\ codes'[k].challenge = codes[k].challenge
  BY <1>1, CodeConsumed DEF CodesKept
<1>5. Consent' = Consent
  BY <1>1, <1>3, ConsentsKept
<1>6. Consent[k] # Null
  BY <1>1, RowTypes, ConsentType DEF Consent, Code
<1>7. Fate(k) = "open" /\ Fate(k)' = f
  <2>1. \A q \in Requests : token'[q] = k <=> q = r
    BY <1>1, <1>2
  <2> QED
    BY <1>1, <1>2, <1>4, <2>1 DEF Fate
<1>8. \A j \in Codes : j # k => Fate(j)' = Fate(j)
  BY <1>1, FateKept
<1>9. Fates' = [Fates EXCEPT ![k] = f] /\ Fates[k] = "open"
  BY <1>7, <1>8 DEF Fates
<1>10. Holds' = Holds /\ RevokedTokens' = RevokedTokens
  BY <1>1 DEF Holds, RevokedTokens, TokenRow, ConsentOf
<1>11. f \in {"redeemed", "burnt"}
  OBVIOUS
<1> HIDE DEF f
<1>12. Grants!Spend(k, f)
  BY <1>5, <1>6, <1>9, <1>10 DEF Grants!Spend, Consent, Fates, Holds, RevokedTokens
<1> QED
  BY <1>11, <1>12 DEF Grants!Next

(* A token is minted for the consent of the code behind it.                *)
LEMMA MintStep ==
  ASSUME TypeInv, GrantInv, Next, NEW t \in ATokens \cup RTokens,
         NEW g, NEW life, Granted(g), TokenRow(t) = Null,
         g.client \in Clients, g.user \in Users, g.scope \in Scopes,
         TokenRow(t)' = NewToken(g, life),
         TokenRow(t)' # Null,
         \A s \in (ATokens \cup RTokens) \ {t} : TokenRow(s)' = TokenRow(s),
         UNCHANGED <<codes, token>>
  PROVE  [Grants!Next]_(Grants!vars)
<1>1. PICK q \in Requests :
        /\ token[q] \in Codes
        /\ proof[q] = codes[token[q]].challenge
        /\ g.client = codes[token[q]].client
        /\ g.user = codes[token[q]].user
        /\ g.scope = codes[token[q]].scope
  BY DEF Granted, Consumed
<1> DEFINE k == token[q]
<1>2. codes[k] # Null
  BY <1>1 DEF TypeInv, Presented, Presents
<1>3. Fates[k] = "redeemed"
  BY <1>1 DEF Fates, Fate
<1>4. Consent[k] = [client |-> g.client, user |-> g.user, scope |-> g.scope]
  BY <1>1, <1>2 DEF Consent, ConsentOf
<1>5. ConsentOf(TokenRow(t)') = Consent[k]
  BY <1>4 DEF ConsentOf, NewToken
<1>6. Consent' = Consent /\ Fates' = Fates
  BY ConsentsKept, FatesKept
<1>7. Holds' = [Holds EXCEPT ![t] = Consent[k]] /\ Holds[t] = Null
  BY <1>5 DEF Holds, ConsentOf
<1>8. RevokedTokens' = RevokedTokens
  <2>1. TokenRow(t)'.revokedAt = Null
    BY DEF NewToken
  <2> QED
    BY <2>1 DEF RevokedTokens
<1>9. Grants!Mint(t, k)
  BY <1>3, <1>6, <1>7, <1>8 DEF Grants!Mint, Consent, Fates, Holds, RevokedTokens
<1> QED
  BY <1>1, <1>9 DEF Grants!Next

----------------------------------------------------------------------------
(* The two updates of one refresh token, that of one access token, and the *)
(* cascade.                                                                *)
LEMMA RevokeRefreshStep ==
  ASSUME TypeInv, Next, NEW r \in Requests, SpendRefresh(r) \/ RevokeRefresh(r)
  PROVE  [Grants!Next]_(Grants!vars)
<1>0. PICK t : t = token[r]
  OBVIOUS
<1>1. /\ t \in RTokens /\ refresh[t] # Null
      /\ refresh' = [refresh EXCEPT ![t].revokedAt = now]
      /\ UNCHANGED <<codes, access, token>> /\ now # Null
  BY <1>0, OAuthNull DEF SpendRefresh, RevokeRefresh, TypeInv, OAuthTypeOK, Presented,
     Presents, locals
<1>2. /\ refresh'[t].revokedAt = now
      /\ \A u \in RTokens : u # t => refresh'[u] = refresh[u]
  BY <1>1, RevokedAlone
<1>3. {t} \in SUBSET (ATokens \cup RTokens) /\ TokenRow(t) # Null
      /\ TokenRow(t)'.revokedAt # Null
  BY <1>1, <1>2, RowsSplit
<1>4. \A s \in (ATokens \cup RTokens) \ {t} : TokenRow(s)' = TokenRow(s)
  BY <1>1, <1>2, RowsSplit
<1>5. \A u \in RTokens : refresh[u] = Null => refresh'[u] = Null
  BY <1>1, <1>2
<1>6. PICK T : T = {t}
  OBVIOUS
<1>7. /\ T \in SUBSET (ATokens \cup RTokens)
      /\ \A u \in T : TokenRow(u) # Null /\ TokenRow(u)'.revokedAt # Null
      /\ \A s, u \in T : /\ TokenRow(s).client = TokenRow(u).client
                         /\ TokenRow(s).user = TokenRow(u).user
      /\ \A s \in (ATokens \cup RTokens) \ T : TokenRow(s)' = TokenRow(s)
  BY <1>3, <1>4, <1>6
<1> QED
  BY <1>1, <1>5, <1>7, RevokingStep

LEMMA RevokeAccessStep ==
  ASSUME TypeInv, Next, NEW r \in Requests, RevokeAccess(r)
  PROVE  [Grants!Next]_(Grants!vars)
<1>0. PICK t : t = token[r]
  OBVIOUS
<1>1. /\ t \in ATokens /\ access[t] # Null
      /\ access' = [access EXCEPT ![t].revokedAt = now]
      /\ UNCHANGED <<codes, refresh, token>> /\ now # Null
  BY <1>0, OAuthNull DEF RevokeAccess, TypeInv, OAuthTypeOK, Presented, Presents, locals
<1>2. /\ access'[t].revokedAt = now
      /\ \A u \in ATokens : u # t => access'[u] = access[u]
  BY <1>1, RevokedAlone
<1>3. {t} \in SUBSET (ATokens \cup RTokens) /\ TokenRow(t) # Null
      /\ TokenRow(t)'.revokedAt # Null
  BY <1>1, <1>2, RowsSplit
<1>4. \A s \in (ATokens \cup RTokens) \ {t} : TokenRow(s)' = TokenRow(s)
  BY <1>1, <1>2, RowsSplit
<1>5. \A u \in ATokens : access[u] = Null => access'[u] = Null
  BY <1>1, <1>2
<1>6. PICK T : T = {t}
  OBVIOUS
<1>7. /\ T \in SUBSET (ATokens \cup RTokens)
      /\ \A u \in T : TokenRow(u) # Null /\ TokenRow(u)'.revokedAt # Null
      /\ \A s, u \in T : /\ TokenRow(s).client = TokenRow(u).client
                         /\ TokenRow(s).user = TokenRow(u).user
      /\ \A s \in (ATokens \cup RTokens) \ T : TokenRow(s)' = TokenRow(s)
  BY <1>3, <1>4, <1>6
<1> QED
  BY <1>1, <1>5, <1>7, RevokingStep

LEMMA RevokeCascadeStep ==
  ASSUME TypeInv, Next, NEW r \in Requests, Cascade(r)
  PROVE  [Grants!Next]_(Grants!vars)
<1> DEFINE T == Cascaded(r)
<1>1. UNCHANGED <<codes, refresh, token>>
  BY DEF Cascade, locals
<1>2. \A a \in T : /\ a \in ATokens /\ access[a] # Null
                   /\ access[a].client = refresh[token[r]].client
                   /\ access[a].user = refresh[token[r]].user
  BY DEF Cascaded, LiveIn, HasRow
<1>3. \A a \in ATokens \ T : access'[a] = access[a]
  BY DEF Cascade
<1> HIDE DEF T
<1>4. \A a \in T : access'[a].revokedAt # Null
  BY <1>2, CascadeRevokes
<1>5. \A a \in ATokens : access[a] = Null => access'[a] = Null
  BY CascadeRevokes
<1>6. /\ T \in SUBSET (ATokens \cup RTokens)
      /\ \A t \in T : TokenRow(t) # Null /\ TokenRow(t)'.revokedAt # Null
      /\ \A s, t \in T : /\ TokenRow(s).client = TokenRow(t).client
                         /\ TokenRow(s).user = TokenRow(t).user
  BY <1>2, <1>4, RowsSplit
<1>7. \A s \in (ATokens \cup RTokens) \ T : TokenRow(s)' = TokenRow(s)
  BY <1>1, <1>3, RowsSplit
<1> QED
  BY <1>1, <1>5, <1>6, <1>7, RevokingStep

LEMMA CreateStep ==
  ASSUME TypeInv, GrantInv, Next, NEW r \in Requests,
         \/ \E a \in ATokens : CreateAccess(r, a)
         \/ \E t \in RTokens : CreateRefresh(r, t)
  PROVE  [Grants!Next]_(Grants!vars)
<1> DEFINE g == Grant(r)
<1>0. TypeInv'
  BY TypeStep
<1>1. pc[r] \in {"createAccess", "createRefresh"} /\ UNCHANGED <<codes, token>>
  BY DEF CreateAccess, CreateRefresh, locals
<1>2. g.client \in Clients /\ g.user \in Users /\ g.scope \in Scopes
  BY <1>1, GrantType
<1>3. Granted(g)
  <2>1. CASE token[r] \in Codes
    BY <1>1, <2>1 DEF Granted, Grant, Consumed, TypeInv, Presented, Presents, GrantInv,
       ProofChecked
  <2>2. CASE token[r] \in RTokens
    BY <2>2, OAuthPrefixes DEF Grant, TypeInv, Presented, Presents, GrantInv,
       RefreshGranted
  <2> QED
    BY <1>1, <2>1, <2>2 DEF TypeInv, Presented, Presents
<1>4. NewToken(g, AccessLife(g.scope)) # Null /\ NewToken(g, RefreshLife(g.scope)) # Null
  BY <1>1, NewTokenType, OAuthNull
<1> HIDE DEF g
<1>5. ASSUME NEW a \in ATokens, CreateAccess(r, a) PROVE [Grants!Next]_(Grants!vars)
  <2>1. /\ access[a] = Null /\ access'[a] = NewToken(g, AccessLife(g.scope))
        /\ \A b \in ATokens : b # a => access'[b] = access[b]
        /\ refresh' = refresh
    BY <1>5 DEF CreateAccess, HasRow, TypeInv, OAuthTypeOK, g
  <2>2. /\ TokenRow(a) = Null /\ TokenRow(a)' = NewToken(g, AccessLife(g.scope))
        /\ \A s \in (ATokens \cup RTokens) \ {a} : TokenRow(s)' = TokenRow(s)
    BY <2>1, RowsSplit
  <2> QED
    BY <1>1, <1>2, <1>3, <1>4, <2>2, MintStep
<1>6. ASSUME NEW t \in RTokens, CreateRefresh(r, t) PROVE [Grants!Next]_(Grants!vars)
  <2>1. /\ refresh[t] = Null /\ refresh'[t] = NewToken(g, RefreshLife(g.scope))
        /\ \A u \in RTokens : u # t => refresh'[u] = refresh[u]
        /\ access' = access
    BY <1>6 DEF CreateRefresh, HasRow, TypeInv, OAuthTypeOK, g
  <2>2. /\ TokenRow(t) = Null /\ TokenRow(t)' = NewToken(g, RefreshLife(g.scope))
        /\ \A s \in (ATokens \cup RTokens) \ {t} : TokenRow(s)' = TokenRow(s)
    BY <2>1, RowsSplit
  <2> QED
    BY <1>1, <1>2, <1>3, <1>4, <2>2, MintStep
<1> QED
  BY <1>5, <1>6

(* The initial states are initial, and every step is a step or a stutter.  *)
LEMMA RefinesInit == Init => Grants!Init
<1> SUFFICES ASSUME Init PROVE Grants!Init
  OBVIOUS
<1>1. Consent = [k \in Codes |-> Null]
  BY DEF Init, Consent, ConsentOf
<1>2. Fates = [k \in Codes |-> "open"]
  BY OAuthNull DEF Init, Fates, Fate
<1>3. Holds = [t \in ATokens \cup RTokens |-> Null] /\ RevokedTokens = {}
  BY DEF Init, Holds, RevokedTokens, TokenRow, ConsentOf
<1> QED
  BY <1>1, <1>2, <1>3 DEF Grants!Init, Consent, Fates, Holds, RevokedTokens

LEMMA RefinesStep == RefInv /\ [Next]_vars => [Grants!Next]_(Grants!vars)
<1> SUFFICES ASSUME RefInv, [Next]_vars PROVE [Grants!Next]_(Grants!vars)
  OBVIOUS
<1>1. CASE UNCHANGED vars
  <2>1. /\ Consent' = Consent /\ Fates' = Fates /\ Holds' = Holds
        /\ RevokedTokens' = RevokedTokens
    BY <1>1 DEF vars, tables, locals, Consent, Fates, Fate, Holds, RevokedTokens,
       TokenRow, ConsentOf
  <2> QED
    BY <2>1 DEF Grants!vars, Consent, Fates, Holds, RevokedTokens
<1>2. CASE Next
  <2> USE <1>2 DEF RefInv
  <2>1. ASSUME NEW k \in Codes, NEW c \in Clients, NEW u \in Users, NEW s \in Scopes,
               NEW x \in Uris, NEW v \in Verifiers, Authorize(k, c, u, s, x, v)
        PROVE  [Grants!Next]_(Grants!vars)
    BY <2>1, IssueStep
  <2>2. ASSUME NEW r \in Requests, StepOf(r) PROVE [Grants!Next]_(Grants!vars)
    <3>1. ASSUME NEW c \in Clients, NEW k \in Codes, NEW x \in Uris,
                 NEW v \in Verifiers \cup {Null}, ConsumeCode(r, c, k, x, v)
          PROVE  [Grants!Next]_(Grants!vars)
      BY <3>1, SpendStep
    <3>2. CASE SpendRefresh(r) \/ RevokeRefresh(r)
      BY <3>2, RevokeRefreshStep
    <3>3. CASE Cascade(r)
      BY <3>3, RevokeCascadeStep
    <3>4. CASE RevokeAccess(r)
      BY <3>4, RevokeAccessStep
    <3>5. CASE (\E a \in ATokens : CreateAccess(r, a))
               \/ (\E t \in RTokens : CreateRefresh(r, t))
      BY <3>5, CreateStep
    <3>6. CASE Refuses(r) \/ Verified(r)
      BY <3>6, QuietStep DEF Refuses, Verified, tables, locals
    <3>7. ASSUME NEW c, NEW t \in ATokens \cup RTokens, Sends(r, c, t, Null),
                 UNCHANGED tables
          PROVE  [Grants!Next]_(Grants!vars)
      <4>1. \A q \in Requests : token'[q] \in Codes => token'[q] = token[q]
        BY <3>7, OAuthPrefixes DEF Sends, TypeInv, OAuthTypeOK
      <4> QED
        BY <3>7, <4>1, QuietStep DEF tables
    <3>8. ASSUME NEW c \in Clients, NEW t \in RTokens,
                 RefreshReads(r, c, t) \/ RevokeRefreshReads(r, c, t)
          PROVE  [Grants!Next]_(Grants!vars)
      BY <3>7, <3>8 DEF RefreshReads, RevokeRefreshReads
    <3>9. ASSUME NEW c \in Clients, NEW a \in ATokens,
                 RevokeAccessReads(r, c, a) \/ Validate(r, a)
          PROVE  [Grants!Next]_(Grants!vars)
      BY <3>7, <3>9 DEF RevokeAccessReads, Validate
    <3>10. ASSUME NEW a \in ATokens, Validate(r, a)
           PROVE  [Grants!Next]_(Grants!vars)
      BY <3>7, <3>10 DEF Validate
    <3> QED
      BY <2>2, <3>1, <3>2, <3>3, <3>4, <3>5, <3>6, <3>8, <3>9, <3>10 DEF StepOf
  <2>3. CASE (\E c \in Clients : Register(c)) \/ Tick
    BY <2>3, QuietStep DEF Register, Tick, tables, locals
  <2> QED
    BY <1>1, <2>1, <2>2, <2>3, StepKinds
<1> QED
  BY <1>1, <1>2

(* The OAuth server keeps the promise of OAuthGrants: no interleaving,     *)
(* failure or retry redeems a code twice, mints a token that no redeemed   *)
(* code stands behind, changes what a token is for, or revives one.        *)
THEOREM GrantsRefined == Spec => GrantsImplemented
<1>1. RefInv <=> TypeInv /\ CodeUsedOnce /\ GrantInv
  BY DEF RefInv
<1> QED
  BY <1>1, RefinesInit, RefinesStep, OnceInvariant, GrantInvariant, PTL
  DEF Spec, GrantsImplemented, Grants!Spec

(* What the promise is worth to who reads a token: it carries over to the  *)
(* tables and the requests through the refinement mapping.                 *)
LEMMA PromiseNamed ==
  /\ Grants!MintedFromCodes <=>
       /\ \A t \in ATokens \cup RTokens : Holds[t] # Null =>
            \E k \in Codes : Fates[k] = "redeemed" /\ Consent[k] = Holds[t]
       /\ \A k \in Codes : Fates[k] # "open" => Consent[k] # Null
       /\ \A t \in RevokedTokens : Holds[t] # Null
  /\ Grants!NothingReturned <=>
       /\ \A k \in Codes : /\ Fates[k] # "open" => Fates'[k] = Fates[k]
                           /\ Consent[k] # Null => Consent'[k] = Consent[k]
       /\ \A t \in ATokens \cup RTokens : Holds[t] # Null => Holds'[t] = Holds[t]
       /\ RevokedTokens \subseteq RevokedTokens'
  BY DEF Grants!MintedFromCodes, Grants!NothingReturned, Consent, Fates, Holds,
     RevokedTokens

LEMMA PromiseStep ==
  ASSUME [Grants!Next]_(Grants!vars)
  PROVE  /\ Grants!MintedFromCodes => Grants!MintedFromCodes'
         /\ [Grants!NothingReturned]_(Grants!vars)
<1> DEFINE Goal == /\ Grants!MintedFromCodes => Grants!MintedFromCodes'
                   /\ Grants!NothingReturned
<1>1. Grants!MintedFromCodes' <=>
        /\ \A t \in ATokens \cup RTokens : Holds'[t] # Null =>
             \E k \in Codes : Fates'[k] = "redeemed" /\ Consent'[k] = Holds'[t]
        /\ \A k \in Codes : Fates'[k] # "open" => Consent'[k] # Null
        /\ \A t \in RevokedTokens' : Holds'[t] # Null
  BY DEF Grants!MintedFromCodes, Consent, Fates, Holds, RevokedTokens
<1>2. /\ DOMAIN Consent = Codes /\ Consent = [k \in Codes |-> Consent[k]]
      /\ DOMAIN Fates = Codes /\ Fates = [k \in Codes |-> Fates[k]]
      /\ DOMAIN Holds = ATokens \cup RTokens
      /\ Holds = [t \in ATokens \cup RTokens |-> Holds[t]]
  BY DEF Consent, Fates, Holds
<1>3. ASSUME NEW k \in Codes, NEW g, Grants!Issue(k, g) PROVE Goal
  <2>1. /\ Consent[k] = Null /\ Consent' = [Consent EXCEPT ![k] = g]
        /\ Fates' = Fates /\ Holds' = Holds /\ RevokedTokens' = RevokedTokens
    BY <1>3 DEF Grants!Issue, Consent, Fates, Holds, RevokedTokens
  <2>2. \A j \in Codes : j # k => Consent'[j] = Consent[j]
    BY <1>2, <2>1
  <2> QED
    BY <1>1, <2>1, <2>2, PromiseNamed
<1>4. ASSUME NEW k \in Codes, NEW f \in {"redeemed", "burnt"}, Grants!Spend(k, f)
      PROVE  Goal
  <2>1. /\ Consent[k] # Null /\ Fates[k] = "open" /\ Fates' = [Fates EXCEPT ![k] = f]
        /\ Consent' = Consent /\ Holds' = Holds /\ RevokedTokens' = RevokedTokens
    BY <1>4 DEF Grants!Spend, Consent, Fates, Holds, RevokedTokens
  <2>2. \A j \in Codes : j # k => Fates'[j] = Fates[j]
    BY <1>2, <2>1
  <2> QED
    BY <1>1, <2>1, <2>2, PromiseNamed
<1>5. ASSUME NEW k \in Codes, NEW t \in ATokens \cup RTokens, Grants!Mint(t, k)
      PROVE  Goal
  <2>1. /\ Fates[k] = "redeemed" /\ Holds[t] = Null
        /\ Holds' = [Holds EXCEPT ![t] = Consent[k]]
        /\ Consent' = Consent /\ Fates' = Fates /\ RevokedTokens' = RevokedTokens
    BY <1>5 DEF Grants!Mint, Consent, Fates, Holds, RevokedTokens
  <2>2. /\ Holds'[t] = Consent[k]
        /\ \A u \in ATokens \cup RTokens : u # t => Holds'[u] = Holds[u]
    BY <1>2, <2>1
  <2>3. RevokedTokens \subseteq ATokens \cup RTokens
    BY DEF RevokedTokens
  <2> QED
    BY <1>1, <2>1, <2>2, <2>3, PromiseNamed
<1>6. ASSUME NEW T \in SUBSET (ATokens \cup RTokens), Grants!Revoke(T) PROVE Goal
  <2>1. /\ \A t \in T : Holds[t] # Null
        /\ RevokedTokens' = RevokedTokens \cup T
        /\ Consent' = Consent /\ Fates' = Fates /\ Holds' = Holds
    BY <1>6 DEF Grants!Revoke, Consent, Fates, Holds, RevokedTokens
  <2> QED
    BY <1>1, <2>1, PromiseNamed
<1>7. CASE UNCHANGED Grants!vars
  <2>1. /\ Consent' = Consent /\ Fates' = Fates /\ Holds' = Holds
        /\ RevokedTokens' = RevokedTokens
    BY <1>7 DEF Grants!vars, Consent, Fates, Holds, RevokedTokens
  <2> QED
    BY <1>1, <1>7, <2>1, PromiseNamed
<1> QED
  BY <1>3, <1>4, <1>5, <1>6, <1>7 DEF Grants!Next

(* Behind every access and refresh token, however often it was refreshed,  *)
(* there is a code that its client redeemed, for the same user and scope.  *)
THEOREM MintedFromCodesHolds == Spec => []Grants!MintedFromCodes
<1>1. Grants!Init => Grants!MintedFromCodes
  BY DEF Grants!Init, Grants!MintedFromCodes
<1> QED
  <2>1. Grants!MintedFromCodes /\ [Grants!Next]_(Grants!vars) => Grants!MintedFromCodes'
    BY PromiseStep
  <2> QED
    BY <1>1, <2>1, GrantsRefined, PTL DEF GrantsImplemented, Grants!Spec

(* Nothing that was spent or revoked comes back, and no row changes whose  *)
(* it is: not by a request in flight, a failure or a retry.                *)
THEOREM NothingReturnsHolds == Spec => Grants!NothingReturns
<1>1. [Grants!Next]_(Grants!vars) => [Grants!NothingReturned]_(Grants!vars)
  BY PromiseStep
<1> QED
  BY <1>1, GrantsRefined, PTL DEF GrantsImplemented, Grants!Spec, Grants!NothingReturns
=============================================================================
