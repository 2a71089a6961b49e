----------------------------- MODULE OAuthTokens -----------------------------
(***************************************************************************)
(* The OAuth server: authorization codes, access tokens and refresh tokens *)
(* of src/features/oauth, under the token and revoke endpoints of its      *)
(* controller and the access-token check of the MCP endpoint.              *)
(*                                                                         *)
(* One action is the code from one database statement to the next.  No     *)
(* transaction spans two statements: a request may be interleaved with     *)
(* others, or fail, between any two.                                       *)
(***************************************************************************)
EXTENDS Integers, FiniteSets

CONSTANTS
  Requests,       \* calls of /oauth/authorize, /token, /revoke and /mcp
  Clients, Users, Uris, Verifiers,
  Codes, ATokens, RTokens,   \* codes, oat_ and ort_ tokens, by their hashes
  Null,
  CodeTTL, AccessTTL, RefreshTTL, McpAccessTTL, McpRefreshTTL,
  MaxTime,        \* bound of the model: the clock stops here
  UserOnRequest   \* whether req.user is set when POST /oauth/authorize runs;
                  \* no guard of the repository sets it

ASSUME OAuthBounds ==
  /\ {CodeTTL, AccessTTL, RefreshTTL, McpAccessTTL, McpRefreshTTL, MaxTime}
       \subseteq Nat
  /\ UserOnRequest \in BOOLEAN

Scopes == {"mcp", "none"}
Time == Nat \cup {Null}

(* A code keeps the S256 challenge of its verifier, which is one-to-one:   *)
(* the challenge is represented by the verifier that answers it, and Null  *)
(* is a verifier that answers none.                                        *)
Code == [client : Clients, user : Users, scope : Scopes, uri : Uris,
         challenge : Verifiers, expiresAt : Nat, usedAt : Time]
Token == [client : Clients, user : Users, scope : Scopes,
          expiresAt : Nat, revokedAt : Time]

ASSUME OAuthNull ==
  /\ Null \notin Nat
  /\ Null \notin Clients \cup Verifiers \cup Codes \cup ATokens \cup RTokens
  /\ Null \notin Code
  /\ Null \notin Token
  /\ Null \notin [client : Clients, user : Users, scope : Scopes]

(* Codes begin with auth_, access tokens with oat_, refresh tokens with    *)
(* ort_.                                                                   *)
ASSUME OAuthPrefixes ==
  /\ Codes \cap ATokens = {}
  /\ Codes \cap RTokens = {}
  /\ ATokens \cap RTokens = {}

VARIABLES
  registered,  \* the clients that have a row
  codes, access, refresh,  \* the three tables: rows, or Null
  now,
  pc,       \* pc[r]: the statement request r runs next
  client,   \* client[r]: the client that authenticated
  token,    \* token[r]: the code or token that was presented
  proof,    \* proof[r]: the code_verifier that was presented
  seen,     \* seen[r]: revokedAt of the refresh token when it was read
  made,     \* made[r]: the access token that r has created
  answer,   \* answer[r]: how r was answered
  before    \* history: before[r], the requests answered when r was sent

tables == <<registered, codes, access, refresh>>
locals == <<client, token, proof, seen, made>>
vars == <<tables, now, pc, locals, answer, before>>

----------------------------------------------------------------------------
AccessLife(s) == IF s = "mcp" THEN McpAccessTTL ELSE AccessTTL
RefreshLife(s) == IF s = "mcp" THEN McpRefreshTTL ELSE RefreshTTL

HasRow(table, t) == table[t] # Null
LiveIn(table, t) == HasRow(table, t) /\ table[t].revokedAt = Null

NewToken(g, life) ==
  [client |-> g.client, user |-> g.user, scope |-> g.scope,
   expiresAt |-> now + life, revokedAt |-> Null]

(* What createTokens is called with: the row of the code, or of the        *)
(* refresh token; neither's client, user or scope is ever updated.         *)
Grant(r) == IF token[r] \in Codes THEN codes[token[r]] ELSE refresh[token[r]]

(* A request is sent with a client id, its good secret, and a token.       *)
Sends(r, c, t, v) ==
  /\ pc[r] = "idle"
  /\ client' = [client EXCEPT ![r] = c]
  /\ token' = [token EXCEPT ![r] = t]
  /\ proof' = [proof EXCEPT ![r] = v]
  /\ before' = [before EXCEPT ![r] = {q \in Requests : pc[q] = "done"}]

Answer(r, a) ==
  /\ answer' = [answer EXCEPT ![r] = a]
  /\ pc' = [pc EXCEPT ![r] = "done"]

(* A call that is refused on arrival changes nothing else, and what it     *)
(* presented is not kept.                                                  *)
Refuse(r) ==
  /\ pc[r] = "idle"
  /\ Answer(r, "refused")
  /\ UNCHANGED <<tables, now, locals, before>>

Await(r, w) ==
  /\ pc' = [pc EXCEPT ![r] = w]
  /\ UNCHANGED answer

Init ==
  /\ registered = {}
  /\ codes = [k \in Codes |-> Null]
  /\ access = [a \in ATokens |-> Null]
  /\ refresh = [t \in RTokens |-> Null]
  /\ now = 0
  /\ pc = [r \in Requests |-> "idle"]
  /\ client = [r \in Requests |-> Null]
  /\ token = [r \in Requests |-> Null]
  /\ proof = [r \in Requests |-> Null]
  /\ seen = [r \in Requests |-> Null]
  /\ made = [r \in Requests |-> Null]
  /\ answer = [r \in Requests |-> "none"]
  /\ before = [r \in Requests |-> {}]

----------------------------------------------------------------------------
(* registerClient, for redirect URIs that are valid.                       *)
Register(c) ==
  /\ c \notin registered
  /\ registered' = registered \cup {c}
  /\ UNCHANGED <<codes, access, refresh, now, pc, locals, answer, before>>

(* The parameters of GET /oauth/authorize, and those that carry a          *)
(* decorator in AuthorizeQueryDto, which are all that the ValidationPipe   *)
(* of main.ts lets pass (forbidNonWhitelisted).                            *)
Parameters == {"client_id", "redirect_uri", "code_challenge",
               "code_challenge_method", "response_type", "state", "scope"}
Whitelisted == {}

(* authorizeGet, for a query with all of them or with none.                *)
AuthorizeGet(r, query) ==
  /\ pc[r] = "idle"
  /\ CASE query \ Whitelisted # {} -> Answer(r, "not_whitelisted")
       [] query = {} -> Answer(r, "refused")
       [] OTHER -> \E c \in Clients :
                     Answer(r, IF c \in registered THEN "redirected" ELSE "refused")
  /\ UNCHANGED <<tables, now, locals, before>>

(* authorizePost: createAuthorizationCode for the user of the request; a   *)
(* client without a row fails on the foreign key.                          *)
Authorize(k, c, u, s, x, v) ==
  /\ UserOnRequest
  /\ c \in registered
  /\ ~HasRow(codes, k)
  /\ codes' = [codes EXCEPT ![k] =
                 [client |-> c, user |-> u, scope |-> s, uri |-> x,
                  challenge |-> v, expiresAt |-> now + CodeTTL, usedAt |-> Null]]
  /\ UNCHANGED <<registered, access, refresh, now, pc, locals, answer, before>>

(* authorizePost without a Bearer header, or, with one, without a user.    *)
AuthorizeRefused(r) ==
  /\ pc[r] = "idle"
  /\ \E a \in {"no_bearer"} \cup (IF UserOnRequest THEN {} ELSE {"no_user"}) :
       Answer(r, a)
  /\ UNCHANGED <<tables, now, locals, before>>

(* token, revoke: validateClientSecret finds no such client, or another    *)
(* secret.  A client row is never updated: the outcome does not depend on  *)
(* when the statement runs once the client is registered.                  *)
BadSecret(r) == Refuse(r)

(* Mutant: a find by usedAt: null instead of the conditional update.       *)
CodeMatchesAlways(k, c, x) ==
  /\ HasRow(codes, k)
  /\ codes[k].client = c
  /\ codes[k].uri = x
  /\ codes[k].expiresAt > now

CodeMatches(k, c, x) ==
  /\ HasRow(codes, k)
  /\ codes[k].client = c
  /\ codes[k].uri = x
  /\ codes[k].usedAt = Null
  /\ codes[k].expiresAt > now

(* exchangeCode: the updateMany that checks and consumes the code at once. *)
ConsumeCode(r, c, k, x, v) ==
  /\ c \in registered
  /\ Sends(r, c, k, v)
  /\ CodeMatches(k, c, x)
  /\ codes' = [codes EXCEPT ![k].usedAt = now]
  /\ Await(r, "verify")
  /\ UNCHANGED <<registered, access, refresh, now, seen, made>>

CodeRefused(r, c, k, x) ==
  /\ c \in registered
  /\ ~CodeMatches(k, c, x)
  /\ Refuse(r)

(* Mutant: the verifier is not compared.                                   *)
VerifyNothing(r) ==
  /\ pc[r] = "verify"
  /\ Await(r, "createAccess")
  /\ UNCHANGED <<tables, now, locals, before>>

(* exchangeCode: findUnique and verifyPkce, after the code was consumed.   *)
VerifyPkce(r) ==
  /\ pc[r] = "verify"
  /\ IF proof[r] = codes[token[r]].challenge
     THEN Await(r, "createAccess")
     ELSE Answer(r, "pkce_failed")
  /\ UNCHANGED <<tables, now, locals, before>>

(* refreshTokens: findUnique.                                              *)
RefreshUnknown(r) == registered # {} /\ Refuse(r)

RefreshReads(r, c, t) ==
  /\ c \in registered
  /\ HasRow(refresh, t)
  /\ Sends(r, c, t, Null)
  /\ seen' = [seen EXCEPT ![r] = refresh[t].revokedAt]
  /\ Await(r, "checkRefresh")
  /\ UNCHANGED <<tables, now, made>>

Spendable(r) ==
  /\ refresh[token[r]].client = client[r]
  /\ seen[r] = Null
  /\ refresh[token[r]].expiresAt >= now

RefreshRefused(r) ==
  /\ pc[r] = "checkRefresh"
  /\ ~Spendable(r)
  /\ Answer(r, "invalid_token")
  /\ UNCHANGED <<tables, now, locals, before>>

(* Mutant: the refresh token stays valid.                                  *)
KeepRefresh(r) ==
  /\ pc[r] = "checkRefresh"
  /\ Spendable(r)
  /\ Await(r, "createAccess")
  /\ UNCHANGED <<tables, now, locals, before>>

(* refreshTokens: the update by id has no condition on revokedAt.          *)
SpendRefresh(r) ==
  /\ pc[r] = "checkRefresh"
  /\ Spendable(r)
  /\ refresh' = [refresh EXCEPT ![token[r]].revokedAt = now]
  /\ Await(r, "createAccess")
  /\ UNCHANGED <<registered, codes, access, now, locals, before>>

(* Mutant: the insert of the access token is not awaited, and fails.       *)
CreateAccessUnawaited(r, a) ==
  /\ pc[r] = "createAccess"
  /\ ~HasRow(access, a)
  /\ made' = [made EXCEPT ![r] = a]
  /\ Await(r, "createRefresh")
  /\ UNCHANGED <<tables, now, client, token, proof, seen, before>>

(* createTokens: the access token, then the refresh token.                 *)
CreateAccess(r, a) ==
  /\ pc[r] = "createAccess"
  /\ ~HasRow(access, a)
  /\ access' = [access EXCEPT ![a] = NewToken(Grant(r), AccessLife(Grant(r).scope))]
  /\ made' = [made EXCEPT ![r] = a]
  /\ Await(r, "createRefresh")
  /\ UNCHANGED <<registered, codes, refresh, now, client, token, proof, seen, before>>

CreateRefresh(r, t) ==
  /\ pc[r] = "createRefresh"
  /\ ~HasRow(refresh, t)
  /\ refresh' = [refresh EXCEPT ![t] = NewToken(Grant(r), RefreshLife(Grant(r).scope))]
  /\ Answer(r, "served")
  /\ UNCHANGED <<registered, codes, access, now, locals, before>>

----------------------------------------------------------------------------
(* Mutant: the revocation of a token that was already spent is answered    *)
(* without the cascade.                                                    *)
RevokeSpentEarly(r, c, t) ==
  /\ c \in registered
  /\ HasRow(refresh, t)
  /\ refresh[t].client = c
  /\ Sends(r, c, t, Null)
  /\ IF refresh[t].revokedAt = Null THEN Await(r, "revokeRefresh")
                                    ELSE Answer(r, "revoked")
  /\ UNCHANGED <<tables, now, seen, made>>

(* revokeToken with an ort_ token: findUnique, then the client check.      *)
RevokeRefreshReads(r, c, t) ==
  /\ c \in registered
  /\ HasRow(refresh, t)
  /\ refresh[t].client = c
  /\ Sends(r, c, t, Null)
  /\ Await(r, "revokeRefresh")
  /\ UNCHANGED <<tables, now, seen, made>>

RevokeRefresh(r) ==
  /\ pc[r] = "revokeRefresh"
  /\ refresh' = [refresh EXCEPT ![token[r]].revokedAt = now]
  /\ Await(r, "cascade")
  /\ UNCHANGED <<registered, codes, access, now, locals, before>>

(* Mutant: the cascade is by the scope of the token as well.               *)
CascadedInScope(r) ==
  {a \in ATokens : /\ LiveIn(access, a)
                   /\ access[a].client = refresh[token[r]].client
                   /\ access[a].user = refresh[token[r]].user
                   /\ access[a].scope = refresh[token[r]].scope}

(* The access tokens the updateMany of revokeToken reaches: all that the   *)
(* client holds for the user, by whichever grant.                          *)
Cascaded(r) ==
  {a \in ATokens : /\ LiveIn(access, a)
                   /\ access[a].client = refresh[token[r]].client
                   /\ access[a].user = refresh[token[r]].user}

Cascade(r) ==
  /\ pc[r] = "cascade"
  /\ access' = [a \in ATokens |->
                  IF a \in Cascaded(r) THEN [access[a] EXCEPT !.revokedAt = now]
                                       ELSE access[a]]
  /\ Answer(r, "revoked")
  /\ UNCHANGED <<registered, codes, refresh, now, locals, before>>

(* revokeToken with an oat_ token.                                         *)
RevokeAccessReads(r, c, a) ==
  /\ c \in registered
  /\ HasRow(access, a)
  /\ access[a].client = c
  /\ Sends(r, c, a, Null)
  /\ Await(r, "revokeAccess")
  /\ UNCHANGED <<tables, now, seen, made>>

(* revokeToken with a token that is not in the table, or another client's; *)
(* or with an oat_ token and the hint "refresh_token", for which only the  *)
(* table of refresh tokens is searched.  The answer is that of a success.  *)
RevokeIgnored(r) ==
  /\ registered # {}
  /\ pc[r] = "idle"
  /\ Answer(r, "ignored")
  /\ UNCHANGED <<tables, now, locals, before>>

RevokeAccess(r) ==
  /\ pc[r] = "revokeAccess"
  /\ access' = [access EXCEPT ![token[r]].revokedAt = now]
  /\ Answer(r, "revoked")
  /\ UNCHANGED <<registered, codes, refresh, now, locals, before>>

(* Mutant: revokedAt is not looked at.                                     *)
ValidUnlessExpired(a) ==
  /\ HasRow(access, a)
  /\ access[a].expiresAt >= now
  /\ access[a].scope = "mcp"

(* validateAccessToken, and the scope check of McpAuthService.             *)
Valid(a) ==
  /\ LiveIn(access, a)
  /\ access[a].expiresAt >= now
  /\ access[a].scope = "mcp"

Validate(r, a) ==
  /\ Valid(a)
  /\ Sends(r, Null, a, Null)
  /\ Answer(r, "accepted")
  /\ UNCHANGED <<tables, now, seen, made>>

ValidateRefused(r, a) == ~Valid(a) /\ Refuse(r)

(* An awaited statement rejects, or the process stops.                     *)
Fail(r) ==
  /\ pc[r] \notin {"idle", "done"}
  /\ Answer(r, "failed")
  /\ UNCHANGED <<tables, now, locals, before>>

Tick ==
  /\ now < MaxTime
  /\ now' = now + 1
  /\ UNCHANGED <<tables, pc, locals, answer, before>>

Finished ==
  /\ \A r \in Requests : pc[r] = "done"
  /\ now = MaxTime
  /\ UNCHANGED vars

TokenCall(r) ==
  \/ BadSecret(r)
  \/ \E c \in Clients, k \in Codes, x \in Uris :
       \/ \E v \in Verifiers \cup {Null} : ConsumeCode(r, c, k, x, v)
       \/ CodeRefused(r, c, k, x)
  \/ RefreshUnknown(r)
  \/ \E c \in Clients, t \in RTokens : RefreshReads(r, c, t)
  \/ VerifyPkce(r)
  \/ RefreshRefused(r)
  \/ SpendRefresh(r)
  \/ \E a \in ATokens : CreateAccess(r, a)
  \/ \E t \in RTokens : CreateRefresh(r, t)

RevokeCall(r) ==
  \/ \E c \in Clients, t \in RTokens : RevokeRefreshReads(r, c, t)
  \/ RevokeRefresh(r)
  \/ Cascade(r)
  \/ RevokeIgnored(r)
  \/ \E c \in Clients, a \in ATokens : RevokeAccessReads(r, c, a)
  \/ RevokeAccess(r)

Next ==
  \/ \E c \in Clients : Register(c)
  \/ \E k \in Codes, c \in Clients, u \in Users, s \in Scopes, x \in Uris,
        v \in Verifiers : Authorize(k, c, u, s, x, v)
  \/ \E r \in Requests : \/ \E query \in {{}, Parameters} : AuthorizeGet(r, query)
                         \/ AuthorizeRefused(r)
                         \/ TokenCall(r)
                         \/ RevokeCall(r)
                         \/ \E a \in ATokens :
                              Validate(r, a) \/ ValidateRefused(r, a)
                         \/ Fail(r)
  \/ Tick
  \/ Finished

Spec == Init /\ [][Next]_vars

----------------------------------------------------------------------------
Rows(table) == {table[t] : t \in {u \in DOMAIN table : HasRow(table, u)}}

OAuthTypeOK ==
  /\ registered \subseteq Clients
  /\ codes \in [Codes -> Code \cup {Null}]
  /\ access \in [ATokens -> Token \cup {Null}]
  /\ refresh \in [RTokens -> Token \cup {Null}]
  /\ now \in Nat
  /\ pc \in [Requests -> {"idle", "verify", "checkRefresh", "createAccess",
                         "createRefresh", "revokeRefresh", "cascade",
                         "revokeAccess", "done"}]
  /\ client \in [Requests -> registered \cup {Null}]
  /\ token \in [Requests -> Codes \cup ATokens \cup RTokens \cup {Null}]
  /\ proof \in [Requests -> Verifiers \cup {Null}]
  /\ seen \in [Requests -> Time]
  /\ made \in [Requests -> ATokens \cup {Null}]
  /\ answer \in [Requests ->
       {"none", "not_whitelisted", "redirected", "no_bearer", "no_user", "refused", "pkce_failed",
        "invalid_token", "served", "revoked", "ignored", "accepted", "failed"}]
  /\ before \in [Requests -> SUBSET Requests]
  /\ \A r \in Requests : /\ answer[r] = "none" <=> pc[r] # "done"
                         /\ made[r] # Null => HasRow(access, made[r])

(* Request r got past the updateMany of exchangeCode: a refused one keeps  *)
(* nothing.                                                                *)
Consumed(r) ==
  token[r] \in Codes

(* "Authorization codes are one-time use": however the exchanges of a code *)
(* interleave, one of them consumes it, and a code left unused has led     *)
(* nobody past the update.                                                 *)
CodeUsedOnce ==
  \A q, r \in Requests :
    Consumed(q) => /\ codes[token[q]].usedAt # Null
                   /\ Consumed(r) /\ token[q] = token[r] => q = r

(* Every token in the tables, the ones that refreshes made included, goes  *)
(* back to a code that the same client exchanged, once, with the verifier  *)
(* of its challenge, and has the user and the scope of that code.          *)
Granted(row) ==
  \E r \in Requests :
    /\ Consumed(r)
    /\ proof[r] = codes[token[r]].challenge
    /\ row.client = client[r]
    /\ <<row.client, row.user, row.scope>> =
         LET c == codes[token[r]] IN <<c.client, c.user, c.scope>>

TokensGranted == \A row \in Rows(access) \cup Rows(refresh) : Granted(row)

(* Request r is being given, or was given, new tokens; or it failed with   *)
(* an access token created.                                                *)
Served(r) ==
  \/ pc[r] \in {"createAccess", "createRefresh"}
  \/ answer[r] = "served"
  \/ made[r] # Null

(* A refresh token that served or was revoked serves nobody who presents   *)
(* it later, also when the request that spent it failed after it had made  *)
(* its access token; only refreshes that overlap can both be served.       *)
SpentNotServed ==
  \A q, r \in Requests :
    /\ token[q] \in RTokens /\ token[r] = token[q]
    /\ answer[q] \in {"served", "revoked"} \/ made[q] # Null
    /\ q \in before[r]
    => ~Served(r)

(* Request r has revoked access token a: directly, or by the cascade over  *)
(* what requests that ended before r was sent, by an answer or by an       *)
(* error, had made for the same client and user.                           *)
Revoked(r, a) ==
  /\ answer[r] = "revoked"
  /\ \/ token[r] = a
     \/ /\ token[r] \in RTokens
        /\ \E q \in before[r] :
             /\ made[q] = a
             /\ access[a].client = refresh[token[r]].client
             /\ access[a].user = refresh[token[r]].user

(* "Revoking refresh token cascades to access tokens": to every access     *)
(* token that was there when the revocation was sent, whatever its scope   *)
(* and grant and whether or not its client was told of it, and nothing     *)
(* gives it back.                                                          *)
CascadeReachesGranted ==
  \A r \in Requests, a \in ATokens : Revoked(r, a) => ~LiveIn(access, a)

(* The MCP endpoint accepts no access token that had been revoked when the *)
(* request was sent.                                                       *)
RevokedNotAccepted ==
  \A q, r \in Requests :
    token[r] \in ATokens /\ q \in before[r] /\ Revoked(q, token[r])
      => answer[r] # "accepted"

(* The refinement mapping: a code is redeemed when the request that        *)
(* consumed it presented the verifier, whatever became of the request.     *)
ConsentOf(row) ==
  IF row = Null THEN Null
  ELSE [client |-> row.client, user |-> row.user, scope |-> row.scope]

Fate(k) ==
  IF \A r \in Requests : token[r] # k THEN "open"
  ELSE IF \E r \in Requests : token[r] = k /\ proof[r] = codes[k].challenge
       THEN "redeemed" ELSE "burnt"

TokenRow(t) == IF t \in ATokens THEN access[t] ELSE refresh[t]

Grants == INSTANCE OAuthGrants WITH
  Tokens <- ATokens \cup RTokens,
  Consents <- [client : Clients, user : Users, scope : Scopes],
  consent <- [k \in Codes |-> ConsentOf(codes[k])],
  fate <- [k \in Codes |-> Fate(k)],
  holds <- [t \in ATokens \cup RTokens |-> ConsentOf(TokenRow(t))],
  revoked <- {t \in ATokens \cup RTokens :
                TokenRow(t) # Null /\ TokenRow(t).revokedAt # Null}

(* The server keeps the promise: no step gives a burnt or used code back,  *)
(* mints from it, changes what a token stands for, or revives a token.     *)
GrantsImplemented == Grants!Spec

----------------------------------------------------------------------------
(* What the documentation says and the code, or the interleavings, refute. *)

(* "Revoking refresh token cascades to access tokens": once a revocation   *)
(* is answered, no access token made from that refresh token is live.      *)
CascadeReachesRefreshed ==
  \A r, q \in Requests :
    /\ answer[r] = "revoked" /\ token[r] \in RTokens
    /\ token[q] = token[r] /\ made[q] # Null
    => ~LiveIn(access, made[q])

(* How far that is refuted: an access token that outlives the revocation   *)
(* of the refresh token it was made from was made by a refresh that        *)
(* overlapped the revocation; neither was over when the other was sent.    *)
CascadeMissesOverlap ==
  \A r, q \in Requests :
    /\ answer[r] = "revoked" /\ token[r] \in RTokens
    /\ token[q] = token[r] /\ made[q] # Null
    /\ LiveIn(access, made[q])
    => q \notin before[r] /\ r \notin before[q]

(* As long as nothing sets req.user in front of POST /oauth/authorize, no  *)
(* code exists and nobody ever gets a token: the flow cannot be entered    *)
(* by another way either.                                                  *)
NothingWithoutUser ==
  ~UserOnRequest =>
    /\ \A k \in Codes : ~HasRow(codes, k)
    /\ Rows(access) \cup Rows(refresh) = {}

(* "Client -> GET /oauth/authorize?...", "Server -> Redirect to             *)
(* authorization UI", "POST /oauth/authorize (with Bearer JWT)", "Server   *)
(* -> Returns redirect_uri with authorization code": of the two calls that *)
(* lead to a code, made as documented, one at least gets through.          *)
AuthorizationStarts ==
  ~\E r, q \in Requests : answer[r] = "not_whitelisted" /\ answer[q] = "no_user"
=============================================================================
