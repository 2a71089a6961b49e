--------------------------- MODULE BrowserSession ---------------------------
(***************************************************************************)
(* A browser, its tabs and its cookie jar, against the REST auth           *)
(* controller and the GraphQL auth resolver: login, refresh and logout     *)
(* over RefreshTokens, the access JWT next to the refresh token, and       *)
(* tokenVersion.                                                           *)
(*                                                                         *)
(* A call captures the cookies when it is sent; its reply may be delivered *)
(* late, out of order, or never.  All the tabs share one jar.              *)
(***************************************************************************)
EXTENDS RefreshTokens

CONSTANTS
  AccessTTL,   \* life of an access JWT, in ticks
  MaxVersion   \* bound of the model: how often tokenVersion is incremented

ASSUME SessionBounds == AccessTTL \in Nat /\ MaxVersion \in Nat

JWT == [user : Users, ver : Nat, exp : Nat]

VARIABLES
  jar,      \* jar.at, jar.rt: the cookies rev_at and rev_rt, or Null
  version,  \* version[u]: User.tokenVersion
  call,     \* call[r]: the endpoint request r was sent to
  sent,     \* sent[r]: the rev_rt the browser attached to r, or Null
  held,     \* history: held[r], the rev_rt in the jar when r was sent
  read,     \* read[r]: the user a login has read, with its version, or Null
  made,     \* made[r]: the refresh token created by request r, or Null
  reply,    \* reply[r]: the reply of r on its way
  opened,   \* history: opened[f], the tokenVersion family f was opened at
  overlap   \* history: a call was sent while another was outstanding

browser == <<jar, call, sent, held, read, made, reply, overlap>>
allVars == <<vars, browser, version, opened>>

Nothing == [kind |-> "none", at |-> Null, rt |-> Null]
Clear == [kind |-> "clear", at |-> Null, rt |-> Null]
Error == [kind |-> "error", at |-> Null, rt |-> Null]
Cookies(a, t) == [kind |-> "set", at |-> a, rt |-> t]

----------------------------------------------------------------------------
(* setAuthCookies: rev_at has path /, rev_rt has path /api/auth/refresh.   *)
RefreshCookiePath == "/api/auth/refresh"

(* The browser's rule for attaching a cookie, over the paths in use: the   *)
(* URLs of the controller do not extend one another.                       *)
PathMatches(path, url) == path = "/" \/ path = url

Attached(url) ==
  IF PathMatches(RefreshCookiePath, url) THEN jar.rt ELSE Null

(* createAccessToken and login: jwtService.sign.                           *)
Sign(u, v) == [user |-> u, ver |-> v, exp |-> now + AccessTTL]

(* JwtStrategy: the signature's expiry, then the version in the database.  *)
Accepts(jwt) == now < jwt.exp /\ jwt.ver = version[jwt.user]

Replies(r, m) == reply' = [reply EXCEPT ![r] = m]

Settled(r) == reply[r].kind \in {"delivered", "lost"}
Quiet == \A r \in Requests : call[r] = "none" \/ Settled(r)

(* The browser sends a call, with the cookies that match its URL.          *)
Sends(r, c, url) ==
  /\ call[r] = "none"
  /\ call' = [call EXCEPT ![r] = c]
  /\ sent' = [sent EXCEPT ![r] = Attached(url)]
  /\ held' = [held EXCEPT ![r] = jar.rt]
  /\ overlap' = (overlap \/ ~Quiet)

----------------------------------------------------------------------------
SessionInit ==
  /\ Init
  /\ jar = [at |-> Null, rt |-> Null]
  /\ version = [u \in Users |-> 0]
  /\ call = [r \in Requests |-> "none"]
  /\ sent = [r \in Requests |-> Null]
  /\ held = [r \in Requests |-> Null]
  /\ read = [r \in Requests |-> Null]
  /\ made = [r \in Requests |-> Null]
  /\ reply = [r \in Requests |-> Nothing]
  /\ opened = [f \in Families |-> 0]
  /\ overlap = FALSE

(* POST /api/auth/login or the mutation login: LoginHandler reads the user *)
(* and compares the password; the version it will sign is the one it has   *)
(* read.                                                                   *)
LoginReads(r, u) ==
  /\ Sends(r, "login", "/api/auth/login")
  /\ read' = [read EXCEPT ![r] = [user |-> u, ver |-> version[u]]]
  /\ UNCHANGED <<vars, jar, made, reply, version, opened>>

(* Mutant: createToken is not awaited, and its failure goes unnoticed.     *)
LoginUnawaited(r) ==
  /\ call[r] = "login"
  /\ answer[r] = "none"
  /\ reply[r] = Nothing
  /\ \E t \in Tokens \ Issued : Replies(r, Cookies(Null, t))
  /\ UNCHANGED <<vars, jar, call, sent, held, read, made, overlap, version, opened>>

(* The password is wrong, or a statement fails.                            *)
LoginRejected(r) ==
  /\ call[r] = "login"
  /\ answer[r] = "none"
  /\ reply[r] = Nothing
  /\ Replies(r, Error)
  /\ UNCHANGED <<vars, jar, call, sent, held, read, made, overlap, version, opened>>

(* LoginHandler: sign, createToken; then setAuthCookies.                   *)
LoginOpens(r, f, t) ==
  /\ call[r] = "login"
  /\ reply[r] = Nothing
  /\ Login(r, read[r].user, f, t)
  /\ opened' = [opened EXCEPT ![f] = read[r].ver]
  /\ made' = [made EXCEPT ![r] = t]
  /\ Replies(r, Cookies(Sign(read[r].user, read[r].ver), t))
  /\ UNCHANGED <<jar, call, sent, held, read, overlap, version>>

(* A tab sends POST /api/auth/refresh, or the mutation refreshToken.       *)
RefreshSent(r) ==
  /\ \/ Sends(r, "refresh", "/api/auth/refresh")
     \/ Sends(r, "refreshToken", "/graphql")
  /\ UNCHANGED <<vars, jar, read, made, reply, version, opened>>

Refreshing(r) == call[r] \in {"refresh", "refreshToken"}

(* Without the cookie both throw a 401; only the controller clears the     *)
(* cookies first.                                                          *)
RefreshWithoutCookie(r) ==
  /\ Refreshing(r)
  /\ sent[r] = Null
  /\ reply[r] = Nothing
  /\ Replies(r, IF call[r] = "refresh" THEN Clear ELSE Error)
  /\ UNCHANGED <<vars, jar, call, sent, held, read, made, overlap, version, opened>>

RefreshArrives(r) ==
  /\ Refreshing(r)
  /\ sent[r] # Null
  /\ RotateLookup(r, sent[r])
  /\ UNCHANGED <<browser, version, opened>>

RefreshRuns(r) ==
  /\ Refreshing(r)
  /\ \/ RejectExpired(r)
     \/ RevokePresented(r)
     \/ \E t \in Tokens : FindLatest(r, t)
     \/ FindNoLatest(r)
     \/ RevokeLatest(r)
     \/ DetectReuse(r)
     \/ Fail(r)
  /\ UNCHANGED <<browser, version, opened>>

RefreshCreates(r, t) ==
  /\ Refreshing(r)
  /\ CreateSuccessor(r, t) \/ CreateFromLatest(r, t)
  /\ made' = [made EXCEPT ![r] = t]
  /\ UNCHANGED <<jar, call, sent, held, read, reply, overlap, version, opened>>

(* Mutants: the refresh sets rev_rt and leaves rev_at; it sets the         *)
(* refresh token it was sent.                                              *)
RefreshKeepsAccess(r) ==
  /\ answer[r] = "served"
  /\ reply[r] = Nothing
  /\ Replies(r, Cookies(jar.at, made[r]))
  /\ UNCHANGED <<vars, jar, call, sent, held, read, made, overlap, version, opened>>

RefreshReturnsOld(r) ==
  /\ answer[r] = "served"
  /\ reply[r] = Nothing
  /\ LET u == table[made[r]].user IN
     Replies(r, Cookies(Sign(u, version[u]), sent[r]))
  /\ UNCHANGED <<vars, jar, call, sent, held, read, made, overlap, version, opened>>

(* refresh: createAccessToken(userId) reads the user's version now, then   *)
(* setAuthCookies.                                                         *)
RefreshSigns(r) ==
  /\ answer[r] = "served"
  /\ reply[r] = Nothing
  /\ LET u == table[made[r]].user IN
     Replies(r, Cookies(Sign(u, version[u]), made[r]))
  /\ UNCHANGED <<vars, jar, call, sent, held, read, made, overlap, version, opened>>

(* createAccessToken rejects: the rotation stays, and the reply is a 500.  *)
RefreshCannotSign(r) ==
  /\ answer[r] = "served"
  /\ reply[r] = Nothing
  /\ Replies(r, Error)
  /\ UNCHANGED <<vars, jar, call, sent, held, read, made, overlap, version, opened>>

(* rotateToken threw: the reply leaves the cookies as they are.            *)
RefreshRejected(r) ==
  /\ answer[r] \in {"invalid", "expired", "reuse", "failed"}
  /\ reply[r] = Nothing
  /\ Replies(r, Error)
  /\ UNCHANGED <<vars, jar, call, sent, held, read, made, overlap, version, opened>>

(* A tab sends POST /api/auth/logout, or the mutation logout.              *)
LogoutSent(r) ==
  /\ \E url \in {"/api/auth/logout", "/graphql"} : Sends(r, "logout", url)
  /\ UNCHANGED <<vars, jar, read, made, reply, version, opened>>

(* logout: revokeFamilyByRawToken only where the cookie was attached, then *)
(* clearAuthCookies.                                                       *)
LogoutRuns(r) ==
  /\ call[r] = "logout"
  /\ IF sent[r] = Null \/ answer[r] = "loggedOut"
     THEN reply[r] = Nothing /\ Replies(r, Clear) /\ UNCHANGED vars
     ELSE (LogoutLookup(r, sent[r]) \/ LogoutRevoke(r)) /\ UNCHANGED reply
  /\ UNCHANGED <<jar, call, sent, held, read, made, overlap, version, opened>>

(* The browser applies the Set-Cookie headers of a reply.                  *)
Deliver(r) ==
  /\ reply[r].kind \in {"set", "clear", "error"}
  /\ jar' = IF reply[r].kind = "error" THEN jar
            ELSE [at |-> reply[r].at, rt |-> reply[r].rt]
  /\ Replies(r, [reply[r] EXCEPT !.kind = "delivered"])
  /\ UNCHANGED <<vars, call, sent, held, read, made, overlap, version, opened>>

Lose(r) ==
  /\ reply[r].kind \in {"set", "clear", "error"}
  /\ Replies(r, [reply[r] EXCEPT !.kind = "lost"])
  /\ UNCHANGED <<vars, jar, call, sent, held, read, made, overlap, version, opened>>

(* The operator's statement of docs/jwt-lifecycle.md.                      *)
IncrementVersion(u) ==
  /\ version[u] < MaxVersion
  /\ version' = [version EXCEPT ![u] = @ + 1]
  /\ UNCHANGED <<vars, browser, opened>>

SessionTick == Tick /\ UNCHANGED <<browser, version, opened>>

SessionFinished ==
  /\ now = MaxTime
  /\ \A r \in Requests : Settled(r)
  /\ \A u \in Users : version[u] = MaxVersion
  /\ UNCHANGED allVars

SessionNext ==
  \/ \E r \in Requests :
       \/ \E u \in Users : LoginReads(r, u)
       \/ LoginRejected(r)
       \/ \E f \in Families, t \in Tokens : LoginOpens(r, f, t)
       \/ RefreshSent(r)
       \/ RefreshWithoutCookie(r)
       \/ RefreshArrives(r)
       \/ RefreshRuns(r)
       \/ \E t \in Tokens : RefreshCreates(r, t)
       \/ RefreshSigns(r)
       \/ RefreshCannotSign(r)
       \/ RefreshRejected(r)
       \/ LogoutSent(r)
       \/ LogoutRuns(r)
       \/ Deliver(r)
       \/ Lose(r)
  \/ \E u \in Users : IncrementVersion(u)
  \/ SessionTick
  \/ SessionFinished

SessionSpec == SessionInit /\ [][SessionNext]_allVars

----------------------------------------------------------------------------
SessionTypeOK ==
  /\ TypeOK
  /\ jar \in [at : JWT \cup {Null}, rt : Issued \cup {Null}]
  /\ version \in [Users -> Nat]
  /\ call \in [Requests -> {"none", "login", "refresh", "refreshToken", "logout"}]
  /\ sent \in [Requests -> Issued \cup {Null}]
  /\ held \in [Requests -> Issued \cup {Null}]
  /\ read \in [Requests -> [user : Users, ver : Nat] \cup {Null}]
  /\ made \in [Requests -> Issued \cup {Null}]
  /\ reply \in [Requests ->
       [kind : {"none", "set", "clear", "error", "delivered", "lost"},
        at : JWT \cup {Null}, rt : Issued \cup {Null}]]
  /\ opened \in [Families -> Nat]
  /\ overlap \in BOOLEAN

(* The two cookies always belong to the same user, whoever logs in, and in *)
(* whatever order replies arrive: refresh sets both or none.               *)
CookiesAgree ==
  jar.at # Null /\ jar.rt # Null => jar.at.user = table[jar.rt].user

(* Nothing was lost between the server and the browser: every reply was    *)
(* delivered, and every rotation that was made was replied.                *)
Smooth ==
  \A r \in Requests :
    /\ reply[r].kind # "lost"
    /\ answer[r] # "failed"
    /\ answer[r] = "served" => reply[r].rt # Null

(* Where calls do not overlap, whenever the browser is waiting for nothing *)
(* its rev_rt is a live token of the table, the only one of its family.    *)
JarHoldsLiveToken ==
  ~overlap /\ Quiet /\ Smooth /\ jar.rt # Null =>
    Live(table[jar.rt].family) = {jar.rt}

(* A refresh whose reply was lost can be retried with the old cookie: it   *)
(* is taken for reuse only after the grace period, unless the server       *)
(* failed half way through a rotation.                                     *)
RetryWithinGrace ==
  ~overlap /\ (\A q \in Requests : answer[q] # "failed") =>
    \A r \in Requests : answer[r] = "reuse" => now - seen[r] > Grace

----------------------------------------------------------------------------
(* What the documentation says and the code, or the interleavings, refute. *)

(* "POST /api/auth/logout clears cookies and revokes token family".        *)
LogoutEndsSession ==
  \A r \in Requests :
    /\ call[r] = "logout" /\ reply[r].kind = "delivered"
    /\ held[r] # Null
    => Live(table[held[r]].family) = {}

(* "Increment user.tokenVersion to revoke all sessions instantly": no      *)
(* cookie of a session opened before the increment is accepted after it.   *)
IncrementRevokesSessions ==
  jar.at # Null /\ jar.rt # Null =>
    (Accepts(jar.at) => opened[table[jar.rt].family] = version[jar.at.user])
=============================================================================
