------------------------ MODULE BrowserSessionProofs ------------------------
(***************************************************************************)
(* Theorems about BrowserSession, for any calls, users and tokens: what    *)
(* the browser and the two APIs do to the refresh tokens is what any       *)
(* requests may do to them, and what the browser then holds.               *)
(***************************************************************************)
EXTENDS BrowserSession, RefreshTokensProofs

----------------------------------------------------------------------------
(* What request r has come to at the server, and what was replied to it.   *)
(* Only a refresh over REST carries the refresh token.                     *)
InStep(r) ==
  /\ call[r] = "none" => pc[r] = "idle" /\ answer[r] = "none" /\ reply[r] = Nothing
  /\ call[r] = "login" => read[r] \in [user : Users, ver : Nat]
  /\ sent[r] # Null => call[r] = "refresh"
  /\ sent[r] # Null /\ pc[r] # "done" => reply[r] = Nothing
  /\ pc[r] \in Waits => pc[r] # "logout" /\ sent[r] # Null /\ stored[r] = sent[r]
  /\ answer[r] \notin {"loggedOut", "revokedAll"}
  /\ answer[r] = "served" => call[r] = "refresh" /\ made[r] # Null
  /\ answer[r] = "loggedIn" => reply[r] # Nothing
  /\ reply[r].kind = "none" => reply[r] = Nothing
  /\ reply[r].kind = "set" => reply[r].rt # Null
  /\ reply[r].kind \in {"clear", "error"} => reply[r].rt = Null

StepInv == SessionTypeOK /\ \A r \in Requests : InStep(r)

LEMMA UserRead ==
  ASSUME StepInv, NEW r \in Requests, call[r] = "login"
  PROVE  read[r].user \in Users /\ read[r].ver \in Nat
<1>1. read[r] \in [user : Users, ver : Nat]
  BY DEF StepInv, InStep
<1> QED
  BY <1>1

(* Every step of the browser and of the endpoints is a step of the service *)
(* or leaves the refresh tokens alone.                                     *)
LEMMA SessionMoves ==
  ASSUME StepInv, [SessionNext]_allVars
  PROVE  [Next]_vars
<1>1. ASSUME NEW r \in Requests, NEW f \in Families, NEW t \in Tokens, LoginOpens(r, f, t)
      PROVE  Next
  <2>1. PICK u \in Users : u = read[r].user
    BY <1>1, UserRead DEF LoginOpens
  <2>2. Login(r, u, f, t)
    BY <1>1, <2>1 DEF LoginOpens
  <2> QED
    BY <2>2 DEF Next, Start
<1>2. ASSUME NEW r \in Requests, RefreshArrives(r) PROVE Next
  <2>1. PICK t : t = sent[r]
    OBVIOUS
  <2>2. RotateLookup(r, t)
    BY <1>2, <2>1 DEF RefreshArrives
  <2>3. t \in Tokens
    BY <2>2 DEF RotateLookup, Read, Issued
  <2> QED
    BY <2>2, <2>3 DEF Next, Start
<1>3. ASSUME NEW r \in Requests, RefreshRuns(r) PROVE Next
  BY <1>3 DEF RefreshRuns, Next, Continue
<1>4. ASSUME NEW r \in Requests, NEW t \in Tokens, RefreshCreates(r, t) PROVE Next
  BY <1>4 DEF RefreshCreates, Next, Continue
<1>5. ASSUME NEW r \in Requests, LogoutRuns(r) PROVE UNCHANGED vars
  <2>1. sent[r] = Null
    BY <1>5 DEF LogoutRuns, StepInv, InStep
  <2> QED
    BY <1>5, <2>1 DEF LogoutRuns
<1>6. ASSUME NEW r \in Requests,
             \/ \E u \in Users : LoginReads(r, u)
             \/ LoginRejected(r) \/ RefreshSent(r) \/ RefreshWithoutCookie(r)
             \/ RefreshSigns(r) \/ RefreshCannotSign(r) \/ RefreshRejected(r)
             \/ LogoutSent(r) \/ Deliver(r) \/ Lose(r)
      PROVE  UNCHANGED vars
  BY <1>6 DEF LoginReads, LoginRejected, RefreshSent, RefreshWithoutCookie, RefreshSigns,
     RefreshCannotSign, RefreshRejected, LogoutSent, Deliver, Lose
<1>7. ASSUME NEW u \in Users, IncrementVersion(u) PROVE UNCHANGED vars
  BY <1>7 DEF IncrementVersion
<1>8. CASE SessionTick
  BY <1>8 DEF SessionTick, Next
<1>9. CASE SessionFinished \/ UNCHANGED allVars
  BY <1>9 DEF SessionFinished, allVars
<1> QED
  BY <1>1, <1>2, <1>3, <1>4, <1>5, <1>6, <1>7, <1>8, <1>9 DEF SessionNext

(* No step takes a row away, or gives it to another user.                  *)
LEMMA RowsKept ==
  ASSUME TypeOK, Next
  PROVE  /\ Issued \subseteq Issued'
         /\ \A t \in Issued : /\ table'[t].user = table[t].user
                              /\ table'[t].family = table[t].family
<1> DEFINE Kept == \A t \in Issued : table'[t].user = table[t].user
<1>1. ASSUME NEW S \in SUBSET Issued, Revokes(S) PROVE Kept
  BY <1>1, RevokedRows, RevokedDates, IssuedRow DEF TypeOK, Issued
<1>2. ASSUME NEW t \in Tokens, NEW u, NEW f, CreateToken(t, u, f) PROVE Kept
  BY <1>2 DEF CreateToken, Issued, TypeOK
<1>3. table' = table => Kept
  OBVIOUS
<1>4. ASSUME NEW r \in Requests, Start(r) PROVE Kept
  <2>1. CASE \E u \in Users : RevokeAllUserTokens(r, u)
    <3>1. PICK u \in Users : RevokeAllUserTokens(r, u)
      BY <2>1
    <3>2. {t \in Issued : table[t].user = u /\ table[t].revokedAt = Null} \in SUBSET Issued
      OBVIOUS
    <3> QED
      BY <1>1, <3>1, <3>2 DEF RevokeAllUserTokens
  <2>2. CASE ~\E u \in Users : RevokeAllUserTokens(r, u)
    BY <1>2, <1>3, <1>4, <2>2 DEF Start, Login, RotateUnknown, RotateLookup, LogoutUnknown,
       LogoutLookup, Read
  <2> QED
    BY <2>1, <2>2
<1>5. ASSUME NEW r \in Requests, Continue(r) PROVE Kept
  <2>1. CASE RevokePresented(r)
    <3>1. {stored[r]} \in SUBSET Issued
      BY <2>1 DEF RevokePresented, TypeOK, Waits
    <3> QED
      BY <1>1, <2>1, <3>1 DEF RevokePresented, Revokes
  <2>2. CASE RevokeLatest(r)
    <3>1. {latest[r]} \in SUBSET Issued
      BY <2>2 DEF RevokeLatest, TypeOK
    <3> QED
      BY <1>1, <2>2, <3>1 DEF RevokeLatest
  <2>3. CASE DetectReuse(r) \/ LogoutRevoke(r)
    <3>1. Live(table[stored[r]].family) \in SUBSET Issued
      BY DEF Live, Members
    <3> QED
      BY <1>1, <2>3, <3>1 DEF DetectReuse, LogoutRevoke, Revokes
  <2>4. CASE \E t \in Tokens : CreateSuccessor(r, t) \/ CreateFromLatest(r, t)
    BY <1>2, <2>4 DEF CreateSuccessor, CreateFromLatest
  <2>5. CASE RejectExpired(r) \/ FindNoLatest(r) \/ \E t \in Tokens : FindLatest(r, t)
    BY <1>3, <2>5 DEF RejectExpired, FindNoLatest, FindLatest
  <2> QED
    BY <1>5, <2>1, <2>2, <2>3, <2>4, <2>5 DEF Continue
<1>6. Kept
  BY <1>3, <1>4, <1>5 DEF Next, Fail, Tick, Finished, vars
<1> QED
  BY <1>6, FamiliesKept

----------------------------------------------------------------------------
(* The types of the browser.                                               *)
Endpoints == {"none", "login", "refresh", "refreshToken", "logout"}
Kinds == {"none", "set", "clear", "error", "delivered", "lost"}
RefreshCookie == Issued \cup {Null}
AccessCookie == JWT \cup {Null}
Sent == [kind : Kinds, at : AccessCookie, rt : RefreshCookie]

BrowserTypes ==
  /\ jar \in [at : AccessCookie, rt : RefreshCookie]
  /\ version \in [Users -> Nat]
  /\ call \in [Requests -> Endpoints]
  /\ sent \in [Requests -> RefreshCookie]
  /\ held \in [Requests -> RefreshCookie]
  /\ read \in [Requests -> [user : Users, ver : Nat] \cup {Null}]
  /\ made \in [Requests -> RefreshCookie]
  /\ reply \in [Requests -> Sent]
  /\ opened \in [Families -> Nat]
  /\ overlap \in BOOLEAN

LEMMA TypeParts ==
  /\ SessionTypeOK <=> TypeOK /\ BrowserTypes
  /\ SessionTypeOK' <=> TypeOK' /\ BrowserTypes'
<1>1. SessionTypeOK <=> TypeOK /\ BrowserTypes
  BY DEF SessionTypeOK, BrowserTypes, Endpoints, Kinds, RefreshCookie, AccessCookie, Sent
<1>2. SessionTypeOK' <=> TypeOK' /\ BrowserTypes'
  BY DEF SessionTypeOK, BrowserTypes, Endpoints, Kinds, RefreshCookie, AccessCookie, Sent
<1> QED
  BY <1>1, <1>2

(* A row is never taken away: what was a cookie is one.                    *)
LEMMA RefreshCookieGrows ==
  ASSUME StepInv, [SessionNext]_allVars
  PROVE  /\ TypeOK' /\ RefreshCookie \subseteq RefreshCookie' /\ Sent \subseteq Sent'
<1>1. TypeOK
  BY TypeParts DEF StepInv
<1>2. [Next]_vars
  BY SessionMoves
<1>3. TypeOK'
  BY <1>1, <1>2, TypeStep
<1>4. Issued \subseteq Issued'
  <2>1. CASE Next
    BY <1>1, <2>1, RowsKept
  <2>2. CASE UNCHANGED vars
    BY <2>2 DEF vars, Issued
  <2> QED
    BY <1>2, <2>1, <2>2
<1> QED
  BY <1>3, <1>4 DEF RefreshCookie, Sent, AccessCookie

(* What a step does to one variable of the browser, and the types of it.   *)
LEMMA SignTypes ==
  ASSUME TypeOK, BrowserTypes, NEW u \in Users, NEW v \in Nat
  PROVE  Sign(u, v) \in JWT
<1>1. now + AccessTTL \in Nat
  BY SessionBounds DEF TypeOK
<1> QED
  BY <1>1 DEF Sign, JWT

LEMMA ReplyTypes ==
  ASSUME BrowserTypes, Sent \subseteq Sent', NEW r \in Requests, NEW m \in Sent', Replies(r, m)
  PROVE  /\ reply' \in [Requests -> Sent'] /\ reply'[r] = m
         /\ \A q \in Requests \ {r} : reply'[q] = reply[q]
  BY DEF BrowserTypes, Replies

LEMMA MessageTypes ==
  ASSUME TypeOK', NEW a \in AccessCookie, NEW t \in RefreshCookie'
  PROVE  /\ Cookies(a, t) \in Sent' /\ Clear \in Sent' /\ Error \in Sent' /\ Nothing \in Sent'
         /\ Cookies(a, t).kind = "set" /\ Cookies(a, t).at = a /\ Cookies(a, t).rt = t
         /\ Clear # Nothing /\ Error # Nothing /\ Cookies(a, t) # Nothing
         /\ Clear.kind = "clear" /\ Error.kind = "error"
         /\ Clear.rt = Null /\ Error.rt = Null /\ Clear.at = Null /\ Error.at = Null
         /\ Nothing.rt = Null /\ Nothing.at = Null /\ Nothing.kind = "none"
  BY DEF Cookies, Clear, Error, Nothing, Sent, AccessCookie, RefreshCookie, Kinds

LEMMA SendTypes ==
  ASSUME BrowserTypes, NEW r \in Requests, NEW c \in Endpoints, NEW url, Sends(r, c, url)
  PROVE  /\ call[r] = "none" /\ call' \in [Requests -> Endpoints] /\ call'[r] = c
         /\ sent' \in [Requests -> RefreshCookie] /\ sent'[r] \in {Null, jar.rt}
         /\ url # "/api/auth/refresh" => sent'[r] = Null
         /\ url = "/api/auth/refresh" => sent'[r] = jar.rt
         /\ held' \in [Requests -> RefreshCookie] /\ overlap' \in BOOLEAN
         /\ \A q \in Requests \ {r} : call'[q] = call[q] /\ sent'[q] = sent[q]
         /\ overlap' = (overlap \/ ~Quiet)
<1>1. Attached(url) \in {Null, jar.rt} /\ Attached(url) \in RefreshCookie
  BY DEF Attached, BrowserTypes, RefreshCookie
<1>2. /\ url # "/api/auth/refresh" => Attached(url) = Null
      /\ url = "/api/auth/refresh" => Attached(url) = jar.rt
  BY DEF Attached, PathMatches, RefreshCookiePath
<1>3. overlap' \in BOOLEAN
  BY DEF Sends
<1>4. jar.rt \in RefreshCookie
  BY DEF BrowserTypes
<1> QED
  BY <1>1, <1>2, <1>3, <1>4 DEF Sends, BrowserTypes

----------------------------------------------------------------------------
(* The steps of a request, by what they do to it.                          *)
LEMMA Bystander ==
  ASSUME StepInv, NEW q \in Requests,
         call'[q] = call[q], sent'[q] = sent[q], read'[q] = read[q], made'[q] = made[q],
         reply'[q] = reply[q], pc'[q] = pc[q], stored'[q] = stored[q], answer'[q] = answer[q]
  PROVE  InStep(q)'
<1>1. InStep(q)
  BY DEF StepInv
<1> QED
  BY <1>1 DEF InStep

(* The browser sends a call.                                               *)
Sending(r, c, url) ==
  /\ Sends(r, c, url)
  /\ UNCHANGED <<vars, jar, made, reply, version, opened>>

LEMMA SendingSteps ==
  ASSUME StepInv, NEW r \in Requests, NEW c \in Endpoints \ {"none"}, NEW url,
         Sending(r, c, url),
         TypeOK', RefreshCookie \subseteq RefreshCookie', Sent \subseteq Sent',
         c = "refresh" <=> url = "/api/auth/refresh",
         read' \in [Requests -> [user : Users, ver : Nat] \cup {Null}],
         c = "login" => read'[r] \in [user : Users, ver : Nat],
         \A q \in Requests \ {r} : read'[q] = read[q]
  PROVE  StepInv'
<1>1. BrowserTypes /\ TypeOK
  BY TypeParts DEF StepInv
<1>2. /\ call[r] = "none" /\ call' \in [Requests -> Endpoints] /\ call'[r] = c
      /\ sent' \in [Requests -> RefreshCookie]
      /\ c # "refresh" => sent'[r] = Null
      /\ held' \in [Requests -> RefreshCookie] /\ overlap' \in BOOLEAN
      /\ \A q \in Requests \ {r} : call'[q] = call[q] /\ sent'[q] = sent[q]
  BY <1>1, SendTypes DEF Sending
<1>3. /\ UNCHANGED <<jar, made, reply, version, opened>>
      /\ UNCHANGED <<table, now, pc, stored, seen, latest, answer, contended>>
  BY DEF Sending, vars
<1>4. BrowserTypes'
  BY <1>1, <1>2, <1>3 DEF BrowserTypes
<1>5. InStep(r)'
  <2>1. InStep(r)
    BY DEF StepInv
  <2> QED
    BY <1>2, <1>3, <2>1, TypeParts DEF InStep, Waits
<1>6. \A q \in Requests \ {r} : InStep(q)'
  BY <1>2, <1>3, Bystander
<1> QED
  BY <1>4, <1>5, <1>6, TypeParts DEF StepInv

(* A request that has its answer, or needs none, is replied: with cookies  *)
(* where a refresh made a token, and without one otherwise.                *)
Replying(r, m) ==
  /\ call[r] # "none" /\ reply[r] = Nothing
  /\ sent[r] = Null \/ pc[r] = "done"
  /\ m.kind \in {"set", "clear", "error"}
  /\ IF m.kind = "set"
     THEN /\ answer[r] = "served" /\ m.rt = made[r] /\ m.rt # Null
          /\ m.at # Null => m.at.user = table[m.rt].user
     ELSE m.rt = Null
  /\ Replies(r, m)
  /\ UNCHANGED <<vars, jar, call, sent, held, read, made, overlap, version, opened>>

LEMMA ReplyingSteps ==
  ASSUME StepInv, NEW r \in Requests, NEW m \in Sent', Replying(r, m),
         TypeOK', RefreshCookie \subseteq RefreshCookie', Sent \subseteq Sent'
  PROVE  StepInv'
<1>1. BrowserTypes /\ TypeOK
  BY TypeParts DEF StepInv
<1>2. /\ UNCHANGED <<jar, call, sent, held, read, made, overlap, version, opened>>
      /\ UNCHANGED <<table, now, pc, stored, seen, latest, answer, contended>>
  BY DEF Replying, vars
<1>3. /\ reply' \in [Requests -> Sent'] /\ reply'[r] = m
      /\ \A q \in Requests \ {r} : reply'[q] = reply[q]
  BY <1>1, ReplyTypes DEF Replying
<1>4. BrowserTypes'
  BY <1>1, <1>2, <1>3 DEF BrowserTypes
<1>5. InStep(r)'
  <2>1. InStep(r) /\ m # Nothing
    BY DEF StepInv, Nothing, Replying
  <2> QED
    BY <1>2, <1>3, <2>1 DEF InStep, Waits, Replying
<1>6. \A q \in Requests \ {r} : InStep(q)'
  BY <1>2, <1>3, Bystander
<1> QED
  BY <1>4, <1>5, <1>6, TypeParts DEF StepInv

LEMMA ReplyActions ==
  ASSUME StepInv, NEW r \in Requests, TypeOK', RefreshCookie \subseteq RefreshCookie',
         \/ LoginRejected(r) \/ RefreshWithoutCookie(r) \/ RefreshSigns(r)
         \/ RefreshCannotSign(r) \/ RefreshRejected(r) \/ LogoutRuns(r)
  PROVE  \E m \in Sent' : Replying(r, m)
<1>1. BrowserTypes /\ TypeOK /\ InStep(r)
  BY TypeParts DEF StepInv
<1>2. /\ Clear \in Sent' /\ Error \in Sent'
      /\ Clear.kind = "clear" /\ Error.kind = "error" /\ Clear.rt = Null /\ Error.rt = Null
  BY DEF Clear, Error, Sent, AccessCookie, RefreshCookie, Kinds
<1>3. answer[r] # "none" => pc[r] = "done"
  BY <1>1 DEF TypeOK
<1>4. CASE LoginRejected(r)
  <2>1. Replying(r, Error)
    BY <1>1, <1>2, <1>4 DEF LoginRejected, Replying, InStep
  <2> QED
    BY <1>2, <2>1
<1>5. CASE RefreshWithoutCookie(r)
  <2>1. Replying(r, Clear) \/ Replying(r, Error)
    BY <1>2, <1>5 DEF RefreshWithoutCookie, Refreshing, Replying
  <2> QED
    BY <1>2, <2>1
<1>6. CASE RefreshCannotSign(r) \/ RefreshRejected(r)
  <2>1. Replying(r, Error)
    BY <1>1, <1>2, <1>3, <1>6 DEF RefreshCannotSign, RefreshRejected, Replying, InStep
  <2> QED
    BY <1>2, <2>1
<1>7. CASE LogoutRuns(r)
  <2>1. Replying(r, Clear)
    BY <1>1, <1>2, <1>7 DEF LogoutRuns, Replying, InStep
  <2> QED
    BY <1>2, <2>1
<1>8. CASE RefreshSigns(r)
  <2>1. made[r] \in Issued /\ call[r] # "none" /\ made[r] # Null
    BY <1>1, <1>8 DEF RefreshSigns, BrowserTypes, RefreshCookie, InStep
  <2>2. PICK u \in Users : u = table[made[r]].user
    BY <1>1, <2>1, IssuedRow DEF Row
  <2>3. version[u] \in Nat
    BY <1>1 DEF BrowserTypes
  <2>4. PICK a : a = Sign(u, version[u])
    OBVIOUS
  <2>5. a \in JWT /\ a.user = u
    BY <1>1, <2>3, <2>4, SignTypes DEF Sign
  <2>6. PICK m : m = Cookies(a, made[r])
    OBVIOUS
  <2>7. m \in Sent' /\ m.kind = "set" /\ m.rt = made[r] /\ m.at = a
    BY <2>1, <2>5, <2>6 DEF Cookies, Sent, AccessCookie, RefreshCookie, Kinds
  <2>8. Replies(r, m)
    BY <1>8, <2>2, <2>4, <2>6 DEF RefreshSigns
  <2>9. Replying(r, m)
    BY <1>3, <1>8, <2>1, <2>2, <2>5, <2>7, <2>8 DEF RefreshSigns, Replying
  <2> QED
    BY <2>7, <2>9
<1> QED
  BY <1>4, <1>5, <1>6, <1>7, <1>8

(* The server works on a refresh, and the browser sees nothing of it.      *)
Working(r) ==
  /\ RefreshArrives(r) \/ RefreshRuns(r)
  /\ UNCHANGED <<jar, call, sent, held, read, made, reply, overlap, version, opened>>

LEMMA WorkingSteps ==
  ASSUME StepInv, NEW r \in Requests, RefreshArrives(r) \/ RefreshRuns(r),
         TypeOK', RefreshCookie \subseteq RefreshCookie', Sent \subseteq Sent'
  PROVE  StepInv' /\ Working(r)
<1>1. BrowserTypes /\ TypeOK /\ InStep(r)
  BY TypeParts DEF StepInv
<1>2. /\ UNCHANGED <<jar, call, sent, held, read, made, reply, overlap, version, opened>>
      /\ Refreshing(r)
  BY DEF RefreshArrives, RefreshRuns, browser
<1>3. BrowserTypes'
  BY <1>1, <1>2 DEF BrowserTypes
<1>4. /\ \A q \in Requests \ {r} :
           pc'[q] = pc[q] /\ stored'[q] = stored[q] /\ answer'[q] = answer[q]
      /\ pc'[r] \in Waits => pc'[r] # "logout" /\ sent[r] # Null /\ stored'[r] = sent[r]
      /\ answer'[r] \in {"none", "expired", "reuse", "failed"}
      /\ sent[r] # Null /\ pc[r] # "done"
  <2>1. CASE RefreshArrives(r)
    BY <1>1, <2>1 DEF RefreshArrives, RotateLookup, Read, Await, TypeOK, Waits
  <2>2. CASE RefreshRuns(r)
    <3>1. /\ pc[r] \in Waits \ {"logout"} /\ answer[r] = "none" /\ stored' = stored
      BY <1>1, <2>2 DEF RefreshRuns, RejectExpired, RevokePresented, FindLatest, FindNoLatest,
         RevokeLatest, DetectReuse, Fail, InStep, TypeOK, Waits
    <3>2. \/ \E w \in Waits \ {"logout"} : Await(r, w)
          \/ \E a \in {"expired", "reuse", "failed"} : Answer(r, a)
      BY <2>2 DEF RefreshRuns, RejectExpired, RevokePresented, FindLatest, FindNoLatest,
         RevokeLatest, DetectReuse, Fail, Waits
    <3> QED
      BY <1>1, <3>1, <3>2 DEF Await, Answer, InStep, TypeOK, Waits
  <2> QED
    BY <2>1, <2>2
<1>5. InStep(r)'
  BY <1>1, <1>2, <1>4 DEF InStep, Refreshing
<1>6. \A q \in Requests \ {r} : InStep(q)'
  BY <1>2, <1>4, Bystander
<1> QED
  BY <1>2, <1>3, <1>5, <1>6, TypeParts DEF StepInv, Working

(* A token is created: by a refresh that then awaits the access token, or  *)
(* by a login that replies with it.                                        *)
CreatingSteps(r, t) ==
  RefreshCreates(r, t) \/ \E f \in Families : LoginOpens(r, f, t)

LEMMA CreatingKeeps ==
  ASSUME StepInv, NEW r \in Requests, NEW t \in Tokens, CreatingSteps(r, t),
         TypeOK', RefreshCookie \subseteq RefreshCookie', Sent \subseteq Sent'
  PROVE  StepInv'
<1>1. BrowserTypes /\ TypeOK /\ InStep(r)
  BY TypeParts DEF StepInv
<1>2. /\ UNCHANGED <<jar, call, sent, held, read, overlap, version>>
      /\ made' = [made EXCEPT ![r] = t] /\ stored' = stored
  BY DEF CreatingSteps, RefreshCreates, LoginOpens, CreateSuccessor, CreateFromLatest, Login
<1>3. t \in Issued' /\ t # Null
  <2>1. PICK u \in Users, f \in Families : CreateToken(t, u, f)
    <3>1. CASE \E f \in Families : LoginOpens(r, f, t)
      BY <3>1, UserRead DEF LoginOpens, Login
    <3>2. CASE RefreshCreates(r, t)
      <4>1. stored[r] \in Issued /\ (CreateFromLatest(r, t) => latest[r] \in Issued)
        BY <1>1, <3>2 DEF RefreshCreates, CreateSuccessor, CreateFromLatest, TypeOK, Waits
      <4> QED
        BY <1>1, <3>2, <4>1, IssuedRow
        DEF RefreshCreates, CreateSuccessor, CreateFromLatest, Row
    <3> QED
      BY <3>1, <3>2 DEF CreatingSteps
  <2> QED
    BY <1>1, <2>1, CreatedRows, NullAssumption
<1>4. made' \in [Requests -> RefreshCookie'] /\ made'[r] = t
  BY <1>1, <1>2, <1>3 DEF BrowserTypes, RefreshCookie
<1>5. /\ \A q \in Requests \ {r} :
           made'[q] = made[q] /\ pc'[q] = pc[q] /\ answer'[q] = answer[q]
      /\ pc'[r] = "done"
  BY <1>1, <1>2
  DEF CreatingSteps, RefreshCreates, LoginOpens, CreateSuccessor, CreateFromLatest, Login,
      Answer, TypeOK
<1>6. CASE RefreshCreates(r, t)
  <2>1. reply' = reply /\ opened' = opened /\ answer'[r] = "served" /\ sent[r] # Null
    BY <1>1, <1>6
    DEF RefreshCreates, CreateSuccessor, CreateFromLatest, Answer, TypeOK, InStep, Waits
  <2>2. BrowserTypes'
    BY <1>1, <1>2, <1>4, <2>1 DEF BrowserTypes
  <2>3. InStep(r)'
    BY <1>1, <1>2, <1>3, <1>4, <1>5, <2>1 DEF InStep, Waits
  <2>4. \A q \in Requests \ {r} : InStep(q)'
    BY <1>2, <1>5, <2>1, Bystander
  <2> QED
    BY <2>2, <2>3, <2>4, TypeParts DEF StepInv
<1>7. ASSUME NEW f \in Families, LoginOpens(r, f, t) PROVE StepInv'
  <2>1. read[r].user \in Users /\ read[r].ver \in Nat /\ call[r] = "login"
    BY <1>7, UserRead DEF LoginOpens
  <2>2. PICK a \in JWT : a = Sign(read[r].user, read[r].ver)
    BY <1>1, <2>1, SignTypes
  <2>3. PICK m : m = Cookies(a, t)
    OBVIOUS
  <2>4. m \in Sent' /\ m.kind = "set" /\ m.rt = t /\ m # Nothing
    BY <1>3, <2>2, <2>3 DEF Cookies, Sent, AccessCookie, RefreshCookie, Kinds, Nothing
  <2>5. /\ reply' \in [Requests -> Sent'] /\ reply'[r] = m
        /\ \A q \in Requests \ {r} : reply'[q] = reply[q]
    BY <1>1, <1>7, <2>2, <2>3, <2>4, ReplyTypes DEF LoginOpens
  <2>6. opened' \in [Families -> Nat] /\ answer'[r] = "loggedIn"
    BY <1>1, <1>7, <2>1 DEF LoginOpens, Login, Answer, BrowserTypes, TypeOK
  <2>7. BrowserTypes'
    BY <1>1, <1>2, <1>4, <2>5, <2>6 DEF BrowserTypes
  <2>8. InStep(r)'
    BY <1>1, <1>2, <1>3, <1>5, <2>1, <2>4, <2>5, <2>6 DEF InStep, Waits
  <2>9. \A q \in Requests \ {r} : InStep(q)'
    BY <1>2, <1>5, <2>5, Bystander
  <2> QED
    BY <2>7, <2>8, <2>9, TypeParts DEF StepInv
<1> QED
  BY <1>6, <1>7 DEF CreatingSteps

(* A reply comes to the browser, or never.                                 *)
LEMMA ArrivingKeeps ==
  ASSUME StepInv, NEW r \in Requests, Deliver(r) \/ Lose(r),
         TypeOK', RefreshCookie \subseteq RefreshCookie', Sent \subseteq Sent'
  PROVE  StepInv'
<1>1. BrowserTypes /\ TypeOK /\ InStep(r)
  BY TypeParts DEF StepInv
<1>2. /\ UNCHANGED <<call, sent, held, read, made, overlap, version, opened>>
      /\ UNCHANGED <<table, now, pc, stored, seen, latest, answer, contended>>
      /\ reply[r].kind \in {"set", "clear", "error"}
  BY DEF Deliver, Lose, vars
<1>3. PICK k \in {"delivered", "lost"} : Replies(r, [reply[r] EXCEPT !.kind = k])
  BY DEF Deliver, Lose
<1>4. PICK m : m = [reply[r] EXCEPT !.kind = k]
  OBVIOUS
<1>5. /\ m \in Sent' /\ m.kind = k /\ m # Nothing
      /\ m.at = reply[r].at /\ m.rt = reply[r].rt
  BY <1>1, <1>4 DEF BrowserTypes, Sent, Kinds, Nothing
<1>6. /\ reply' \in [Requests -> Sent'] /\ reply'[r] = m
      /\ \A q \in Requests \ {r} : reply'[q] = reply[q]
  BY <1>1, <1>3, <1>4, <1>5, ReplyTypes
<1>7. jar' \in [at : AccessCookie, rt : RefreshCookie']
  <2>1. reply[r].at \in AccessCookie /\ reply[r].rt \in RefreshCookie
    BY <1>1 DEF BrowserTypes, Sent
  <2>2. jar' = jar \/ jar' = [at |-> reply[r].at, rt |-> reply[r].rt]
    BY DEF Deliver, Lose
  <2> QED
    BY <1>1, <2>1, <2>2 DEF BrowserTypes
<1>8. BrowserTypes'
  BY <1>1, <1>2, <1>6, <1>7 DEF BrowserTypes, AccessCookie
<1>9. InStep(r)'
  <2>1. reply[r] # Nothing
    BY <1>2 DEF Nothing
  <2> QED
    BY <1>1, <1>2, <1>5, <1>6, <2>1 DEF InStep, Waits
<1>10. \A q \in Requests \ {r} : InStep(q)'
  BY <1>2, <1>6, Bystander
<1> QED
  BY <1>8, <1>9, <1>10, TypeParts DEF StepInv

(* The steps of nobody: the clock, and the operator.                       *)
Ambient ==
  /\ UNCHANGED <<jar, call, sent, held, read, made, reply, overlap>>
  /\ UNCHANGED <<table, pc, stored, seen, latest, answer, contended>>
  /\ now' \in Nat /\ now <= now'

LEMMA AmbientKeeps ==
  ASSUME StepInv, TypeOK', Ambient, version' \in [Users -> Nat], opened' = opened
  PROVE  StepInv'
<1>1. BrowserTypes'
  BY TypeParts DEF StepInv, BrowserTypes, Ambient, RefreshCookie, Sent, AccessCookie, Issued
<1>2. \A q \in Requests : InStep(q)'
  BY Bystander DEF Ambient
<1> QED
  BY <1>1, <1>2, TypeParts DEF StepInv

LEMMA AmbientSteps ==
  ASSUME StepInv, \/ \E u \in Users : IncrementVersion(u)
                  \/ SessionTick \/ SessionFinished \/ UNCHANGED allVars
  PROVE  Ambient /\ version' \in [Users -> Nat] /\ opened' = opened
<1>0. now \in Nat /\ version \in [Users -> Nat]
  BY TypeParts DEF StepInv, TypeOK, BrowserTypes
<1>1. CASE \E u \in Users : IncrementVersion(u)
  BY <1>0, <1>1 DEF IncrementVersion, vars, browser, Ambient
<1>2. CASE SessionTick
  BY <1>0, <1>2 DEF SessionTick, Tick, browser, Ambient
<1>3. CASE SessionFinished \/ UNCHANGED allVars
  BY <1>0, <1>3 DEF SessionFinished, allVars, vars, browser, Ambient
<1> QED
  BY <1>1, <1>2, <1>3

(* Every step is one of these.                                             *)
LEMMA SessionCases ==
  ASSUME StepInv, [SessionNext]_allVars
  PROVE  \/ \E r \in Requests, c \in Endpoints \ {"none"} : \E url :
              /\ Sending(r, c, url)
              /\ c = "refresh" <=> url = "/api/auth/refresh"
              /\ read' \in [Requests -> [user : Users, ver : Nat] \cup {Null}]
              /\ c = "login" => read'[r] \in [user : Users, ver : Nat]
              /\ \A q \in Requests \ {r} : read'[q] = read[q]
         \/ \E r \in Requests, m \in Sent' : Replying(r, m)
         \/ \E r \in Requests : Working(r)
         \/ \E r \in Requests, t \in Tokens : CreatingSteps(r, t)
         \/ \E r \in Requests : Deliver(r) \/ Lose(r)
         \/ Ambient /\ version' \in [Users -> Nat] /\ opened' = opened
<1>0. TypeOK' /\ RefreshCookie \subseteq RefreshCookie' /\ Sent \subseteq Sent'
  BY RefreshCookieGrows
<1>1. ASSUME NEW r \in Requests, NEW u \in Users, LoginReads(r, u)
      PROVE  /\ Sending(r, "login", "/api/auth/login")
             /\ read' \in [Requests -> [user : Users, ver : Nat] \cup {Null}]
             /\ read'[r] \in [user : Users, ver : Nat]
             /\ \A q \in Requests \ {r} : read'[q] = read[q]
  <2>1. BrowserTypes /\ [user |-> u, ver |-> version[u]] \in [user : Users, ver : Nat]
    BY TypeParts DEF StepInv, BrowserTypes
  <2> QED
    BY <1>1, <2>1 DEF LoginReads, Sending, BrowserTypes
<1>2. ASSUME NEW r \in Requests, RefreshSent(r) \/ LogoutSent(r)
      PROVE  /\ \/ Sending(r, "refresh", "/api/auth/refresh")
                \/ Sending(r, "refreshToken", "/graphql")
                \/ \E url \in {"/api/auth/logout", "/graphql"} : Sending(r, "logout", url)
             /\ read' \in [Requests -> [user : Users, ver : Nat] \cup {Null}]
             /\ \A q \in Requests \ {r} : read'[q] = read[q]
  <2>1. BrowserTypes
    BY TypeParts DEF StepInv
  <2> QED
    BY <1>2, <2>1 DEF RefreshSent, LogoutSent, Sending, BrowserTypes
<1> QED
  BY <1>0, <1>1, <1>2, ReplyActions, WorkingSteps, AmbientSteps
  DEF SessionNext, Endpoints, CreatingSteps

LEMMA StepInit == SessionInit => StepInv
<1> SUFFICES ASSUME SessionInit PROVE StepInv
  OBVIOUS
<1>1. TypeOK /\ Init
  BY TypeInit DEF SessionInit
<1>2. Nothing \in Sent
  BY DEF Nothing, Sent, Kinds, AccessCookie, RefreshCookie
<1>3. BrowserTypes
  BY <1>2 DEF SessionInit, BrowserTypes, Endpoints, AccessCookie, RefreshCookie
<1>4. \A r \in Requests : InStep(r)
  BY <1>1, <1>2 DEF SessionInit, Init, InStep, Nothing, Waits
<1> QED
  BY <1>1, <1>3, <1>4, TypeParts DEF StepInv

LEMMA StepNext == StepInv /\ [SessionNext]_allVars => StepInv'
<1> SUFFICES ASSUME StepInv, [SessionNext]_allVars PROVE StepInv'
  OBVIOUS
<1>0. TypeOK' /\ RefreshCookie \subseteq RefreshCookie' /\ Sent \subseteq Sent'
  BY RefreshCookieGrows
<1>1. ASSUME NEW r \in Requests, NEW c \in Endpoints \ {"none"}, NEW url, Sending(r, c, url),
             c = "refresh" <=> url = "/api/auth/refresh",
             read' \in [Requests -> [user : Users, ver : Nat] \cup {Null}],
             c = "login" => read'[r] \in [user : Users, ver : Nat],
             \A q \in Requests \ {r} : read'[q] = read[q]
      PROVE  StepInv'
  BY <1>0, <1>1, SendingSteps
<1>2. ASSUME NEW r \in Requests, NEW m \in Sent', Replying(r, m) PROVE StepInv'
  BY <1>0, <1>2, ReplyingSteps
<1>3. ASSUME NEW r \in Requests, Working(r) PROVE StepInv'
  BY <1>0, <1>3, WorkingSteps DEF Working
<1>4. ASSUME NEW r \in Requests, NEW t \in Tokens, CreatingSteps(r, t) PROVE StepInv'
  BY <1>0, <1>4, CreatingKeeps
<1>5. ASSUME NEW r \in Requests, Deliver(r) \/ Lose(r) PROVE StepInv'
  BY <1>0, <1>5, ArrivingKeeps
<1>6. ASSUME Ambient, version' \in [Users -> Nat], opened' = opened PROVE StepInv'
  BY <1>0, <1>6, AmbientKeeps
<1> QED
  BY <1>1, <1>2, <1>3, <1>4, <1>5, <1>6, SessionCases

LEMMA StepInvHolds == SessionSpec => []StepInv
  BY StepInit, StepNext, PTL DEF SessionSpec

(* The browser's state is well typed, and each cookie it holds, or that is *)
(* on its way to it, is a token of the table.                              *)
THEOREM SessionTypeCorrect == SessionSpec => []SessionTypeOK
<1>1. StepInv => SessionTypeOK
  BY DEF StepInv
<1> QED
  BY <1>1, StepInvHolds, PTL

(* A browser with its tabs, over REST and GraphQL, makes requests as the   *)
(* refresh token service expects them: all that holds of any requests, as  *)
(* that one token of a family is live, and that ended sessions never come  *)
(* back, holds of the browser's.                                           *)
THEOREM SessionsAreRequests == SessionSpec => Spec
<1>1. SessionInit => Init
  BY DEF SessionInit
<1>2. StepInv /\ [SessionNext]_allVars => [Next]_vars
  BY SessionMoves
<1> QED
  BY <1>1, <1>2, StepInvHolds, PTL DEF SessionSpec, Spec

(* What a browser's sessions inherit: live tokens that are all explained by *)
(* overlaps but one for each family, ended sessions that stay ended, a grace period that   *)
(* serves stale tabs and whose one gap is the time between the two         *)
(* statements of another rotation, and revocations that are final.         *)
THEOREM SessionsInherit ==
  SessionSpec => /\ []OneLiveToken /\ []LiveTokensExplained /\ []EndedFamily
                 /\ []GraceServesStaleTab /\ GraceFailsInWindow /\ OnlyPendingRevives
                 /\ StaleReplayIsReuse /\ RevocationIsFinal /\ SessionsImplemented
  BY SessionsAreRequests, OneLiveTokenHolds, LiveTokensExplainedHolds, EndedFamilyHolds,
     GraceServesStaleTabHolds, GraceFailsInWindowHolds, OnlyPendingRevivesHolds, StaleReplayIsReuseHolds,
     RevocationFinal, RefinesSessions, PTL

----------------------------------------------------------------------------
(* The cookies in the jar, and those of each reply, are of one user.       *)
Agree(a, t) == a # Null /\ t # Null => a.user = table[t].user

AgreeInv ==
  StepInv /\ Agree(jar.at, jar.rt) /\ \A r \in Requests : Agree(reply[r].at, reply[r].rt)

LEMMA AgreeKept ==
  ASSUME StepInv, [SessionNext]_allVars, NEW a, NEW t \in RefreshCookie,
         a # Null /\ t # Null => a.user = table[t].user
  PROVE  a # Null /\ t # Null => a.user = table'[t].user
<1>1. TypeOK
  BY TypeParts DEF StepInv
<1>2. t # Null => table'[t].user = table[t].user
  BY <1>1, SessionMoves, RowsKept DEF RefreshCookie, vars
<1> QED
  BY <1>2

LEMMA AgreeNext == AgreeInv /\ [SessionNext]_allVars => AgreeInv'
<1> SUFFICES ASSUME AgreeInv, [SessionNext]_allVars PROVE AgreeInv'
  OBVIOUS
<1>0. StepInv /\ StepInv' /\ BrowserTypes /\ TypeOK
  BY StepNext, TypeParts DEF AgreeInv, StepInv
<1>1. jar.rt \in RefreshCookie /\ \A r \in Requests : reply[r].rt \in RefreshCookie
  BY <1>0 DEF BrowserTypes, Sent
<1>2. jar' = jar => Agree(jar.at, jar.rt)'
  BY <1>0, <1>1, AgreeKept DEF AgreeInv, Agree
<1>3. ASSUME NEW r \in Requests, reply'[r].at = reply[r].at, reply'[r].rt = reply[r].rt
      PROVE  Agree(reply[r].at, reply[r].rt)'
  <2>1. PICK a \in AccessCookie, t \in RefreshCookie : a = reply[r].at /\ t = reply[r].rt
    BY <1>0, <1>1 DEF BrowserTypes, Sent
  <2>2. a # Null /\ t # Null => a.user = table'[t].user
    BY <1>0, <2>1, AgreeKept DEF AgreeInv, Agree
  <2> QED
    BY <1>3, <2>1, <2>2 DEF Agree
<1>4. CASE UNCHANGED <<jar, reply>>
  BY <1>2, <1>3, <1>4, <1>0 DEF AgreeInv
<1>5. ASSUME NEW r \in Requests, NEW m \in Sent', Replying(r, m) PROVE AgreeInv'
  <2>1. /\ reply'[r] = m /\ \A q \in Requests \ {r} : reply'[q] = reply[q]
        /\ jar' = jar /\ table' = table
    BY <1>0, <1>5 DEF Replying, Replies, BrowserTypes, vars
  <2>2. m.at # Null /\ m.rt # Null => m.at.user = table[m.rt].user
    BY <1>5 DEF Replying
  <2>3. Agree(reply[r].at, reply[r].rt)'
    BY <2>1, <2>2 DEF Agree
  <2> QED
    BY <1>0, <1>2, <1>3, <2>1, <2>3 DEF AgreeInv
<1>6. ASSUME NEW r \in Requests, NEW f \in Families, NEW t \in Tokens, LoginOpens(r, f, t)
      PROVE  AgreeInv'
  <2>1. PICK a : a = Sign(read[r].user, read[r].ver)
    OBVIOUS
  <2>2. /\ reply'[r] = Cookies(a, t) /\ \A q \in Requests \ {r} : reply'[q] = reply[q]
        /\ jar' = jar
    BY <1>0, <1>6, <2>1 DEF LoginOpens, Replies, BrowserTypes
  <2>3. a.user = read[r].user /\ table'[t].user = read[r].user
    BY <1>0, <1>6, <2>1 DEF LoginOpens, Login, CreateToken, Sign, TypeOK
  <2>4. Agree(reply[r].at, reply[r].rt)'
    BY <2>2, <2>3 DEF Agree, Cookies
  <2> QED
    BY <1>0, <1>2, <1>3, <2>2, <2>4 DEF AgreeInv
<1>7. ASSUME NEW r \in Requests, Deliver(r) \/ Lose(r) PROVE AgreeInv'
  <2>1. \A q \in Requests : reply'[q].at = reply[q].at /\ reply'[q].rt = reply[q].rt
    BY <1>0, <1>7 DEF Deliver, Lose, Replies, BrowserTypes, Sent
  <2>2. \A q \in Requests : Agree(reply[q].at, reply[q].rt)'
    BY <1>3, <2>1
  <2>3. jar' = jar \/ (jar'.at = reply'[r].at /\ jar'.rt = reply'[r].rt)
    <3>1. PICK a, t : a = reply[r].at /\ t = reply[r].rt
      OBVIOUS
    <3>2. jar' = jar \/ jar' = [at |-> a, rt |-> t]
      BY <1>7, <3>1 DEF Deliver, Lose
    <3>3. reply'[r].at = a /\ reply'[r].rt = t
      BY <2>1, <3>1
    <3> QED
      BY <3>2, <3>3
  <2>4. Agree(jar.at, jar.rt)'
    <3>1. CASE jar' = jar
      BY <1>2, <3>1
    <3>2. CASE jar'.at = reply'[r].at /\ jar'.rt = reply'[r].rt
      <4>1. Agree(reply[r].at, reply[r].rt)'
        BY <2>2
      <4> QED
        BY <3>2, <4>1 DEF Agree
    <3> QED
      BY <2>3, <3>1, <3>2
  <2> QED
    BY <1>0, <2>2, <2>4 DEF AgreeInv
<1>8. ASSUME NEW r \in Requests, NEW t \in Tokens, RefreshCreates(r, t) PROVE AgreeInv'
  BY <1>4, <1>8 DEF RefreshCreates
<1>9. ASSUME NEW r \in Requests, Working(r) PROVE AgreeInv'
  BY <1>4, <1>9 DEF Working
<1>10. ASSUME NEW r \in Requests, NEW c, NEW url, Sending(r, c, url) PROVE AgreeInv'
  BY <1>4, <1>10 DEF Sending
<1>11. CASE Ambient
  BY <1>4, <1>11 DEF Ambient
<1> QED
  BY <1>0, <1>5, <1>6, <1>7, <1>8, <1>9, <1>10, <1>11, SessionCases DEF CreatingSteps

(* Whatever order replies arrive in, and whoever logs in, the access JWT   *)
(* and the refresh token in the browser's jar are those of one user.       *)
THEOREM CookiesAgreeHolds == SessionSpec => []CookiesAgree
<1>1. SessionInit => AgreeInv
  <2> SUFFICES ASSUME SessionInit PROVE AgreeInv
    OBVIOUS
  <2> QED
    BY StepInit DEF SessionInit, AgreeInv, Agree, Nothing
<1>2. AgreeInv => CookiesAgree
  BY DEF AgreeInv, Agree, CookiesAgree
<1> QED
  BY <1>1, <1>2, AgreeNext, PTL DEF SessionSpec

----------------------------------------------------------------------------
(* Where no call is sent while another is outstanding, one request at a    *)
(* time is anywhere between its call and its reply.                        *)
Active(r) == call[r] # "none" /\ ~Settled(r)

Lone == \A q, r \in Requests : Active(q) /\ Active(r) => q = r

(* It presents the refresh token of the jar, and what it has read of its   *)
(* row is true; the token that it made, or that it is replied with, is the *)
(* live one of its family.                                                 *)
Presents(r) ==
  /\ Active(r) /\ sent[r] # Null => sent[r] = jar.rt
  /\ pc[r] \in {"lookedUp", "revokeFamily"} => seen[r] = table[stored[r]].revokedAt

Delivers(r) ==
  /\ answer[r] = "served" /\ reply[r] = Nothing =>
       Live(table[made[r]].family) = {made[r]}
  /\ reply[r].kind = "set" => Live(table[reply[r].rt].family) = {reply[r].rt}

LoneParts ==
  /\ Lone
  /\ \A f \in Families : contended[f] = {}
  /\ \A r \in Requests : Presents(r) /\ Delivers(r)

LoneInv == StepInv /\ SerialInv /\ (~overlap => LoneParts)

LEMMA ActiveRequests ==
  ASSUME StepInv, NEW r \in Requests
  PROVE  /\ pc[r] \in Waits => Active(r) /\ stored[r] = sent[r] /\ sent[r] # Null
         /\ answer[r] = "served" /\ reply[r] = Nothing => Active(r)
         /\ reply[r].kind \in {"set", "clear", "error"} => Active(r)
         /\ call[r] # "none" /\ reply[r] = Nothing => Active(r)
<1>1. InStep(r) /\ Nothing.kind = "none"
  BY DEF StepInv, Nothing
<1>2. pc[r] \in Waits => pc[r] # "done"
  BY DEF Waits
<1> QED
  BY <1>1, <1>2 DEF InStep, Active, Settled, Waits

LEMMA ActiveRequestsNext ==
  ASSUME StepInv', NEW r \in Requests
  PROVE  /\ pc'[r] \in Waits => Active(r)' /\ stored'[r] = sent'[r] /\ sent'[r] # Null
         /\ answer'[r] = "served" /\ reply'[r] = Nothing => Active(r)'
         /\ reply'[r].kind \in {"set", "clear", "error"} => Active(r)'
<1>1. InStep(r)' /\ Nothing.kind = "none"
  BY DEF StepInv, Nothing
<1>2. pc'[r] \in Waits => pc'[r] # "done"
  BY DEF Waits
<1> QED
  BY <1>1, <1>2 DEF InStep, Active, Settled, Waits

(* What holds of a request that nobody waits for, and of one that nothing  *)
(* happens to.                                                             *)
LEMMA Passive ==
  ASSUME StepInv', NEW q \in Requests, ~Active(q)'
  PROVE  Presents(q)' /\ Delivers(q)'
<1>1. /\ pc'[q] \notin Waits /\ reply'[q].kind # "set"
      /\ ~(answer'[q] = "served" /\ reply'[q] = Nothing)
  BY ActiveRequestsNext
<1> QED
  BY <1>1 DEF Presents, Delivers, Waits

LEMMA Untouched ==
  ASSUME NEW q \in Requests, Presents(q) /\ Delivers(q),
         UNCHANGED <<table, jar>>,
         call'[q] = call[q], sent'[q] = sent[q], made'[q] = made[q], reply'[q] = reply[q],
         pc'[q] = pc[q], stored'[q] = stored[q], seen'[q] = seen[q], answer'[q] = answer[q]
  PROVE  Presents(q)' /\ Delivers(q)'
<1>1. \A f : Live(f)' = Live(f)
  BY DEF Live, Members, Issued
<1> QED
  BY <1>1 DEF Presents, Delivers, Active, Settled

LEMMA OneActs ==
  ASSUME LoneInv, StepInv', ~overlap, NEW r \in Requests, Active(r),
         \A q \in Requests \ {r} : call'[q] = call[q] /\ reply'[q] = reply[q]
  PROVE  /\ Lone'
         /\ \A q \in Requests \ {r} :
              ~Active(q) /\ ~Active(q)' /\ Presents(q)' /\ Delivers(q)'
<1>1. ASSUME NEW q \in Requests \ {r} PROVE ~Active(q) /\ ~Active(q)'
  <2>1. ~Active(q)
    BY DEF LoneInv, LoneParts, Lone
  <2> QED
    BY <2>1 DEF Active, Settled
<1>2. Lone'
  BY <1>1 DEF Lone
<1> QED
  BY <1>1, <1>2, Passive

(* Of the steps of a request, all but its first find it active.            *)
LEMMA ActiveSteps ==
  ASSUME StepInv, NEW r \in Requests
  PROVE  /\ Working(r) => Active(r) /\ sent[r] # Null
         /\ \A m : Replying(r, m) => Active(r)
         /\ \A t \in Tokens : CreatingSteps(r, t) => Active(r) /\ reply[r] = Nothing
         /\ Deliver(r) \/ Lose(r) => Active(r)
<1>1. InStep(r) /\ TypeOK
  BY TypeParts DEF StepInv
<1>2. ASSUME Working(r) PROVE Active(r) /\ sent[r] # Null
  <2>1. CASE RefreshArrives(r)
    <3>1. pc[r] = "idle" /\ sent[r] # Null /\ Refreshing(r)
      BY <2>1 DEF RefreshArrives, RotateLookup, Read
    <3> QED
      BY <1>1, <3>1, ActiveRequests DEF InStep, Refreshing
  <2>2. CASE RefreshRuns(r)
    <3>1. pc[r] \in Waits
      BY <2>2 DEF RefreshRuns, RejectExpired, RevokePresented, FindLatest, FindNoLatest,
         RevokeLatest, DetectReuse, Fail, Waits
    <3> QED
      BY <3>1, ActiveRequests
  <2> QED
    BY <1>2, <2>1, <2>2 DEF Working
<1>3. ASSUME NEW m, Replying(r, m) PROVE Active(r)
  BY <1>3, ActiveRequests DEF Replying
<1>4. ASSUME NEW t \in Tokens, CreatingSteps(r, t) PROVE Active(r) /\ reply[r] = Nothing
  <2>1. CASE RefreshCreates(r, t)
    <3>1. pc[r] \in Waits \ {"done"}
      BY <2>1 DEF RefreshCreates, CreateSuccessor, CreateFromLatest, Waits
    <3> QED
      BY <1>1, <3>1, ActiveRequests DEF InStep
  <2>2. CASE \E f \in Families : LoginOpens(r, f, t)
    BY <2>2, ActiveRequests DEF LoginOpens
  <2> QED
    BY <1>4, <2>1, <2>2 DEF CreatingSteps
<1>5. Deliver(r) \/ Lose(r) => Active(r)
  BY ActiveRequests DEF Deliver, Lose
<1> QED
  BY <1>2, <1>3, <1>4, <1>5

LEMMA LoneSending ==
  ASSUME LoneInv, StepInv', NEW r \in Requests, NEW c \in Endpoints \ {"none"}, NEW url,
         Sending(r, c, url), c = "refresh" <=> url = "/api/auth/refresh", ~overlap'
  PROVE  LoneParts'
<1>1. BrowserTypes /\ StepInv
  BY TypeParts DEF LoneInv, LoneParts, StepInv
<1>2. /\ call[r] = "none" /\ call'[r] = c /\ sent'[r] \in {Null, jar.rt}
      /\ \A q \in Requests \ {r} : call'[q] = call[q]
      /\ ~overlap /\ Quiet
  BY <1>1, SendTypes DEF Sending
<1>3. /\ UNCHANGED <<jar, made, reply>>
      /\ UNCHANGED <<table, now, pc, stored, seen, latest, answer, contended>>
  BY DEF Sending, vars
<1>4. \A q \in Requests \ {r} : ~Active(q)'
  BY <1>2, <1>3 DEF Quiet, Active, Settled
<1>5. Lone'
  BY <1>4 DEF Lone
<1>6. Presents(r)' /\ Delivers(r)'
  <2>1. InStep(r)
    BY <1>1 DEF StepInv
  <2> QED
    BY <1>2, <1>3, <2>1 DEF InStep, Presents, Delivers, Nothing
<1>7. \A f \in Families : contended'[f] = {}
  BY <1>2, <1>3 DEF LoneInv, LoneParts
<1> QED
  BY <1>4, <1>5, <1>6, <1>7, Passive DEF LoneParts

LEMMA LoneReplying ==
  ASSUME LoneInv, StepInv', NEW r \in Requests, NEW m \in Sent', Replying(r, m), ~overlap'
  PROVE  LoneParts'
<1>1. BrowserTypes /\ StepInv /\ Presents(r) /\ Delivers(r) /\ ~overlap
  BY TypeParts DEF LoneInv, LoneParts, StepInv, Replying
<1>2. /\ UNCHANGED <<jar, call, sent, made>>
      /\ UNCHANGED <<table, now, pc, stored, seen, latest, answer, contended>>
      /\ reply[r] = Nothing /\ m.kind \in {"set", "clear", "error"}
      /\ reply'[r] = m /\ \A q \in Requests \ {r} : reply'[q] = reply[q]
  BY <1>1 DEF Replying, vars, Replies, BrowserTypes
<1>3. /\ Active(r) /\ Lone'
      /\ \A q \in Requests \ {r} : Presents(q)' /\ Delivers(q)'
  BY <1>1, <1>2, ActiveSteps, OneActs
<1>4. Presents(r)'
  BY <1>1, <1>2, <1>3 DEF Presents
<1>5. Delivers(r)'
  <2>1. \A f : Live(f)' = Live(f)
    BY <1>2 DEF Live, Members, Issued
  <2>2. m # Nothing
    BY <1>2 DEF Nothing
  <2>3. m.kind = "set" => answer[r] = "served" /\ m.rt = made[r]
    BY DEF Replying
  <2> QED
    BY <1>1, <1>2, <2>1, <2>2, <2>3 DEF Delivers
<1>6. \A f \in Families : contended'[f] = {}
  BY <1>1, <1>2 DEF LoneInv, LoneParts
<1> QED
  BY <1>3, <1>4, <1>5, <1>6 DEF LoneParts

LEMMA LoneWorking ==
  ASSUME LoneInv, StepInv', NEW r \in Requests, Working(r), ~overlap'
  PROVE  LoneParts'
<1>1. /\ BrowserTypes /\ TypeOK /\ StepInv /\ Presents(r) /\ ~overlap /\ InStep(r)
      /\ Lone /\ \A f \in Families : contended[f] = {}
  BY TypeParts DEF LoneInv, LoneParts, StepInv, Working
<1>2. UNCHANGED <<jar, call, sent, held, read, made, reply>>
  BY DEF Working
<1>3. /\ Active(r) /\ sent[r] # Null /\ Lone'
      /\ \A q \in Requests \ {r} : ~Active(q) /\ Presents(q)' /\ Delivers(q)'
  BY <1>1, <1>2, ActiveSteps, OneActs
<1>4. CASE RefreshArrives(r)
  <2>1. PICK t : t = sent[r]
    OBVIOUS
  <2>2. RotateLookup(r, t) /\ pc[r] = "idle" /\ t \in Issued
    BY <1>4, <2>1 DEF RefreshArrives, RotateLookup, Read
  <2>3. stored'[r] = t /\ seen'[r] = table[t].revokedAt /\ table' = table /\ answer' = answer
    BY <1>1, <2>2 DEF RotateLookup, Read, Await, TypeOK
  <2>4. \A f \in Families : Busy(f) = {}
    <3>1. \A q \in Requests : pc[q] \in Waits => q = r
      BY <1>1, <1>3, ActiveRequests
    <3> QED
      BY <2>2, <3>1 DEF Busy, Waits
  <2>5. \A f \in Families : contended'[f] = {}
    BY <1>1, <2>2, <2>4, IssuedRow DEF RotateLookup, Read, TypeOK, Row
  <2>6. Presents(r)'
    BY <1>1, <1>2, <1>3, <2>1, <2>3 DEF Presents
  <2>7. Delivers(r)'
    <3>1. reply'[r].kind # "set" /\ answer'[r] # "served"
      BY <1>1, <1>2, <1>3, <2>2, <2>3 DEF InStep, Nothing, TypeOK
    <3> QED
      BY <3>1 DEF Delivers
  <2> QED
    BY <1>3, <2>5, <2>6, <2>7 DEF LoneParts
<1>5. CASE RefreshRuns(r)
  <2>1. /\ contended' = contended /\ pc[r] \in Waits
        /\ pc'[r] # "lookedUp" /\ answer'[r] # "served"
    BY <1>1, <1>5 DEF RefreshRuns, RejectExpired, RevokePresented, FindLatest, FindNoLatest,
       RevokeLatest, DetectReuse, Fail, Await, Answer, TypeOK, Waits
  <2>2. reply[r] = Nothing
    BY <1>1, <1>3, <2>1 DEF InStep, Waits
  <2>3. Presents(r)'
    <3>1. CASE pc'[r] = "revokeFamily"
      <4>1. FindNoLatest(r)
        BY <1>1, <1>5, <3>1 DEF RefreshRuns, RejectExpired, RevokePresented, FindLatest,
           RevokeLatest, DetectReuse, Fail, Await, Answer, TypeOK
      <4> QED
        BY <1>1, <1>2, <1>3, <2>1, <4>1 DEF FindNoLatest, Presents
    <3> QED
      BY <1>1, <1>2, <1>3, <2>1, <3>1 DEF Presents
  <2>4. Delivers(r)'
    BY <1>2, <2>1, <2>2 DEF Delivers, Nothing
  <2> QED
    BY <1>1, <1>3, <2>1, <2>3, <2>4 DEF LoneParts
<1> QED
  BY <1>4, <1>5 DEF Working

(* The token that is created is the live one of its family.                *)
LEMMA CreatedIsLive ==
  ASSUME LoneInv, NEW r \in Requests, NEW t \in Tokens, CreatingSteps(r, t), ~overlap
  PROVE  \E g \in Families, u \in Users :
           /\ CreateToken(t, u, g)
           /\ Live(g) = {}
           /\ RefreshCreates(r, t) => g = table[stored[r]].family
           /\ ~RefreshCreates(r, t) => Members(g) = {}
<1>1. TypeOK /\ StepInv /\ \A f \in Families : contended[f] = {}
  BY TypeParts DEF LoneInv, LoneParts, StepInv
<1>2. CASE RefreshCreates(r, t)
  <2>1. /\ pc[r] \in {"create", "createLatest"}
        /\ CreateSuccessor(r, t) \/ CreateFromLatest(r, t)
    BY <1>2 DEF RefreshCreates, CreateSuccessor, CreateFromLatest
  <2>2. stored[r] \in Issued
    BY <1>1, <2>1 DEF TypeOK, Waits
  <2>3. PICK g \in Families : g = table[stored[r]].family
    BY <1>1, <2>2, IssuedRow DEF Row
  <2>4. \E u \in Users : CreateToken(t, u, g)
    <3>1. CASE CreateSuccessor(r, t)
      BY <1>1, <2>2, <2>3, <3>1, IssuedRow DEF CreateSuccessor, Row
    <3>2. CASE CreateFromLatest(r, t)
      <4>1. latest[r] \in Issued /\ table[latest[r]].family = g
        BY <1>1, <2>1, <2>3, <3>2
        DEF CreateFromLatest, TypeOK, LoneInv, SerialInv, SameFamily
      <4> QED
        BY <1>1, <3>2, <4>1, IssuedRow DEF CreateFromLatest, Row
    <3> QED
      BY <2>1, <3>1, <3>2
  <2>5. Live(g) = {}
    <3>1. r \in Busy(g) /\ contended[g] = {}
      BY <1>1, <2>1, <2>3 DEF Busy, Waits
    <3>2. LiveKnown(g, r)
      BY <3>1 DEF LoneInv, LoneParts, SerialInv, Exclusive
    <3> QED
      BY <2>1, <3>2 DEF LiveKnown
  <2> QED
    BY <1>2, <2>3, <2>4, <2>5
<1>3. ASSUME NEW f \in Families, LoginOpens(r, f, t), ~RefreshCreates(r, t)
      PROVE  \E u \in Users : CreateToken(t, u, f) /\ Members(f) = {} /\ Live(f) = {}
  <2>1. read[r].user \in Users
    BY <1>1, <1>3, UserRead DEF LoginOpens
  <2> QED
    BY <1>3, <2>1 DEF LoginOpens, Login, Live
<1> QED
  BY <1>2, <1>3 DEF CreatingSteps

LEMMA LoneCreating ==
  ASSUME LoneInv, StepInv', NEW r \in Requests, NEW t \in Tokens, CreatingSteps(r, t),
         ~overlap'
  PROVE  LoneParts'
<1>1. BrowserTypes /\ TypeOK /\ StepInv /\ Presents(r)
  BY TypeParts DEF LoneInv, LoneParts, StepInv, CreatingSteps, RefreshCreates, LoginOpens
<1>2. /\ UNCHANGED <<jar, call, sent, contended>> /\ overlap' = overlap
      /\ made' = [made EXCEPT ![r] = t]
  BY DEF CreatingSteps, RefreshCreates, LoginOpens, CreateSuccessor, CreateFromLatest, Login
<1>3. /\ \A q \in Requests \ {r} : reply'[q] = reply[q]
      /\ \/ reply'[r] = Nothing
         \/ (reply'[r].kind = "set" /\ reply'[r].rt = t /\ reply'[r] # Nothing)
  <2>1. CASE RefreshCreates(r, t)
    BY <1>1, <2>1, ActiveSteps DEF RefreshCreates
  <2>2. ASSUME NEW f \in Families, LoginOpens(r, f, t)
        PROVE  /\ \A q \in Requests \ {r} : reply'[q] = reply[q]
               /\ reply'[r].kind = "set" /\ reply'[r].rt = t
    BY <1>1, <2>2 DEF LoginOpens, Replies, Cookies, BrowserTypes
  <2> QED
    BY <2>1, <2>2 DEF CreatingSteps, Nothing
<1>4. /\ Active(r) /\ Lone'
      /\ \A q \in Requests \ {r} : Presents(q)' /\ Delivers(q)'
  BY <1>1, <1>2, <1>3, ActiveSteps, OneActs
<1>5. PICK g \in Families, u \in Users : CreateToken(t, u, g) /\ Live(g) = {}
  BY <1>2, CreatedIsLive
<1>6. table'[t].family = g /\ Live(g)' = {t}
  BY <1>1, <1>5, CreatedFamilies
<1>7. pc'[r] = "done" /\ made'[r] = t
  BY <1>1, <1>2 DEF CreatingSteps, RefreshCreates, LoginOpens, CreateSuccessor,
     CreateFromLatest, Login, Answer, TypeOK, BrowserTypes
<1>8. Presents(r)'
  <2>1. Active(r)' => sent'[r] = Null \/ sent'[r] = jar'.rt
    BY <1>1, <1>2, <1>4 DEF Presents
  <2> QED
    BY <1>7, <2>1 DEF Presents
<1>9. Delivers(r)'
  <2>1. table'[made'[r]].family = g /\ Live(g)' = {made'[r]}
    BY <1>6, <1>7
  <2>2. reply'[r].kind = "set" => reply'[r].rt = t
    BY <1>3 DEF Nothing
  <2> QED
    BY <1>6, <2>1, <2>2 DEF Delivers
<1>10. \A f \in Families : contended'[f] = {}
  BY <1>2 DEF LoneInv, LoneParts
<1> QED
  BY <1>4, <1>8, <1>9, <1>10 DEF LoneParts

LEMMA LoneArriving ==
  ASSUME LoneInv, StepInv', NEW r \in Requests, Deliver(r) \/ Lose(r), ~overlap'
  PROVE  LoneParts'
<1>1. BrowserTypes /\ StepInv
  BY TypeParts DEF LoneInv, LoneParts, StepInv
<1>2. UNCHANGED <<call, contended, overlap>>
  BY DEF Deliver, Lose, vars
<1>3. /\ reply'[r].kind \in {"delivered", "lost"}
      /\ \A q \in Requests \ {r} : reply'[q] = reply[q]
  BY <1>1 DEF Deliver, Lose, Replies, BrowserTypes, Sent
<1>4. /\ Lone'
      /\ \A q \in Requests \ {r} : Presents(q)' /\ Delivers(q)'
  BY <1>1, <1>2, <1>3, ActiveSteps, OneActs
<1>5. ~Active(r)'
  BY <1>3 DEF Active, Settled
<1>6. \A f \in Families : contended'[f] = {}
  BY <1>2 DEF LoneInv, LoneParts
<1> QED
  BY <1>4, <1>5, <1>6, Passive DEF LoneParts

LEMMA LoneAmbient ==
  ASSUME LoneInv, Ambient, ~overlap'
  PROVE  LoneParts'
<1>1. /\ UNCHANGED <<jar, call, sent, made, reply, overlap>>
      /\ UNCHANGED <<table, pc, stored, seen, answer, contended>>
  BY DEF Ambient
<1>2. \A q \in Requests : Presents(q)' /\ Delivers(q)'
  BY <1>1, Untouched DEF LoneInv, LoneParts
<1>3. Lone' /\ \A f \in Families : contended'[f] = {}
  BY <1>1 DEF LoneInv, LoneParts, Lone, Active, Settled
<1> QED
  BY <1>2, <1>3 DEF LoneParts

LEMMA LoneInit == SessionInit => LoneInv
<1> SUFFICES ASSUME SessionInit PROVE LoneInv
  OBVIOUS
<1>1. StepInv /\ Init
  BY StepInit DEF SessionInit
<1> QED
  BY <1>1, SerialInit
  DEF SessionInit, Init, LoneInv, LoneParts, Lone, Active, Presents, Delivers, Nothing

LEMMA LoneNext == LoneInv /\ [SessionNext]_allVars => LoneInv'
<1> SUFFICES ASSUME LoneInv, [SessionNext]_allVars PROVE LoneInv'
  OBVIOUS
<1>1. StepInv /\ StepInv' /\ SerialInv'
  BY StepNext, SessionMoves, SerialStep DEF LoneInv, LoneParts
<1>2. ~overlap' => LoneParts'
  BY <1>1, SessionCases, LoneSending, LoneReplying, LoneWorking, LoneCreating, LoneArriving,
     LoneAmbient
<1> QED
  BY <1>1, <1>2 DEF LoneInv, LoneParts

----------------------------------------------------------------------------
(* A refresh whose reply was lost can be retried.  As long as no statement *)
(* fails, the family of the jar's token has a live token or is about to,   *)
(* unless that token was found reused, too late, and will be again.        *)
Unfailed == \A r \in Requests : answer[r] # "failed"

TooLate(t) == table[t].revokedAt # Null /\ now - table[t].revokedAt > Grace

Rotates(r) == pc[r] \in {"create", "createLatest"}

Retriable ==
  jar.rt # Null =>
    \/ Live(table[jar.rt].family) # {}
    \/ \E r \in Requests : Rotates(r)
    \/ TooLate(jar.rt)

Late(r) ==
  pc[r] = "revokeFamily" \/ answer[r] = "reuse" =>
    seen[r] # Null /\ now - seen[r] > Grace

RetryParts == Retriable /\ \A r \in Requests : Late(r)

RetryInv == LoneInv /\ (~overlap /\ Unfailed => RetryParts)

(* The request that runs: what it presents, and in which family.           *)
LEMMA Presented ==
  ASSUME LoneInv, ~overlap, NEW r \in Requests, pc[r] \in Waits
  PROVE  /\ jar.rt \in Issued /\ jar.rt # Null /\ stored[r] = jar.rt /\ Active(r)
         /\ table[jar.rt].family \in Families /\ contended[table[jar.rt].family] = {}
         /\ pc[r] \in {"lookedUp", "revokeFamily"} => seen[r] = table[jar.rt].revokedAt
         /\ \A q \in Requests \ {r} : pc[q] \notin Waits
<1>1. StepInv /\ TypeOK /\ BrowserTypes /\ Presents(r) /\ Lone
  BY TypeParts DEF LoneInv, LoneParts, StepInv
<1>2. Active(r) /\ stored[r] = sent[r] /\ sent[r] # Null
  BY <1>1, ActiveRequests
<1>3. stored[r] = jar.rt /\ jar.rt # Null /\ jar.rt \in Issued
  BY <1>1, <1>2 DEF Presents, BrowserTypes, RefreshCookie
<1>4. \A q \in Requests \ {r} : pc[q] \notin Waits
  BY <1>1, <1>2, ActiveRequests DEF Lone
<1> QED
  BY <1>1, <1>2, <1>3, <1>4, IssuedRow DEF LoneInv, LoneParts, Presents, Row

(* Within the grace period, by every clock, the latest token is found.     *)
LEMMA LatestFound ==
  ASSUME LoneInv, ~overlap, RetryParts, NEW r \in Requests, FindNoLatest(r)
  PROVE  seen[r] # Null /\ now - seen[r] > Grace
<1>1. pc[r] = "lookedUp" /\ seen[r] # Null
  BY DEF FindNoLatest
<1>2. PICK t \in Issued, g \in Families :
        /\ t = jar.rt /\ g = table[t].family /\ t # Null /\ stored[r] = t /\ contended[g] = {}
        /\ seen[r] = table[t].revokedAt
        /\ \A q \in Requests \ {r} : pc[q] \notin Waits
  BY <1>1, Presented DEF Waits
<1>3. ~\E q \in Requests : Rotates(q)
  BY <1>1, <1>2 DEF Rotates, Waits
<1>4. Live(g) = {}
  <2> SUFFICES ASSUME NEW x \in Live(g) PROVE FALSE
    OBVIOUS
  <2>1. \A y \in Live(g) : y = x
    BY <1>2 DEF LoneInv, SerialInv, OneLiveToken
  <2>2. table[x].createdAt \in Nat
    BY IssuedRow DEF LoneInv, SerialInv, Live, Members, Row
  <2>3. x \in LatestLive(g)
    BY <2>1, <2>2 DEF LatestLive
  <2>4. LatestLive(g) = {}
    BY <1>2 DEF FindNoLatest
  <2> QED
    BY <2>3, <2>4
<1> QED
  BY <1>1, <1>2, <1>3, <1>4 DEF RetryParts, Retriable, TooLate

(* How requests were answered, and when.                                   *)
LEMMA AnswersKept ==
  ASSUME StepInv, [Next]_vars
  PROVE  /\ now \in Nat /\ now' \in Nat /\ now <= now'
         /\ \A q \in Requests : answer[q] # "none" =>
              pc'[q] = "done" /\ answer'[q] = answer[q] /\ seen'[q] = seen[q]
<1>1. TypeOK
  BY TypeParts DEF StepInv
<1>2. CASE Next
  BY <1>1, <1>2, ClockStep, RequestsKept DEF TypeOK
<1>3. CASE UNCHANGED vars
  BY <1>1, <1>3 DEF vars, TypeOK
<1> QED
  BY <1>2, <1>3

LEMMA LateStep ==
  ASSUME LoneInv, ~overlap, RetryParts, [Next]_vars, NEW r \in Requests
  PROVE  Late(r)'
<1>1. TypeOK /\ StepInv /\ Late(r)
  BY TypeParts DEF LoneInv, StepInv, RetryParts
<1>2. CASE UNCHANGED vars
  BY <1>1, <1>2 DEF vars, Late
<1>3. CASE Next
  <2>0. now \in Nat /\ now' \in Nat /\ now <= now' /\ Grace \in Nat
    BY <1>1, AnswersKept, BoundsAssumption
  <2>1. CASE pc[r] = "revokeFamily" \/ answer[r] = "reuse"
    <3>1. seen'[r] = seen[r] /\ seen[r] # Null /\ now - seen[r] > Grace
      BY <1>1, <1>3, <2>1, RequestsKept DEF Late, TypeOK
    <3>2. seen[r] \in Nat
      BY <1>1, <3>1 DEF TypeOK
    <3> QED
      BY <2>0, <3>1, <3>2 DEF Late
  <2>2. CASE pc[r] # "revokeFamily" /\ pc'[r] = "revokeFamily"
    <3>1. FindNoLatest(r)
      BY <1>1, <1>3, <2>2, RejectionSteps
    <3>2. now' = now /\ seen' = seen
      BY <3>1 DEF FindNoLatest
    <3> QED
      BY <3>1, <3>2, LatestFound DEF Late
  <2>3. CASE pc[r] # "revokeFamily" /\ answer[r] # "reuse" /\ answer'[r] = "reuse"
    <3>1. DetectReuse(r)
      BY <1>1, <1>3, <2>3, RejectionSteps
    <3>2. PICK d \in Clock : pc[r] = "lookedUp" /\ seen[r] # Null /\ ~WithinGrace(r, d)
      BY <2>3, <3>1 DEF DetectReuse
    <3>3. now' = now /\ seen' = seen
      BY <3>1 DEF DetectReuse
    <3>4. seen[r] \in Nat /\ d \in Nat /\ d <= now
      BY <1>1, <2>0, <3>2, ClockDates DEF TypeOK
    <3> QED
      BY <2>0, <3>2, <3>3, <3>4 DEF Late, WithinGrace
  <2> QED
    BY <2>1, <2>2, <2>3 DEF Late
<1> QED
  BY <1>2, <1>3

(* A step that leaves the jar and the row of its token alone, and ends no  *)
(* rotation, leaves it retriable.                                          *)
LEMMA RetriableKept ==
  ASSUME StepInv, [Next]_vars, Retriable, jar' = jar,
         jar.rt # Null => table'[jar.rt].revokedAt = table[jar.rt].revokedAt,
         \A f : Live(f) # {} => Live(f)' # {},
         \A r \in Requests : Rotates(r) => Rotates(r)'
  PROVE  Retriable'
<1> SUFFICES ASSUME jar.rt # Null PROVE Retriable'
  BY DEF Retriable
<1>1. TypeOK /\ jar.rt \in Issued
  BY TypeParts DEF StepInv, BrowserTypes, RefreshCookie
<1>2. PICK t \in Issued, g \in Families : t = jar.rt /\ g = table[t].family /\ jar'.rt = t
  BY <1>1, IssuedRow DEF Row
<1>3. table'[t].family = g
  <2>1. CASE Next
    BY <1>1, <1>2, <2>1, RowsKept
  <2>2. CASE UNCHANGED vars
    BY <1>2, <2>2 DEF vars
  <2> QED
    BY <2>1, <2>2
<1>4. CASE Live(g) # {}
  <2>1. Live(g)' # {}
    BY <1>2, <1>4
  <2> QED
    BY <1>2, <1>3, <2>1 DEF Retriable
<1>5. CASE \E r \in Requests : Rotates(r)
  BY <1>5 DEF Retriable
<1>6. CASE TooLate(t)
  <2>1. table'[t].revokedAt = table[t].revokedAt
    BY <1>2, <1>6 DEF TooLate
  <2>2. /\ now \in Nat /\ now' \in Nat /\ now <= now'
        /\ table[t].revokedAt \in Nat
    BY <1>1, <1>6, AnswersKept, IssuedRow DEF TooLate, Row
  <2>3. TooLate(t)'
    BY <1>6, <2>1, <2>2, BoundsAssumption DEF TooLate
  <2> QED
    BY <1>2, <2>3 DEF Retriable, TooLate
<1> QED
  BY <1>2, <1>4, <1>5, <1>6 DEF Retriable

LEMMA RetryWorking ==
  ASSUME LoneInv, ~overlap, RetryParts, [Next]_vars, Unfailed', NEW r \in Requests, Working(r)
  PROVE  Retriable'
<1>1. /\ TypeOK /\ StepInv /\ Retriable /\ jar' = jar /\ Late(r)
  BY TypeParts DEF LoneInv, StepInv, RetryParts, Working
<1>2. CASE RefreshArrives(r)
  <2>1. table' = table /\ pc[r] = "idle" /\ \A q \in Requests \ {r} : pc'[q] = pc[q]
    BY <1>1, <1>2 DEF RefreshArrives, RotateLookup, Read, Await, TypeOK
  <2>2. \A f : Live(f)' = Live(f)
    BY <2>1 DEF Live, Members, Issued
  <2>3. \A q \in Requests : Rotates(q) => Rotates(q)'
    BY <2>1 DEF Rotates
  <2> QED
    BY <1>1, <2>1, <2>2, <2>3, RetriableKept
<1>3. CASE RefreshRuns(r)
  <2>1. /\ pc[r] \in Waits /\ \A q \in Requests \ {r} : pc'[q] = pc[q]
    BY <1>1, <1>3 DEF RefreshRuns, RejectExpired, RevokePresented, FindLatest, FindNoLatest,
       RevokeLatest, DetectReuse, Fail, Await, Answer, TypeOK, Waits
  <2>2. CASE RevokePresented(r) \/ RevokeLatest(r)
    <3>1. Rotates(r)'
      BY <1>1, <2>2 DEF RevokePresented, RevokeLatest, Await, TypeOK, Rotates
    <3> QED
      BY <3>1 DEF Retriable
  <2>3. CASE RejectExpired(r) \/ FindNoLatest(r) \/ \E t \in Tokens : FindLatest(r, t)
    <3>1. table' = table /\ pc[r] = "lookedUp"
      BY <2>3 DEF RejectExpired, FindNoLatest, FindLatest
    <3>2. \A f : Live(f)' = Live(f)
      BY <3>1 DEF Live, Members, Issued
    <3>3. \A q \in Requests : Rotates(q) => Rotates(q)'
      BY <2>1, <3>1 DEF Rotates
    <3> QED
      BY <1>1, <3>1, <3>2, <3>3, RetriableKept
  <2>4. CASE DetectReuse(r)
    <3>1. now \in Nat /\ Grace \in Nat
      BY <1>1, BoundsAssumption DEF TypeOK
    <3>2. seen[r] # Null /\ now - seen[r] > Grace
      <4>1. CASE pc[r] = "revokeFamily"
        BY <1>1, <4>1 DEF Late
      <4>2. ASSUME NEW d \in Clock, pc[r] = "lookedUp", seen[r] # Null, ~WithinGrace(r, d)
            PROVE  now - seen[r] > Grace
        <5>1. seen[r] \in Nat /\ d \in Nat /\ d <= now
          BY <1>1, <3>1, <4>2, ClockDates DEF TypeOK
        <5> QED
          BY <3>1, <4>2, <5>1 DEF WithinGrace
      <4> QED
        BY <2>4, <4>1, <4>2 DEF DetectReuse
    <3> DEFINE S == Live(table[stored[r]].family)
    <3>3. Revokes(S) /\ S \in SUBSET Issued /\ now' = now
      BY <2>4 DEF DetectReuse, Revokes, Live, Members
    <3>4. PICK t \in Issued : /\ t = jar.rt
                              /\ table[t].revokedAt # Null /\ now - table[t].revokedAt > Grace
      BY <2>1, <2>4, <3>2, Presented DEF DetectReuse
    <3>5. t \notin S
      BY <3>4 DEF Live
    <3> HIDE DEF S
    <3>6. table'[t] = table[t]
      BY <1>1, <3>3, <3>5, RevokedDates
    <3> QED
      BY <1>1, <3>3, <3>4, <3>6 DEF Retriable, TooLate
  <2>5. CASE Fail(r)
    BY <1>1, <2>5 DEF Fail, Answer, TypeOK, Unfailed
  <2> QED
    BY <1>3, <2>2, <2>3, <2>4, <2>5 DEF RefreshRuns
<1> QED
  BY <1>2, <1>3 DEF Working

LEMMA RetryCreating ==
  ASSUME LoneInv, ~overlap, RetryParts, [Next]_vars,
         NEW r \in Requests, NEW t \in Tokens, CreatingSteps(r, t)
  PROVE  Retriable'
<1>1. /\ TypeOK /\ StepInv /\ Retriable
  BY TypeParts DEF LoneInv, StepInv, RetryParts
<1>2. jar' = jar /\ \A q \in Requests \ {r} : pc'[q] = pc[q]
  BY <1>1 DEF CreatingSteps, RefreshCreates, LoginOpens, CreateSuccessor, CreateFromLatest,
     Login, Answer, TypeOK
<1>3. PICK g \in Families, u \in Users :
        /\ CreateToken(t, u, g)
        /\ RefreshCreates(r, t) => g = table[stored[r]].family
  BY CreatedIsLive
<1>4. /\ \A x \in Issued : table'[x] = table[x]
      /\ \A f : Live(f)' = IF f = g THEN Live(f) \cup {t} ELSE Live(f)
  BY <1>1, <1>3, CreatedFamilies
<1>5. jar.rt # Null => jar.rt \in Issued
  BY <1>1, TypeParts DEF StepInv, BrowserTypes, RefreshCookie
<1>6. CASE RefreshCreates(r, t)
  <2>1. pc[r] \in Waits
    BY <1>6 DEF RefreshCreates, CreateSuccessor, CreateFromLatest, Waits
  <2>2. jar.rt \in Issued /\ table[jar.rt].family = g
    BY <1>3, <1>6, <2>1, Presented
  <2>3. table'[jar.rt].family = g /\ Live(g)' # {}
    BY <1>4, <2>2
  <2> QED
    BY <1>2, <2>3 DEF Retriable
<1>7. CASE \E f \in Families : LoginOpens(r, f, t)
  <2>1. pc[r] = "idle"
    BY <1>7 DEF LoginOpens, Login
  <2>2. \A q \in Requests : Rotates(q) => Rotates(q)'
    BY <1>2, <2>1 DEF Rotates
  <2>3. \A f : Live(f) # {} => Live(f)' # {}
    BY <1>4
  <2> QED
    BY <1>1, <1>2, <1>4, <1>5, <2>2, <2>3, RetriableKept
<1> QED
  BY <1>6, <1>7 DEF CreatingSteps

(* The reply of a login, or of a refresh, brings a live token.             *)
LEMMA RetryArriving ==
  ASSUME LoneInv, ~overlap, RetryParts, [Next]_vars, NEW r \in Requests, Deliver(r) \/ Lose(r)
  PROVE  Retriable'
<1>1. /\ StepInv /\ Retriable /\ InStep(r) /\ Delivers(r)
  BY DEF LoneInv, LoneParts, StepInv, RetryParts
<1>2. UNCHANGED <<table, pc, now>>
  BY DEF Deliver, Lose, vars
<1>3. \A f : Live(f)' = Live(f)
  BY <1>2 DEF Live, Members, Issued
<1>4. CASE jar' = jar
  BY <1>1, <1>2, <1>3, <1>4, RetriableKept DEF Rotates
<1>5. CASE jar' # jar
  <2>1. PICK a, t : a = reply[r].at /\ t = reply[r].rt
    OBVIOUS
  <2>2. reply[r].kind \in {"set", "clear"} /\ jar' = [at |-> a, rt |-> t]
    BY <1>5, <2>1 DEF Deliver, Lose
  <2>3. CASE reply[r].kind = "set"
    <3>1. Live(table[t].family)' = {t}
      BY <1>1, <1>2, <1>3, <2>1, <2>3 DEF Delivers
    <3> QED
      BY <2>2, <3>1 DEF Retriable
  <2>4. CASE reply[r].kind = "clear"
    BY <1>1, <2>1, <2>2, <2>4 DEF InStep, Retriable
  <2> QED
    BY <2>2, <2>3, <2>4
<1> QED
  BY <1>4, <1>5

(* The others change neither the table nor the jar.                        *)
LEMMA RetryElsewhere ==
  ASSUME LoneInv, RetryParts, [Next]_vars, UNCHANGED <<jar, table, pc>>
  PROVE  Retriable'
<1>1. StepInv /\ Retriable
  BY DEF LoneInv, RetryParts
<1>2. \A f : Live(f)' = Live(f)
  BY DEF Live, Members, Issued
<1> QED
  BY <1>1, <1>2, RetriableKept DEF Rotates

LEMMA OverlapStays ==
  ASSUME StepInv, [SessionNext]_allVars, ~overlap'
  PROVE  ~overlap
  BY SessionCases DEF Sending, Sends, Replying, Working, CreatingSteps, RefreshCreates,
     LoginOpens, Deliver, Lose, Ambient

LEMMA RetryNext == RetryInv /\ [SessionNext]_allVars => RetryInv'
<1> SUFFICES ASSUME RetryInv, [SessionNext]_allVars PROVE RetryInv'
  OBVIOUS
<1>1. LoneInv /\ LoneInv' /\ StepInv /\ [Next]_vars
  BY LoneNext, SessionMoves DEF RetryInv, LoneInv
<1> SUFFICES ASSUME ~overlap', Unfailed' PROVE RetryParts'
  BY <1>1 DEF RetryInv
<1>2. ~overlap
  BY <1>1, OverlapStays
<1>3. Unfailed
  BY <1>1, AnswersKept DEF Unfailed
<1>4. RetryParts
  BY <1>2, <1>3 DEF RetryInv
<1>5. \A r \in Requests : Late(r)'
  BY <1>1, <1>2, <1>4, LateStep
<1>6. Retriable'
  <2>1. ASSUME NEW r \in Requests, NEW c, NEW url, Sending(r, c, url) PROVE Retriable'
    BY <1>1, <1>4, <2>1, RetryElsewhere DEF Sending, vars
  <2>2. ASSUME NEW r \in Requests, NEW m, Replying(r, m) PROVE Retriable'
    BY <1>1, <1>4, <2>2, RetryElsewhere DEF Replying, vars
  <2>3. CASE Ambient
    BY <1>1, <1>4, <2>3, RetryElsewhere DEF Ambient
  <2> QED
    BY <1>1, <1>2, <1>4, <2>1, <2>2, <2>3, SessionCases, RetryWorking, RetryCreating,
       RetryArriving
<1> QED
  BY <1>5, <1>6 DEF RetryParts

(* Where calls do not overlap and no statement fails, a refresh whose      *)
(* reply was lost is taken for reuse only after the grace period: the old  *)
(* cookie is good until then, however often it is presented.               *)
THEOREM RetryWithinGraceHolds == SessionSpec => []RetryWithinGrace
<1>1. SessionInit => RetryInv
  <2> SUFFICES ASSUME SessionInit PROVE RetryInv
    OBVIOUS
  <2> QED
    BY LoneInit DEF SessionInit, Init, RetryInv, RetryParts, Retriable, Late
<1>2. RetryInv => RetryWithinGrace
  BY DEF RetryInv, RetryParts, Late, Unfailed, RetryWithinGrace
<1> QED
  BY <1>1, <1>2, RetryNext, PTL DEF SessionSpec

----------------------------------------------------------------------------
(* As long as nothing was lost, the jar holds the live token of its        *)
(* family, but for the time from the revocation of one to the reply that   *)
(* brings the next.                                                        *)
SmoothSoFar ==
  \A r \in Requests :
    /\ reply[r].kind # "lost"
    /\ answer[r] # "failed"
    /\ answer[r] = "served" /\ reply[r] # Nothing => reply[r].rt # Null

Renewing(r) == pc[r] = "create" \/ (answer[r] = "served" /\ Active(r))

Steady ==
  jar.rt # Null =>
    \/ Live(table[jar.rt].family) = {jar.rt}
    \/ \E r \in Requests : Renewing(r)

SteadyParts ==
  /\ Steady
  /\ \A r \in Requests : pc[r] \notin {"revokeLatest", "createLatest", "revokeFamily"}

SteadyInv == LoneInv /\ (~overlap /\ SmoothSoFar => SteadyParts)

(* What was lost stays lost.                                               *)
LEMMA SmoothBefore ==
  ASSUME StepInv, [SessionNext]_allVars, SmoothSoFar'
  PROVE  SmoothSoFar
<1>1. BrowserTypes /\ [Next]_vars
  BY SessionMoves, TypeParts DEF StepInv
<1>2. ASSUME NEW q \in Requests, answer[q] # "none" PROVE answer'[q] = answer[q]
  BY <1>1, <1>2, AnswersKept
<1>3. ASSUME NEW q \in Requests
      PROVE  \/ reply[q] = Nothing
             \/ reply'[q] = reply[q]
             \/ (reply[q].kind # "lost" /\ reply'[q].rt = reply[q].rt /\ reply'[q] # Nothing)
  <2>1. ASSUME NEW r \in Requests, NEW c, NEW url, Sending(r, c, url) PROVE reply' = reply
    BY <2>1 DEF Sending
  <2>2. ASSUME NEW r \in Requests, NEW m, Replying(r, m)
        PROVE  reply[r] = Nothing /\ \A s \in Requests \ {r} : reply'[s] = reply[s]
    BY <1>1, <2>2 DEF Replying, Replies, BrowserTypes
  <2>3. ASSUME NEW r \in Requests, Working(r) PROVE reply' = reply
    BY <2>3 DEF Working
  <2>4. ASSUME NEW r \in Requests, NEW t \in Tokens, CreatingSteps(r, t)
        PROVE  reply[r] = Nothing /\ \A s \in Requests \ {r} : reply'[s] = reply[s]
    BY <1>1, <2>4, ActiveSteps DEF CreatingSteps, RefreshCreates, LoginOpens, Replies, BrowserTypes
  <2>5. ASSUME NEW r \in Requests, Deliver(r) \/ Lose(r)
        PROVE  /\ \A s \in Requests \ {r} : reply'[s] = reply[s]
               /\ reply[r].kind # "lost" /\ reply'[r].rt = reply[r].rt /\ reply'[r] # Nothing
    BY <1>1, <2>5 DEF Deliver, Lose, Replies, BrowserTypes, Sent, Nothing
  <2>6. Ambient => reply' = reply
    BY DEF Ambient
  <2> QED
    BY <2>1, <2>2, <2>3, <2>4, <2>5, <2>6, SessionCases
<1>4. ASSUME NEW q \in Requests
      PROVE  /\ reply[q].kind # "lost"
             /\ answer[q] # "failed"
             /\ answer[q] = "served" /\ reply[q] # Nothing => reply[q].rt # Null
  <2>1. reply[q].kind # "lost"
    BY <1>3 DEF SmoothSoFar, Nothing
  <2>2. answer[q] # "failed"
    BY <1>2 DEF SmoothSoFar
  <2>3. answer[q] = "served" /\ reply[q] # Nothing => reply[q].rt # Null
    BY <1>2, <1>3 DEF SmoothSoFar
  <2> QED
    BY <2>1, <2>2, <2>3
<1> QED
  BY <1>4 DEF SmoothSoFar

(* A step that leaves the jar and the table alone, and ends no renewal.    *)
LEMMA SteadyKept ==
  ASSUME Steady, UNCHANGED <<jar, table>>, \A q \in Requests : Renewing(q) => Renewing(q)'
  PROVE  Steady'
<1>1. \A f : Live(f)' = Live(f)
  BY DEF Live, Members, Issued
<1> QED
  BY <1>1 DEF Steady

LEMMA SteadySending ==
  ASSUME StepInv, NEW r \in Requests, NEW c \in Endpoints, NEW url, Sending(r, c, url),
         SteadyParts
  PROVE  SteadyParts'
<1>1. /\ BrowserTypes /\ call[r] = "none" /\ pc[r] = "idle"
      /\ \A q \in Requests \ {r} : call'[q] = call[q]
      /\ UNCHANGED <<jar, table, pc, answer, reply>>
  BY SendTypes, TypeParts DEF Sending, StepInv, vars, InStep
<1>2. \A q \in Requests : Renewing(q) => Renewing(q)'
  BY <1>1 DEF Renewing, Active, Settled
<1> QED
  BY <1>1, <1>2, SteadyKept DEF SteadyParts

LEMMA SteadyReplying ==
  ASSUME StepInv, NEW r \in Requests, NEW m \in Sent', Replying(r, m), SteadyParts, SmoothSoFar'
  PROVE  SteadyParts'
<1>1. /\ BrowserTypes /\ InStep(r) /\ call[r] # "none" /\ m.kind \in {"set", "clear", "error"}
      /\ UNCHANGED <<jar, table, pc, answer, call>>
      /\ reply'[r] = m /\ \A q \in Requests \ {r} : reply'[q] = reply[q]
  BY TypeParts DEF Replying, StepInv, vars, Replies, BrowserTypes
<1>2. \A q \in Requests : Renewing(q) => Renewing(q)'
  BY <1>1 DEF Renewing, Active, Settled
<1> QED
  BY <1>1, <1>2, SteadyKept DEF SteadyParts

(* The token presented is live, so that it is rotated, or is expired.      *)
LEMMA SteadyWorking ==
  ASSUME LoneInv, ~overlap, NEW r \in Requests, Working(r), SteadyParts, SmoothSoFar'
  PROVE  SteadyParts'
<1>1. /\ TypeOK /\ StepInv /\ Steady /\ Lone /\ UNCHANGED <<jar, call, reply>>
      /\ pc[r] \notin {"revokeLatest", "createLatest", "revokeFamily"}
  BY TypeParts DEF LoneInv, LoneParts, StepInv, SteadyParts, Working
<1>2. CASE RefreshArrives(r)
  <2>1. /\ table' = table /\ answer' = answer /\ pc[r] = "idle" /\ pc'[r] = "lookedUp"
        /\ \A q \in Requests \ {r} : pc'[q] = pc[q]
    BY <1>1, <1>2 DEF RefreshArrives, RotateLookup, Read, Await, TypeOK
  <2>2. \A q \in Requests : Renewing(q) => Renewing(q)'
    BY <1>1, <2>1 DEF Renewing, Active, Settled
  <2> QED
    BY <1>1, <2>1, <2>2, SteadyKept DEF SteadyParts
<1>3. CASE RefreshRuns(r)
  <2>1. pc[r] \in Waits /\ \A q \in Requests \ {r} : pc'[q] = pc[q] /\ answer'[q] = answer[q]
    BY <1>1, <1>3 DEF RefreshRuns, RejectExpired, RevokePresented, FindLatest, FindNoLatest,
       RevokeLatest, DetectReuse, Fail, Await, Answer, TypeOK, Waits
  <2>2. ~Fail(r)
    BY <1>1 DEF Fail, Answer, TypeOK, SmoothSoFar
  <2>3. pc[r] = "lookedUp"
    BY <1>1, <1>3, <2>2 DEF RefreshRuns, RejectExpired, RevokePresented, FindLatest,
       FindNoLatest, RevokeLatest, DetectReuse
  <2>4. seen[r] = Null
    <3>1. PICK t \in Issued :
            /\ t = jar.rt /\ t # Null /\ seen[r] = table[t].revokedAt /\ Active(r)
      BY <2>1, <2>3, Presented
    <3>2. \A q \in Requests : ~Renewing(q)
      <4>1. answer[r] = "none"
        BY <1>1, <2>3 DEF TypeOK
      <4>2. \A q \in Requests \ {r} : ~Active(q) /\ pc[q] \notin Waits
        BY <1>1, <2>1, <3>1, Presented DEF Lone
      <4> QED
        BY <2>3, <4>1, <4>2 DEF Renewing, Waits
    <3>3. t \in Live(table[t].family)
      BY <1>1, <3>1, <3>2 DEF Steady
    <3> QED
      BY <3>1, <3>3 DEF Live
  <2>5. CASE RejectExpired(r)
    <3>1. table' = table /\ pc'[r] = "done" /\ answer[r] = "none"
      BY <1>1, <2>3, <2>5 DEF RejectExpired, Answer, TypeOK
    <3>2. \A q \in Requests : Renewing(q) => Renewing(q)'
      BY <1>1, <2>1, <2>3, <3>1 DEF Renewing, Active, Settled
    <3> QED
      BY <1>1, <2>1, <3>1, <3>2, SteadyKept DEF SteadyParts
  <2>6. CASE RevokePresented(r)
    <3>1. pc'[r] = "create"
      BY <1>1, <2>6 DEF RevokePresented, Await, TypeOK
    <3> QED
      BY <2>1, <3>1 DEF SteadyParts, Steady, Renewing
  <2> QED
    BY <1>3, <2>2, <2>3, <2>4, <2>5, <2>6 DEF RefreshRuns, FindLatest, FindNoLatest,
       RevokeLatest, DetectReuse
<1> QED
  BY <1>2, <1>3 DEF Working

LEMMA SteadyCreating ==
  ASSUME LoneInv, ~overlap, NEW r \in Requests, NEW t \in Tokens, CreatingSteps(r, t),
         SteadyParts
  PROVE  SteadyParts'
<1>1. /\ TypeOK /\ StepInv /\ BrowserTypes /\ Steady /\ Active(r) /\ reply[r] = Nothing
  BY TypeParts, ActiveSteps DEF LoneInv, StepInv, SteadyParts
<1>2. /\ UNCHANGED <<jar, call>> /\ pc'[r] = "done"
      /\ \A q \in Requests \ {r} : /\ pc'[q] = pc[q] /\ answer'[q] = answer[q]
                                   /\ reply'[q] = reply[q]
  BY <1>1 DEF CreatingSteps, RefreshCreates, LoginOpens, CreateSuccessor, CreateFromLatest,
     Login, Answer, TypeOK, Replies, BrowserTypes
<1>3. Steady'
  <2>1. CASE RefreshCreates(r, t)
    <3>1. reply' = reply /\ answer'[r] = "served"
      BY <1>1, <2>1 DEF RefreshCreates, CreateSuccessor, CreateFromLatest, Answer, TypeOK
    <3>2. Renewing(r)'
      BY <1>1, <1>2, <3>1 DEF Renewing, Active, Settled
    <3> QED
      BY <3>2 DEF Steady
  <2>2. CASE ~RefreshCreates(r, t)
    <3>1. PICK g \in Families, u \in Users : CreateToken(t, u, g) /\ Members(g) = {}
      BY <2>2, CreatedIsLive
    <3>2. /\ \A x \in Issued : table'[x] = table[x]
          /\ \A f : Live(f)' = IF f = g THEN Live(f) \cup {t} ELSE Live(f)
      BY <1>1, <3>1, CreatedFamilies
    <3>3. pc[r] = "idle"
      BY <2>2 DEF CreatingSteps, LoginOpens, Login
    <3>4. ASSUME jar.rt # Null, Live(table[jar.rt].family) = {jar.rt}
          PROVE  Steady'
      <4>1. PICK x \in Issued : x = jar.rt /\ jar'.rt = x
        BY <1>1, <1>2, <3>4 DEF BrowserTypes, RefreshCookie
      <4>2. table[x].family # g
        BY <3>1, <4>1 DEF Members
      <4>3. Live(table[x].family)' = {x}
        BY <3>2, <3>4, <4>1, <4>2
      <4> QED
        BY <4>1, <4>3 DEF Steady
    <3>5. ASSUME NEW q \in Requests, Renewing(q) PROVE Renewing(q)'
      <4>1. q # r
        BY <1>1, <3>3, <3>5 DEF Renewing, TypeOK
      <4> QED
        BY <1>2, <3>5, <4>1 DEF Renewing, Active, Settled
    <3>6. jar'.rt = Null => Steady'
      BY DEF Steady
    <3>7. (\E q \in Requests : Renewing(q)') => Steady'
      BY DEF Steady
    <3> QED
      BY <1>1, <1>2, <3>4, <3>5, <3>6, <3>7 DEF Steady
  <2> QED
    BY <2>1, <2>2
<1> QED
  BY <1>2, <1>3 DEF SteadyParts

(* A reply brings the live token, clears the jar, or leaves it to the      *)
(* token that nothing has renewed.                                         *)
LEMMA SteadyArriving ==
  ASSUME LoneInv, ~overlap, NEW r \in Requests, Deliver(r) \/ Lose(r),
         SteadyParts, SmoothSoFar, SmoothSoFar'
  PROVE  SteadyParts'
<1>1. /\ TypeOK /\ StepInv /\ BrowserTypes /\ Steady /\ Lone /\ InStep(r) /\ Delivers(r)
      /\ Active(r)
  BY TypeParts, ActiveSteps DEF LoneInv, LoneParts, StepInv, SteadyParts
<1>2. UNCHANGED <<table, pc, answer, call>>
  BY DEF Deliver, Lose, vars
<1>3. \A f : Live(f)' = Live(f)
  BY <1>2 DEF Live, Members, Issued
<1>4. Deliver(r)
  BY <1>1 DEF Lose, Replies, BrowserTypes, Sent, SmoothSoFar
<1>5. PICK a, t : a = reply[r].at /\ t = reply[r].rt
  OBVIOUS
<1>6. reply[r].kind \in {"set", "clear", "error"} /\ reply[r] # Nothing
  BY <1>4 DEF Deliver, Nothing
<1>7. Steady'
  <2>1. CASE reply[r].kind = "set"
    <3>1. jar' = [at |-> a, rt |-> t]
      BY <1>4, <1>5, <2>1 DEF Deliver
    <3>2. Live(table[t].family)' = {t}
      BY <1>1, <1>2, <1>3, <1>5, <2>1 DEF Delivers
    <3> QED
      BY <3>1, <3>2 DEF Steady
  <2>2. CASE reply[r].kind = "clear"
    <3>1. jar' = [at |-> a, rt |-> t]
      BY <1>4, <1>5, <2>2 DEF Deliver
    <3> QED
      BY <1>1, <1>5, <2>2, <3>1 DEF InStep, Steady
  <2>3. CASE reply[r].kind = "error"
    <3>1. jar' = jar
      BY <1>4, <2>3 DEF Deliver
    <3>2. answer[r] # "served" /\ pc[r] # "create"
      BY <1>1, <1>6, <2>3 DEF InStep, SmoothSoFar, Waits
    <3>3. \A q \in Requests : ~Renewing(q)
      BY <1>1, <3>2, ActiveRequests DEF Renewing, Lone, Waits
    <3> QED
      BY <1>1, <1>2, <3>1, <3>3, SteadyKept
  <2> QED
    BY <1>6, <2>1, <2>2, <2>3
<1> QED
  BY <1>2, <1>7 DEF SteadyParts

LEMMA SteadyAmbient ==
  ASSUME Ambient, SteadyParts
  PROVE  SteadyParts'
<1>1. UNCHANGED <<jar, table, pc, answer, call, reply>>
  BY DEF Ambient
<1>2. \A q \in Requests : Renewing(q) => Renewing(q)'
  BY <1>1 DEF Renewing, Active, Settled
<1> QED
  BY <1>1, <1>2, SteadyKept DEF SteadyParts

LEMMA SteadyNext == SteadyInv /\ [SessionNext]_allVars => SteadyInv'
<1> SUFFICES ASSUME SteadyInv, [SessionNext]_allVars PROVE SteadyInv'
  OBVIOUS
<1>1. LoneInv /\ LoneInv' /\ StepInv
  BY LoneNext DEF SteadyInv, LoneInv
<1> SUFFICES ASSUME ~overlap', SmoothSoFar' PROVE SteadyParts'
  BY <1>1 DEF SteadyInv
<1>2. ~overlap /\ SmoothSoFar
  BY <1>1, OverlapStays, SmoothBefore
<1>3. SteadyParts
  BY <1>2 DEF SteadyInv
<1> QED
  BY <1>1, <1>2, <1>3, SessionCases, SteadySending, SteadyReplying, SteadyWorking,
     SteadyCreating, SteadyArriving, SteadyAmbient

(* Where calls do not overlap and nothing was lost, a browser that waits   *)
(* for nothing holds the one token of its family that is not revoked: what *)
(* a login or a rotation leaves in the table is what setAuthCookies left   *)
(* in the jar.                                                             *)
THEOREM JarHoldsLiveTokenHolds == SessionSpec => []JarHoldsLiveToken
<1>1. SessionInit => SteadyInv
  <2> SUFFICES ASSUME SessionInit PROVE SteadyInv
    OBVIOUS
  <2> QED
    BY LoneInit DEF SessionInit, Init, SteadyInv, SteadyParts, Steady
<1>2. SteadyInv => JarHoldsLiveToken
  <2> SUFFICES ASSUME SteadyInv, ~overlap, Quiet, Smooth, jar.rt # Null
               PROVE  Live(table[jar.rt].family) = {jar.rt}
    BY DEF JarHoldsLiveToken
  <2>1. SmoothSoFar /\ StepInv
    BY DEF Smooth, SmoothSoFar, SteadyInv, LoneInv
  <2>2. \A q \in Requests : ~Renewing(q)
    BY <2>1, ActiveRequests DEF Renewing, Quiet, Active, Waits
  <2> QED
    BY <2>1, <2>2 DEF SteadyInv, SteadyParts, Steady
<1> QED
  BY <1>1, <1>2, SteadyNext, PTL DEF SessionSpec
=============================================================================
