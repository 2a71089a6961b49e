------------------------- MODULE RefreshTokensProofs -------------------------
(***************************************************************************)
(* Theorems about RefreshTokens, for every set of requests, tokens,        *)
(* families and users and for every TTL, grace period and clock.           *)
(***************************************************************************)
EXTENDS RefreshTokens, FiniteSetTheorems, WellFoundedInduction, TLAPS

(* A row that is written is a row, and no statement deletes one.           *)
LEMMA RevokedRows ==
  ASSUME TypeOK, NEW S \in SUBSET Issued, Revokes(S)
  PROVE  /\ table' \in [Tokens -> Row \cup {Null}]
         /\ \A t \in Tokens : (table'[t] = Null) <=> (table[t] = Null)
<1>1. PICK d \in Clock : table' = Revoked(S, d)
  BY DEF Revokes
<1>2. d \in Nat
  BY DEF Clock
<1> QED
  BY <1>1, <1>2, NullAssumption DEF TypeOK, Revoked, Issued, Row

(* What it changes is the date, to one that the clocks show.               *)
LEMMA RevokedDates ==
  ASSUME TypeOK, NEW S \in SUBSET Issued, Revokes(S), NEW t \in Issued
  PROVE  /\ table'[t].family = table[t].family
         /\ table'[t].user = table[t].user
         /\ table'[t].createdAt = table[t].createdAt
         /\ t \notin S => table'[t] = table[t]
         /\ t \in S => table'[t].revokedAt \in Clock
<1>1. PICK d \in Clock : table' = Revoked(S, d)
  BY DEF Revokes
<1>2. t \in Tokens /\ table[t] \in Row
  BY DEF TypeOK, Issued
<1> QED
  BY <1>1, <1>2 DEF Revoked, Row

LEMMA ClockDates ==
  ASSUME now \in Nat
  PROVE  \A d \in Clock : d \in Nat /\ d # Null /\ d <= now /\ now - Lag <= d
  BY BoundsAssumption, NullAssumption DEF Clock

LEMMA CreatedRows ==
  ASSUME TypeOK, NEW t \in Tokens, NEW u \in Users, NEW f \in Families,
         CreateToken(t, u, f)
  PROVE  /\ table' \in [Tokens -> Row \cup {Null}]
         /\ Issued' = Issued \cup {t}
<1>1. PICK d \in Clock :
        table' = [table EXCEPT ![t] =
                    [user |-> u, family |-> f, createdAt |-> d,
                     expiresAt |-> d + TTL, revokedAt |-> Null]]
  BY DEF CreateToken
<1>2. d \in Nat /\ d + TTL \in Nat
  BY BoundsAssumption DEF Clock, TypeOK
<1> QED
  BY <1>1, <1>2, NullAssumption DEF TypeOK, Issued, Row

LEMMA IssuedRow ==
  ASSUME TypeOK, NEW t \in Issued
  PROVE  t \in Tokens /\ table[t] \in Row
  BY DEF TypeOK, Issued

(* TypeOK is inductive.                                                    *)
LEMMA TypeInit == Init => TypeOK
  BY NullAssumption DEF Init, TypeOK, Waits, Answers, Issued

LEMMA TypeStep == TypeOK /\ [Next]_vars => TypeOK'
<1> SUFFICES ASSUME TypeOK, [Next]_vars PROVE TypeOK'
  OBVIOUS
<1> USE NullAssumption DEF Waits, Answers
<1>1. ASSUME NEW r \in Requests, Start(r) PROVE TypeOK'
  <2>1. ASSUME NEW u \in Users, NEW f \in Families, NEW t \in Tokens,
               Login(r, u, f, t)
        PROVE  TypeOK'
    BY <2>1, CreatedRows DEF TypeOK, Login, Answer, Issued
  <2>2. CASE RotateUnknown(r)
    BY <2>2 DEF TypeOK, RotateUnknown, Answer, Issued
  <2>3. ASSUME NEW t \in Tokens, RotateLookup(r, t) PROVE TypeOK'
    BY <2>3, IssuedRow DEF TypeOK, RotateLookup, Read, Await, Issued, Row
  <2>4. CASE LogoutUnknown(r)
    BY <2>4 DEF TypeOK, LogoutUnknown, Answer, Issued
  <2>5. ASSUME NEW t \in Tokens, LogoutLookup(r, t) PROVE TypeOK'
    BY <2>5, IssuedRow DEF TypeOK, LogoutLookup, Read, Await, Issued, Row
  <2>6. ASSUME NEW u \in Users, RevokeAllUserTokens(r, u) PROVE TypeOK'
    <3> DEFINE S == {t \in Issued : table[t].user = u /\ table[t].revokedAt = Null}
    <3>1. S \in SUBSET Issued /\ Revokes(S)
      BY <2>6 DEF RevokeAllUserTokens
    <3> HIDE DEF S
    <3> QED
      BY <2>6, <3>1, RevokedRows DEF TypeOK, RevokeAllUserTokens, Answer, Issued
  <2> QED
    BY <1>1, <2>1, <2>2, <2>3, <2>4, <2>5, <2>6 DEF Start
<1>2. ASSUME NEW r \in Requests, Continue(r) PROVE TypeOK'
  <2>1. CASE RejectExpired(r)
    BY <2>1 DEF TypeOK, RejectExpired, Answer, Issued
  <2>2. CASE RevokePresented(r)
    <3>1. {stored[r]} \in SUBSET Issued /\ Revokes({stored[r]})
      BY <2>2 DEF TypeOK, RevokePresented, Revokes
    <3> QED
      BY <2>2, <3>1, RevokedRows DEF TypeOK, RevokePresented, Await, Issued
  <2>3. ASSUME NEW t \in Tokens, CreateSuccessor(r, t) PROVE TypeOK'
    <3>1. table[stored[r]] \in Row
      BY <2>3, IssuedRow DEF TypeOK, CreateSuccessor
    <3> QED
      BY <2>3, <3>1, CreatedRows DEF TypeOK, CreateSuccessor, Answer, Issued, Row
  <2>4. ASSUME NEW t \in Tokens, FindLatest(r, t) PROVE TypeOK'
    BY <2>4 DEF TypeOK, FindLatest, Await, Issued, LatestLive, Live, Members
  <2>5. CASE FindNoLatest(r)
    BY <2>5 DEF TypeOK, FindNoLatest, Await, Issued
  <2>6. CASE RevokeLatest(r)
    <3>1. {latest[r]} \in SUBSET Issued
      BY <2>6 DEF TypeOK, RevokeLatest
    <3> QED
      BY <2>6, <3>1, RevokedRows DEF TypeOK, RevokeLatest, Await, Issued
  <2>7. ASSUME NEW t \in Tokens, CreateFromLatest(r, t) PROVE TypeOK'
    <3>1. table[latest[r]] \in Row
      BY <2>7, IssuedRow DEF TypeOK, CreateFromLatest
    <3> QED
      BY <2>7, <3>1, CreatedRows DEF TypeOK, CreateFromLatest, Answer, Issued, Row
  <2>8. CASE DetectReuse(r)
    <3>1. /\ Live(table[stored[r]].family) \in SUBSET Issued
          /\ Revokes(Live(table[stored[r]].family))
      BY <2>8 DEF DetectReuse, Revokes, Live, Members
    <3> QED
      BY <2>8, <3>1, RevokedRows DEF TypeOK, DetectReuse, Answer, Issued
  <2>9. CASE LogoutRevoke(r)
    <3>1. Live(table[stored[r]].family) \in SUBSET Issued
      BY DEF Live, Members
    <3> QED
      BY <2>9, <3>1, RevokedRows DEF TypeOK, LogoutRevoke, Answer, Issued
  <2> QED
    BY <1>2, <2>1, <2>2, <2>3, <2>4, <2>5, <2>6, <2>7, <2>8, <2>9 DEF Continue
<1>3. ASSUME NEW r \in Requests, Fail(r) PROVE TypeOK'
  BY <1>3 DEF TypeOK, Fail, Answer, Issued
<1>4. CASE Tick
  BY <1>4 DEF TypeOK, Tick, Issued
<1>5. CASE Finished \/ UNCHANGED vars
  BY <1>5 DEF TypeOK, Finished, vars, Issued
<1> QED
  BY <1>1, <1>2, <1>3, <1>4, <1>5 DEF Next

(* Every reachable state of the table and of the requests is well typed,   *)
(* and a request in flight always holds a row that exists.                 *)
THEOREM TypeCorrect == Spec => []TypeOK
  BY TypeInit, TypeStep, PTL DEF Spec

----------------------------------------------------------------------------
(* What the two ways of writing the table do to the tokens of a family.    *)
LEMMA RevokedFamilies ==
  ASSUME TypeOK, NEW S \in SUBSET Issued, Revokes(S), now \in Nat
  PROVE  /\ Issued' = Issued
         /\ \A t \in Issued : table'[t].family = table[t].family
         /\ \A f : Live(f)' = Live(f) \ S
<1>1. Issued' = Issued
  BY RevokedRows DEF Issued
<1>2. \A t \in Issued : /\ table'[t].family = table[t].family
                        /\ t \notin S => table'[t] = table[t]
                        /\ t \in S => table'[t].revokedAt # Null
  BY RevokedDates, ClockDates DEF TypeOK
<1> QED
  BY <1>1, <1>2 DEF Live, Members

LEMMA CreatedFamilies ==
  ASSUME TypeOK, NEW t \in Tokens, NEW u \in Users, NEW g \in Families,
         CreateToken(t, u, g)
  PROVE  /\ t \notin Issued
         /\ Issued' = Issued \cup {t}
         /\ \A x \in Issued : table'[x] = table[x]
         /\ table'[t].family = g
         /\ \A f : Live(f)' = IF f = g THEN Live(f) \cup {t} ELSE Live(f)
<1>1. Issued' = Issued \cup {t} /\ t \notin Issued
  BY CreatedRows DEF CreateToken, Issued
<1>2. /\ \A x \in Issued : table'[x] = table[x]
      /\ table'[t].family = g
      /\ table'[t].revokedAt = Null
  BY <1>1 DEF CreateToken, TypeOK, Issued
<1> QED
  BY <1>1, <1>2 DEF Live, Members

(* The steps that write the table.                                         *)
LEMMA WritingCases ==
  ASSUME Next, table' # table
  PROVE  \E r \in Requests :
           \/ \E u \in Users : RevokeAllUserTokens(r, u)
           \/ RevokePresented(r) \/ RevokeLatest(r) \/ DetectReuse(r) \/ LogoutRevoke(r)
           \/ \E t \in Tokens :
                \/ CreateSuccessor(r, t) \/ CreateFromLatest(r, t)
                \/ \E u \in Users, f \in Families : Login(r, u, f, t)
<1>1. ASSUME NEW r \in Requests, Start(r)
      PROVE  \/ \E u \in Users : RevokeAllUserTokens(r, u)
             \/ \E u \in Users, f \in Families, t \in Tokens : Login(r, u, f, t)
  BY <1>1 DEF Start, RotateUnknown, RotateLookup, LogoutUnknown, LogoutLookup, Read
<1>2. ASSUME NEW r \in Requests, Continue(r)
      PROVE  \/ RevokePresented(r) \/ RevokeLatest(r) \/ DetectReuse(r) \/ LogoutRevoke(r)
             \/ \E t \in Tokens : CreateSuccessor(r, t) \/ CreateFromLatest(r, t)
  BY <1>2 DEF Continue, RejectExpired, FindLatest, FindNoLatest
<1>3. ASSUME (\E r \in Requests : Fail(r)) \/ Tick \/ Finished PROVE FALSE
  BY <1>3 DEF Fail, Tick, Finished, vars
<1> QED
  BY <1>1, <1>2, <1>3 DEF Next

(* There is no other way: a statement that writes is an update of          *)
(* revokedAt or a createToken.                                             *)
LEMMA WritingSteps ==
  ASSUME TypeOK, Next
  PROVE  \/ table' = table
         \/ now' = now /\ \E S \in SUBSET Issued : Revokes(S)
         \/ \E r \in Requests, t \in Tokens :
              \/ CreateSuccessor(r, t) \/ CreateFromLatest(r, t)
              \/ \E u \in Users, f \in Families : Login(r, u, f, t)
<1>1. ASSUME NEW r \in Requests, NEW u \in Users, RevokeAllUserTokens(r, u)
      PROVE  now' = now /\ \E S \in SUBSET Issued : Revokes(S)
  <2> DEFINE S == {t \in Issued : table[t].user = u /\ table[t].revokedAt = Null}
  <2>1. S \in SUBSET Issued /\ Revokes(S) /\ now' = now
    BY <1>1 DEF RevokeAllUserTokens
  <2> QED
    BY <2>1
<1>2. ASSUME NEW r \in Requests,
             RevokePresented(r) \/ RevokeLatest(r) \/ DetectReuse(r) \/ LogoutRevoke(r)
      PROVE  now' = now /\ \E S \in SUBSET Issued : Revokes(S)
  <2>1. CASE RevokePresented(r)
    BY <2>1 DEF RevokePresented, Revokes, TypeOK, Waits
  <2>2. CASE RevokeLatest(r)
    BY <2>2 DEF RevokeLatest, TypeOK
  <2>3. CASE DetectReuse(r) \/ LogoutRevoke(r)
    BY <2>3 DEF DetectReuse, LogoutRevoke, Revokes, Live, Members
  <2> QED
    BY <1>2, <2>1, <2>2, <2>3
<1> QED
  BY <1>1, <1>2, WritingCases

LEMMA TableSteps ==
  ASSUME TypeOK, Next
  PROVE  \/ table' = table
         \/ now' = now /\ \E S \in SUBSET Issued : Revokes(S)
         \/ /\ now' = now
            /\ \E t \in Tokens, u \in Users, f \in Families : CreateToken(t, u, f)
<1>1. ASSUME NEW r \in Requests, NEW t \in Tokens, CreateSuccessor(r, t)
      PROVE  now' = now /\ \E u \in Users, f \in Families : CreateToken(t, u, f)
  <2>1. table[stored[r]] \in Row
    BY <1>1, IssuedRow DEF CreateSuccessor, TypeOK, Waits
  <2> QED
    BY <1>1, <2>1 DEF CreateSuccessor, Row
<1>2. ASSUME NEW r \in Requests, NEW t \in Tokens, CreateFromLatest(r, t)
      PROVE  now' = now /\ \E u \in Users, f \in Families : CreateToken(t, u, f)
  <2>1. table[latest[r]] \in Row
    BY <1>2, IssuedRow DEF CreateFromLatest, TypeOK
  <2> QED
    BY <1>2, <2>1 DEF CreateFromLatest, Row
<1> QED
  BY <1>1, <1>2, WritingSteps DEF Login

(* A step that only revokes, leaves what the requests hold as it is, and   *)
(* answers one of them, keeps the invariant; if it answers a logout or a   *)
(* detected reuse, it must have emptied a family nobody else is busy on.   *)
LEMMA AnsweringStep ==
  ASSUME SerialInv, TypeOK', NEW r \in Requests, NEW a \in Answers \ {"none"},
         pc[r] # "done", Answer(r, a),
         UNCHANGED <<stored, seen, latest, contended>>,
         Issued' = Issued,
         \A t \in Issued : table'[t].family = table[t].family,
         \A f : Live(f)' \subseteq Live(f),
         a \in {"loggedOut", "reuse"} /\ stored[r] # Null =>
           /\ pc[r] \in Waits
           /\ \A f : f = table[stored[r]].family => Live(f)' = {}
  PROVE  SerialInv'
<1> USE DEF SerialInv
<1>1. /\ pc' = [pc EXCEPT ![r] = "done"]
      /\ answer' = [answer EXCEPT ![r] = a]
  BY DEF Answer
<1>2. /\ \A q \in Requests : q # r => pc'[q] = pc[q] /\ answer'[q] = answer[q]
      /\ pc'[r] = "done" /\ answer'[r] = a
  BY <1>1 DEF TypeOK
<1>3. \A f : Busy(f)' = Busy(f) \ {r}
  BY <1>2 DEF Busy, TypeOK, Waits
<1>4. OneLiveToken'
  BY DEF OneLiveToken
<1>5. Alone'
  BY <1>3 DEF Alone
<1>6. SameFamily'
  BY <1>2 DEF SameFamily, TypeOK
<1>7. Exclusive'
  <2> SUFFICES ASSUME NEW f \in Families, NEW q \in Busy(f)', contended[f] = {}
               PROVE  LiveKnown(f, q)'
    BY DEF Exclusive
  <2>1. q \in Busy(f) /\ q # r /\ q \in Requests
    BY <1>3 DEF Busy
  <2>2. LiveKnown(f, q)
    BY <2>1 DEF Exclusive
  <2> QED
    BY <1>2, <2>1, <2>2 DEF LiveKnown
<1>8. \A f : Pending(f)' = Pending(f) \ {r}
  BY <1>2, <1>3 DEF Pending, Busy
<1>9. EndedForGood'
  <2> SUFFICES ASSUME NEW q \in Requests, NEW f,
                      answer'[q] \in {"loggedOut", "reuse"},
                      stored[q] # Null,
                      f = table'[stored[q]].family,
                      contended[f] = {}
               PROVE  Live(f)' = {} /\ Pending(f)' = {}
    BY DEF EndedForGood
  <2>1. stored[q] \in Issued /\ f = table[stored[q]].family
    BY DEF TypeOK
  <2>2. CASE q # r
    BY <1>2, <1>8, <2>1, <2>2 DEF EndedForGood
  <2>3. CASE q = r
    <3>1. pc[r] \in Waits /\ Live(f)' = {}
      BY <1>2, <2>1, <2>3
    <3>2. f \in Families
      BY <2>1, <2>3, IssuedRow DEF Row
    <3>3. Busy(f) \subseteq {r}
      BY <2>1, <2>3, <3>1, <3>2 DEF Alone, Busy
    <3> QED
      BY <1>8, <3>1, <3>3 DEF Pending
  <2> QED
    BY <2>2, <2>3
<1> QED
  BY <1>4, <1>5, <1>6, <1>7, <1>9

(* A step of a request in flight that ends in another await keeps the      *)
(* invariant if the request still knows what is live, and if it commits to *)
(* creating a token only where it had already, or where one is live.       *)
LEMMA AwaitingStep ==
  ASSUME SerialInv, TypeOK', NEW r \in Requests, NEW w \in Waits,
         pc[r] \in Waits, Await(r, w),
         UNCHANGED <<stored, seen, contended>>,
         \A q \in Requests : q # r => latest'[q] = latest[q],
         Issued' = Issued,
         \A t \in Issued : table'[t].family = table[t].family,
         \A f : Live(f)' \subseteq Live(f),
         w \in {"revokeLatest", "createLatest"} =>
           table[latest'[r]].family = table[stored[r]].family,
         \A f \in Families :
           f = table[stored[r]].family /\ contended[f] = {} => LiveKnown(f, r)',
         \A f \in Families :
           r \in Pending(f)' => r \in Pending(f) \/ Live(f) # {}
  PROVE  SerialInv'
<1> USE DEF SerialInv
<1>1. /\ \A q \in Requests : q # r => pc'[q] = pc[q]
      /\ pc'[r] = w
      /\ answer' = answer
  BY DEF Await, TypeOK
<1>2. \A q \in Requests : pc[q] \in Waits => stored[q] \in Issued
  BY DEF TypeOK
<1>3. \A f : Busy(f)' = Busy(f)
  BY <1>1, <1>2 DEF Busy
<1>4. OneLiveToken'
  BY DEF OneLiveToken
<1>5. Alone'
  BY <1>3 DEF Alone
<1>6. SameFamily'
  <2> SUFFICES ASSUME NEW q \in Requests,
                      pc'[q] \in {"revokeLatest", "createLatest"}
               PROVE  table'[latest'[q]].family = table'[stored[q]].family
    BY DEF SameFamily
  <2>1. stored[q] \in Issued /\ latest'[q] \in Issued
    BY DEF TypeOK, Waits
  <2>2. CASE q = r
    BY <1>1, <2>1, <2>2
  <2>3. CASE q # r
    BY <1>1, <2>1, <2>3 DEF SameFamily
  <2> QED
    BY <2>2, <2>3
<1>7. Exclusive'
  <2> SUFFICES ASSUME NEW f \in Families, NEW q \in Busy(f)', contended[f] = {}
               PROVE  LiveKnown(f, q)'
    BY DEF Exclusive
  <2>1. q \in Busy(f) /\ q \in Requests
    BY <1>3 DEF Busy
  <2>2. CASE q = r
    BY <2>1, <2>2 DEF Busy
  <2>3. CASE q # r
    BY <1>1, <2>1, <2>3 DEF LiveKnown, Exclusive
  <2> QED
    BY <2>2, <2>3
<1>8. EndedForGood'
  <2>1. ASSUME NEW q \in Requests, NEW f,
               answer[q] \in {"loggedOut", "reuse"}, stored[q] # Null,
               f = table'[stored[q]].family, contended[f] = {}
        PROVE  Live(f)' = {} /\ Pending(f)' = {}
    <3>1. stored[q] \in Issued /\ f = table[stored[q]].family
      BY <2>1 DEF TypeOK
    <3>2. Live(f) = {} /\ Pending(f) = {} /\ f \in Families
      BY <2>1, <3>1, IssuedRow DEF EndedForGood, Row
    <3>3. Pending(f)' \subseteq Pending(f) \cup {r}
      <4>1. Busy(f) \subseteq Requests /\ Busy(f)' = Busy(f) /\ seen' = seen
        BY <1>3 DEF Busy
      <4> QED
        BY <1>1, <4>1 DEF Pending
    <3> QED
      BY <3>2, <3>3
  <2>2. stored' = stored /\ contended' = contended /\ answer' = answer
    BY <1>1
  <2> QED
    BY <2>1, <2>2 DEF EndedForGood
<1> QED
  BY <1>4, <1>5, <1>6, <1>7, <1>8

(* The first statement of a refresh or a logout keeps the invariant: it    *)
(* either records that the family is contended or finds the request alone, *)
(* and a family that has been ended has no live token left to read.        *)
LEMMA ReadingStep ==
  ASSUME SerialInv, TypeOK', NEW r \in Requests, NEW t \in Tokens,
         NEW w \in {"lookedUp", "logout"},
         Read(r, t), Await(r, w)
  PROVE  SerialInv'
<1> USE DEF SerialInv
<1> DEFINE g == table[t].family
<1>1. t \in Issued /\ g \in Families
  BY IssuedRow DEF Read, Row
<1>2. /\ \A q \in Requests : q # r => /\ pc'[q] = pc[q]
                                     /\ stored'[q] = stored[q]
                                     /\ seen'[q] = seen[q]
      /\ pc'[r] = w /\ stored'[r] = t /\ seen'[r] = table[t].revokedAt
      /\ pc[r] = "idle" /\ answer[r] = "none"
      /\ answer' = answer /\ table' = table /\ latest' = latest
  BY DEF Read, Await, TypeOK, Answers
<1>3. \A f \in Families : contended'[f] =
        IF f = g THEN contended[f] \cup (IF Busy(g) = {} THEN {} ELSE {r})
                 ELSE contended[f]
  <2>1. contended' = [contended EXCEPT ![g] =
                        @ \cup (IF Busy(g) = {} THEN {} ELSE {r})]
    BY DEF Read
  <2>2. contended \in [Families -> SUBSET Requests]
    BY DEF TypeOK
  <2> QED
    BY <1>1, <2>1, <2>2
<1>4. \A f : Busy(f)' = IF f = g THEN Busy(f) \cup {r} ELSE Busy(f)
  <2>1. \A f : r \notin Busy(f)
    BY <1>2 DEF Busy, Waits
  <2>2. \A f : \A q \in Requests :
          q \in Busy(f)' <=> q \in Busy(f) \/ (q = r /\ f = g)
    BY <1>2, <2>1 DEF Busy, Waits
  <2> QED
    BY <2>2 DEF Busy
<1> HIDE DEF g
<1>5. /\ \A f : Live(f)' = Live(f)
      /\ \A f \in Families : contended'[f] = {} => contended[f] = {}
      /\ contended'[g] = {} => Busy(g) = {}
  BY <1>1, <1>2, <1>3 DEF Live, Members, Issued
<1>6. OneLiveToken'
  BY <1>5 DEF OneLiveToken
<1>7. Alone'
  BY <1>1, <1>4, <1>5 DEF Alone
<1>8. SameFamily'
  BY <1>2 DEF SameFamily
<1>9. t \in Live(g) \/ table[t].revokedAt # Null
  BY <1>1 DEF Live, Members, g
<1>10. Exclusive'
  <2> SUFFICES ASSUME NEW f \in Families, NEW q \in Busy(f)', contended'[f] = {}
               PROVE  LiveKnown(f, q)'
    BY DEF Exclusive
  <2>1. CASE q = r
    <3>1. f = g
      BY <1>2, <1>4, <2>1 DEF Busy, Waits
    <3>2. seen'[r] = Null => Live(f) \subseteq {t}
      BY <1>1, <1>2, <1>5, <1>9, <3>1 DEF OneLiveToken
    <3> QED
      BY <1>2, <1>5, <2>1, <3>2 DEF LiveKnown
  <2>2. CASE q # r
    <3>1. q \in Busy(f) /\ q \in Requests /\ contended[f] = {}
      BY <1>4, <1>5, <2>2 DEF Busy
    <3>2. LiveKnown(f, q)
      BY <3>1 DEF Exclusive
    <3> QED
      BY <1>2, <1>5, <2>2, <3>1, <3>2 DEF LiveKnown
  <2> QED
    BY <2>1, <2>2
<1>11. EndedForGood'
  <2> SUFFICES ASSUME NEW q \in Requests, NEW f,
                      answer[q] \in {"loggedOut", "reuse"},
                      stored'[q] # Null,
                      f = table[stored'[q]].family,
                      contended'[f] = {}
               PROVE  Live(f)' = {} /\ Pending(f)' = {}
    BY <1>2 DEF EndedForGood
  <2>1. q # r /\ stored'[q] = stored[q] /\ stored[q] \in Issued
    BY <1>2 DEF TypeOK
  <2>2. f \in Families /\ contended[f] = {}
    BY <1>5, <2>1, IssuedRow DEF Row
  <2>3. Live(f) = {} /\ Pending(f) = {}
    BY <2>1, <2>2 DEF EndedForGood
  <2>4. r \notin Pending(f)'
    BY <1>2, <1>4, <1>9, <2>3 DEF Pending, Busy, Waits
  <2>5. Pending(f)' \subseteq Pending(f)
    BY <1>2, <1>4, <2>4 DEF Pending, Busy
  <2> QED
    BY <1>5, <2>3, <2>5
<1> QED
  BY <1>6, <1>7, <1>8, <1>10, <1>11

(* createToken at the end of a rotation keeps the invariant: the request   *)
(* had left its family without a live token, if it is alone on it.         *)
LEMMA CreatingStep ==
  ASSUME SerialInv, TypeOK', NEW r \in Requests, NEW t \in Tokens,
         NEW u \in Users, NEW g \in Families,
         pc[r] \in {"create", "createLatest"},
         g = table[stored[r]].family,
         CreateToken(t, u, g), Answer(r, "served"),
         UNCHANGED <<now, stored, seen, latest, contended>>
  PROVE  SerialInv'
<1> USE DEF SerialInv
<1>1. /\ t \notin Issued
      /\ Issued' = Issued \cup {t}
      /\ \A x \in Issued : table'[x] = table[x]
      /\ \A f : Live(f)' = IF f = g THEN Live(f) \cup {t} ELSE Live(f)
  BY CreatedFamilies
<1>2. /\ \A q \in Requests : q # r => pc'[q] = pc[q] /\ answer'[q] = answer[q]
      /\ pc'[r] = "done" /\ answer'[r] = "served"
  BY DEF Answer, TypeOK
<1>3. \A q \in Requests : pc[q] \in Waits => stored[q] \in Issued
  BY DEF TypeOK
<1>4. \A f : Busy(f)' = Busy(f) \ {r}
  BY <1>1, <1>2, <1>3 DEF Busy, Waits
<1>5. r \in Busy(g) /\ r \in Pending(g)
  BY DEF Pending, Busy, Waits
<1>6. contended[g] = {} => Live(g) = {} /\ Busy(g) = {r}
  BY <1>5 DEF Exclusive, LiveKnown, Alone
<1>7. OneLiveToken'
  BY <1>1, <1>6 DEF OneLiveToken
<1>8. Alone'
  BY <1>4 DEF Alone
<1>9. SameFamily'
  <2> SUFFICES ASSUME NEW q \in Requests,
                      pc'[q] \in {"revokeLatest", "createLatest"}
               PROVE  table'[latest[q]].family = table'[stored[q]].family
    BY DEF SameFamily
  <2>1. q # r /\ stored[q] \in Issued /\ latest[q] \in Issued
    BY <1>2 DEF TypeOK, Waits
  <2> QED
    BY <1>1, <1>2, <2>1 DEF SameFamily
<1>10. Exclusive'
  <2> SUFFICES ASSUME NEW f \in Families, NEW q \in Busy(f)', contended[f] = {}
               PROVE  LiveKnown(f, q)'
    BY DEF Exclusive
  <2>1. q \in Busy(f) /\ q # r /\ q \in Requests
    BY <1>4 DEF Busy
  <2>2. f # g
    BY <1>6, <2>1
  <2>3. LiveKnown(f, q)
    BY <2>1 DEF Exclusive
  <2> QED
    BY <1>1, <1>2, <2>1, <2>2, <2>3 DEF LiveKnown
<1>11. EndedForGood'
  <2> SUFFICES ASSUME NEW q \in Requests, NEW f,
                      answer'[q] \in {"loggedOut", "reuse"},
                      stored[q] # Null,
                      f = table'[stored[q]].family,
                      contended[f] = {}
               PROVE  Live(f)' = {} /\ Pending(f)' = {}
    BY DEF EndedForGood
  <2>1. q # r /\ stored[q] \in Issued
    BY <1>2 DEF TypeOK
  <2>2. f = table[stored[q]].family
    BY <1>1, <2>1
  <2>3. Live(f) = {} /\ Pending(f) = {}
    BY <1>2, <2>1, <2>2 DEF EndedForGood
  <2>4. f # g
    BY <1>5, <2>3
  <2>5. Pending(f)' \subseteq Pending(f)
    BY <1>2, <1>4 DEF Pending, Busy
  <2> QED
    BY <1>1, <2>3, <2>4, <2>5
<1> QED
  BY <1>7, <1>8, <1>9, <1>10, <1>11

(* A login keeps the invariant: nobody is busy on a family that has no     *)
(* token yet.                                                              *)
LEMMA LoginStep ==
  ASSUME SerialInv, TypeOK', NEW r \in Requests, NEW u \in Users,
         NEW g \in Families, NEW t \in Tokens, Login(r, u, g, t)
  PROVE  SerialInv'
<1> USE DEF SerialInv
<1>1. /\ t \notin Issued
      /\ Issued' = Issued \cup {t}
      /\ \A x \in Issued : table'[x] = table[x]
      /\ \A f : Live(f)' = IF f = g THEN Live(f) \cup {t} ELSE Live(f)
  BY CreatedFamilies DEF Login
<1>2. /\ \A q \in Requests : q # r => pc'[q] = pc[q] /\ answer'[q] = answer[q]
      /\ pc[r] = "idle" /\ pc'[r] = "done" /\ answer'[r] = "loggedIn"
      /\ Members(g) = {}
      /\ UNCHANGED <<stored, seen, latest, contended>>
  BY DEF Login, Answer, TypeOK
<1>3. \A q \in Requests : pc[q] \in Waits => stored[q] \in Issued
  BY DEF TypeOK
<1>4. \A q \in Requests : stored[q] \in Issued => table[stored[q]].family # g
  BY <1>2 DEF Members
<1>5. \A f : Busy(f)' = Busy(f)
  BY <1>1, <1>2, <1>3 DEF Busy, Waits
<1>6. Live(g) = {} /\ Busy(g) = {}
  BY <1>2, <1>3, <1>4 DEF Live, Busy
<1>7. OneLiveToken'
  BY <1>1, <1>2, <1>6 DEF OneLiveToken
<1>8. Alone'
  BY <1>2, <1>5 DEF Alone
<1>9. SameFamily'
  <2> SUFFICES ASSUME NEW q \in Requests,
                      pc'[q] \in {"revokeLatest", "createLatest"}
               PROVE  table'[latest[q]].family = table'[stored[q]].family
    BY <1>2 DEF SameFamily
  <2>1. q # r /\ stored[q] \in Issued /\ latest[q] \in Issued
    BY <1>2 DEF TypeOK, Waits
  <2> QED
    BY <1>1, <1>2, <2>1 DEF SameFamily
<1>10. Exclusive'
  <2> SUFFICES ASSUME NEW f \in Families, NEW q \in Busy(f)', contended[f] = {}
               PROVE  LiveKnown(f, q)'
    BY <1>2 DEF Exclusive
  <2>1. q \in Busy(f) /\ q # r /\ q \in Requests /\ f # g
    BY <1>2, <1>5, <1>6 DEF Busy, Waits
  <2>2. LiveKnown(f, q)
    BY <2>1 DEF Exclusive
  <2> QED
    BY <1>1, <1>2, <2>1, <2>2 DEF LiveKnown
<1>11. EndedForGood'
  <2> SUFFICES ASSUME NEW q \in Requests, NEW f,
                      answer'[q] \in {"loggedOut", "reuse"},
                      stored[q] # Null,
                      f = table'[stored[q]].family,
                      contended[f] = {}
               PROVE  Live(f)' = {} /\ Pending(f)' = {}
    BY <1>2 DEF EndedForGood
  <2>1. q # r /\ stored[q] \in Issued
    BY <1>2 DEF TypeOK
  <2>2. f = table[stored[q]].family /\ f # g
    BY <1>1, <1>4, <2>1
  <2>3. Live(f) = {} /\ Pending(f) = {}
    BY <1>2, <2>1, <2>2 DEF EndedForGood
  <2>4. Pending(f)' \subseteq Pending(f)
    BY <1>2, <1>5 DEF Pending, Busy, Waits
  <2> QED
    BY <1>1, <2>2, <2>3, <2>4
<1> QED
  BY <1>7, <1>8, <1>9, <1>10, <1>11

----------------------------------------------------------------------------
LEMMA SerialInit == Init => SerialInv
<1> SUFFICES ASSUME Init PROVE SerialInv
  OBVIOUS
<1>1. TypeOK
  BY TypeInit
<1>2. Issued = {} /\ \A f : Busy(f) = {}
  BY DEF Init, Issued, Busy, Waits
<1> QED
  BY <1>1, <1>2 DEF SerialInv, Init, OneLiveToken, Alone, SameFamily,
     Exclusive, EndedForGood, Live, Members

LEMMA SerialStart ==
  ASSUME SerialInv, TypeOK', NEW r \in Requests, Start(r)
  PROVE  SerialInv'
<1> USE DEF Answers
<1>0. TypeOK
  BY DEF SerialInv
<1>1. ASSUME NEW u \in Users, NEW f \in Families, NEW t \in Tokens,
             Login(r, u, f, t)
      PROVE  SerialInv'
  BY <1>1, LoginStep
<1>2. CASE RotateUnknown(r)
  <2>1. Issued' = Issued /\ \A f : Live(f)' = Live(f)
    BY <1>2 DEF RotateUnknown, Issued, Live, Members
  <2> QED
    BY <1>2, <2>1, AnsweringStep DEF RotateUnknown
<1>3. ASSUME NEW t \in Tokens, RotateLookup(r, t) PROVE SerialInv'
  BY <1>3, ReadingStep DEF RotateLookup
<1>4. CASE LogoutUnknown(r)
  <2>1. Issued' = Issued /\ \A f : Live(f)' = Live(f)
    BY <1>4 DEF LogoutUnknown, Issued, Live, Members
  <2>2. stored[r] = Null
    BY <1>0, <1>4 DEF LogoutUnknown, TypeOK
  <2> QED
    BY <1>4, <2>1, <2>2, AnsweringStep DEF LogoutUnknown
<1>5. ASSUME NEW t \in Tokens, LogoutLookup(r, t) PROVE SerialInv'
  BY <1>5, ReadingStep DEF LogoutLookup
<1>6. ASSUME NEW u \in Users, RevokeAllUserTokens(r, u) PROVE SerialInv'
  <2> DEFINE S == {t \in Issued : table[t].user = u /\ table[t].revokedAt = Null}
  <2>1. S \in SUBSET Issued /\ Revokes(S) /\ now \in Nat
    BY <1>0, <1>6 DEF RevokeAllUserTokens, TypeOK
  <2> HIDE DEF S
  <2>2. /\ Issued' = Issued
        /\ \A t \in Issued : table'[t].family = table[t].family
        /\ \A f : Live(f)' = Live(f) \ S
    BY <1>0, <2>1, RevokedFamilies
  <2> QED
    BY <1>6, <2>2, AnsweringStep DEF RevokeAllUserTokens
<1> QED
  BY <1>1, <1>2, <1>3, <1>4, <1>5, <1>6 DEF Start

LEMMA SerialContinue ==
  ASSUME SerialInv, TypeOK', NEW r \in Requests, Continue(r)
  PROVE  SerialInv'
<1> USE DEF Answers, Waits
<1>0. TypeOK /\ now \in Nat
  BY DEF SerialInv, TypeOK
<1> DEFINE g == table[stored[r]].family
<1>1. CASE RejectExpired(r)
  <2>1. Issued' = Issued /\ \A f : Live(f)' = Live(f)
    BY <1>1 DEF RejectExpired, Issued, Live, Members
  <2> QED
    BY <1>1, <2>1, AnsweringStep DEF RejectExpired
<1>2. CASE RevokePresented(r)
  <2>1. {stored[r]} \in SUBSET Issued /\ Revokes({stored[r]})
    BY <1>0, <1>2 DEF RevokePresented, Revokes, TypeOK
  <2>2. /\ Issued' = Issued
        /\ \A t \in Issued : table'[t].family = table[t].family
        /\ \A f : Live(f)' = Live(f) \ {stored[r]}
    BY <1>0, <2>1, RevokedFamilies
  <2>3. r \in Busy(g) /\ r \in Pending(g)
    BY <1>2 DEF RevokePresented, Busy, Pending
  <2>4. pc' = [pc EXCEPT ![r] = "create"]
    BY <1>2 DEF RevokePresented, Await
  <2>5. ASSUME NEW f \in Families, f = g, contended[f] = {}
        PROVE  LiveKnown(f, r)'
    BY <1>0, <1>2, <2>2, <2>3, <2>4, <2>5
    DEF RevokePresented, SerialInv, Exclusive, LiveKnown, TypeOK
  <2>6. \A f : r \in Pending(f)' => r \in Pending(f)
    BY <1>0, <1>2, <2>1, <2>2, <2>3 DEF RevokePresented, Pending, Busy
  <2> QED
    BY <1>2, <2>2, <2>5, <2>6, AwaitingStep DEF RevokePresented
<1>3. ASSUME NEW t \in Tokens, CreateSuccessor(r, t) PROVE SerialInv'
  <2>1. table[stored[r]] \in Row
    BY <1>0, <1>3, IssuedRow DEF CreateSuccessor, TypeOK
  <2> QED
    BY <1>3, <2>1, CreatingStep DEF CreateSuccessor, Row
<1>4. ASSUME NEW t \in Tokens, FindLatest(r, t) PROVE SerialInv'
  <2>1. Issued' = Issued /\ \A f : Live(f)' = Live(f)
    BY <1>4 DEF FindLatest, Issued, Live, Members
  <2>2. t \in Live(g) /\ table[t].family = g
    BY <1>4 DEF FindLatest, LatestLive, Live, Members
  <2>3. /\ pc' = [pc EXCEPT ![r] = "revokeLatest"]
        /\ latest' = [latest EXCEPT ![r] = t]
    BY <1>4 DEF FindLatest, Await
  <2>4. ASSUME NEW f \in Families, f = g, contended[f] = {}
        PROVE  LiveKnown(f, r)'
    BY <1>0, <1>4, <2>1, <2>2, <2>3, <2>4
    DEF FindLatest, SerialInv, OneLiveToken, LiveKnown, TypeOK
  <2>5. \A f : r \in Pending(f)' => Live(f) # {}
    BY <1>4, <2>2 DEF FindLatest, Pending, Busy
  <2>6. \A q \in Requests : q # r => latest'[q] = latest[q]
    BY <1>0, <2>3 DEF TypeOK
  <2>7. table[latest'[r]].family = g
    BY <1>0, <2>2, <2>3 DEF TypeOK
  <2> QED
    BY <1>4, <2>1, <2>4, <2>5, <2>6, <2>7, AwaitingStep DEF FindLatest
<1>5. CASE FindNoLatest(r)
  <2>1. Issued' = Issued /\ \A f : Live(f)' = Live(f)
    BY <1>5 DEF FindNoLatest, Issued, Live, Members
  <2>2. pc'[r] = "revokeFamily"
    BY <1>0, <1>5 DEF FindNoLatest, Await, TypeOK
  <2> QED
    BY <1>5, <2>1, <2>2, AwaitingStep DEF FindNoLatest, LiveKnown, Pending
<1>6. CASE RevokeLatest(r)
  <2>1. {latest[r]} \in SUBSET Issued /\ Revokes({latest[r]})
    BY <1>0, <1>6 DEF RevokeLatest, TypeOK
  <2>2. /\ Issued' = Issued
        /\ \A t \in Issued : table'[t].family = table[t].family
        /\ \A f : Live(f)' = Live(f) \ {latest[r]}
    BY <1>0, <2>1, RevokedFamilies
  <2>3. r \in Busy(g) /\ r \in Pending(g) /\ stored[r] \in Issued
    BY <1>0, <1>6 DEF RevokeLatest, Busy, Pending, TypeOK
  <2>4. pc' = [pc EXCEPT ![r] = "createLatest"]
    BY <1>6 DEF RevokeLatest, Await
  <2>5. ASSUME NEW f \in Families, f = g, contended[f] = {}
        PROVE  LiveKnown(f, r)'
    BY <1>0, <1>6, <2>2, <2>3, <2>4, <2>5
    DEF RevokeLatest, SerialInv, Exclusive, LiveKnown, TypeOK
  <2>6. \A f : r \in Pending(f)' => r \in Pending(f)
    BY <1>6, <2>2, <2>3 DEF RevokeLatest, Pending, Busy
  <2>7. table[latest[r]].family = g
    BY <1>6 DEF RevokeLatest, SerialInv, SameFamily
  <2> QED
    BY <1>6, <2>2, <2>5, <2>6, <2>7, AwaitingStep DEF RevokeLatest
<1>7. ASSUME NEW t \in Tokens, CreateFromLatest(r, t) PROVE SerialInv'
  <2>1. table[latest[r]] \in Row /\ table[latest[r]].family = g
    BY <1>0, <1>7, IssuedRow DEF CreateFromLatest, TypeOK, SerialInv, SameFamily
  <2> QED
    BY <1>7, <2>1, CreatingStep DEF CreateFromLatest, Row
<1>8. ASSUME DetectReuse(r) \/ LogoutRevoke(r) PROVE SerialInv'
  <2>1. Live(g) \in SUBSET Issued /\ Revokes(Live(g))
    BY <1>8 DEF DetectReuse, LogoutRevoke, Revokes, Live, Members
  <2>2. /\ Issued' = Issued
        /\ \A t \in Issued : table'[t].family = table[t].family
        /\ \A f : Live(f)' = Live(f) \ Live(g)
    BY <1>0, <2>1, RevokedFamilies
  <2>3. \A f : f = g => Live(f)' = {}
    BY <2>2
  <2> QED
    BY <1>8, <2>2, <2>3, AnsweringStep DEF DetectReuse, LogoutRevoke
<1> QED
  BY <1>1, <1>2, <1>3, <1>4, <1>5, <1>6, <1>7, <1>8 DEF Continue

(* SerialInv is inductive.                                                 *)
LEMMA SerialStep == SerialInv /\ [Next]_vars => SerialInv'
<1> SUFFICES ASSUME SerialInv, [Next]_vars PROVE SerialInv'
  OBVIOUS
<1>0. TypeOK /\ TypeOK'
  BY TypeStep DEF SerialInv
<1>1. ASSUME NEW r \in Requests, Fail(r) PROVE SerialInv'
  <2>1. Issued' = Issued /\ \A f : Live(f)' = Live(f)
    BY <1>1 DEF Fail, Issued, Live, Members
  <2> QED
    BY <1>0, <1>1, <2>1, AnsweringStep DEF Fail, Answers, Waits
<1>2. CASE Tick \/ Finished \/ UNCHANGED vars
  BY <1>0, <1>2
  DEF Tick, Finished, vars, SerialInv, OneLiveToken, Alone, SameFamily,
      Exclusive, EndedForGood, LiveKnown, Live, Members, Issued, Busy, Pending
<1> QED
  BY <1>0, <1>1, <1>2, SerialStart, SerialContinue DEF Next

(* The invariant that a run checks and the theorems below rest on.         *)
THEOREM SerialInvariant == Spec => []SerialInv
  BY SerialInit, SerialStep, PTL DEF Spec

(* Between refreshes that do not overlap, a family never has two tokens    *)
(* that are not revoked, however its requests fail.                        *)
THEOREM OneLiveTokenHolds == Spec => []OneLiveToken
<1>1. SerialInv => OneLiveToken
  BY DEF SerialInv
<1> QED
  BY <1>1, SerialInvariant, PTL

(* Once a logout, or a detected reuse, is answered, no later request makes *)
(* a token of that family live, unless requests overlapped on it.          *)
THEOREM EndedFamilyHolds == Spec => []EndedFamily
<1>1. SerialInv => EndedFamily
  BY DEF SerialInv, EndedForGood, EndedFamily
<1> QED
  BY <1>1, SerialInvariant, PTL

----------------------------------------------------------------------------
(* What no step of any request undoes: time, the family of a row, what an  *)
(* answered request was answered, and that a family was contended.         *)
LEMMA ClockStep == now \in Nat /\ Next => now' \in Nat /\ now <= now'
<1> SUFFICES ASSUME now \in Nat, Next PROVE now' \in Nat /\ now <= now'
  OBVIOUS
<1>1. ASSUME NEW r \in Requests, Start(r) PROVE now' = now
  BY <1>1 DEF Start, Login, RotateUnknown, RotateLookup, LogoutUnknown,
     LogoutLookup, Read, RevokeAllUserTokens
<1>2. ASSUME NEW r \in Requests, Continue(r) PROVE now' = now
  BY <1>2 DEF Continue, RejectExpired, RevokePresented, CreateSuccessor,
     FindLatest, FindNoLatest, RevokeLatest, CreateFromLatest, DetectReuse,
     LogoutRevoke
<1>3. ASSUME NEW r \in Requests, Fail(r) PROVE now' = now
  BY <1>3 DEF Fail
<1>4. CASE Tick
  BY <1>4 DEF Tick
<1>5. CASE Finished
  BY <1>5 DEF Finished, vars
<1> QED
  BY <1>1, <1>2, <1>3, <1>4, <1>5 DEF Next

(* The families of the rows, and the rows themselves, stay.                *)
LEMMA FamiliesKept ==
  ASSUME TypeOK, Next
  PROVE  Issued \subseteq Issued' /\ \A t \in Issued : table'[t].family = table[t].family
<1>0. now \in Nat
  BY DEF TypeOK
<1>1. ASSUME NEW S \in SUBSET Issued, Revokes(S)
      PROVE  Issued \subseteq Issued' /\ \A t \in Issued : table'[t].family = table[t].family
  BY <1>0, <1>1, RevokedFamilies
<1>2. ASSUME NEW t \in Tokens, NEW u \in Users, NEW f \in Families, CreateToken(t, u, f)
      PROVE  Issued \subseteq Issued' /\ \A x \in Issued : table'[x].family = table[x].family
  BY <1>2, CreatedFamilies
<1> QED
  BY <1>1, <1>2, TableSteps DEF Issued

(* What the steps of one request leave as it is.                           *)
OthersKept(r) ==
  \A q \in Requests \ {r} :
    /\ pc'[q] = pc[q] /\ answer'[q] = answer[q] /\ stored'[q] = stored[q]
    /\ seen'[q] = seen[q] /\ latest'[q] = latest[q]

LEMMA OthersKeptStep ==
  ASSUME TypeOK, NEW r \in Requests, Start(r) \/ Continue(r) \/ Fail(r)
  PROVE  OthersKept(r)
<1>1. ASSUME NEW t, NEW w, Read(r, t), Await(r, w) PROVE OthersKept(r)
  BY <1>1 DEF TypeOK, OthersKept, Read, Await
<1>2. ASSUME NEW a, Answer(r, a), UNCHANGED <<stored, seen, latest>>
      PROVE  OthersKept(r)
  BY <1>2 DEF TypeOK, OthersKept, Answer
<1>3. ASSUME NEW w, Await(r, w), UNCHANGED <<stored, seen, latest>>
      PROVE  OthersKept(r)
  BY <1>3 DEF TypeOK, OthersKept, Await
<1>4. ASSUME NEW t \in Tokens, FindLatest(r, t) PROVE OthersKept(r)
  BY <1>4 DEF TypeOK, OthersKept, FindLatest, Await
<1>5. CASE Start(r)
  BY <1>1, <1>2, <1>5 DEF Start, Login, RotateUnknown, RotateLookup, LogoutUnknown,
     LogoutLookup, RevokeAllUserTokens
<1>6. CASE Continue(r)
  BY <1>2, <1>3, <1>4, <1>6 DEF Continue, RejectExpired, RevokePresented,
     CreateSuccessor, FindNoLatest, RevokeLatest, CreateFromLatest, DetectReuse,
     LogoutRevoke
<1>7. CASE Fail(r)
  BY <1>2, <1>7 DEF Fail
<1> QED
  BY <1>5, <1>6, <1>7

(* A request moves alone, keeps what it read, and is answered once.        *)
LEMMA RequestsKept ==
  ASSUME TypeOK, Next
  PROVE  /\ \A q \in Requests : pc[q] # "idle" =>
              stored'[q] = stored[q] /\ seen'[q] = seen[q]
         /\ \A q \in Requests : pc[q] = "done" => pc'[q] = "done" /\ answer'[q] = answer[q]
         /\ \A f \in Families : contended[f] \subseteq contended'[f]
<1>1. ASSUME NEW r \in Requests, Start(r)
      PROVE  /\ pc[r] = "idle" /\ OthersKept(r)
             /\ \A f \in Families : contended[f] \subseteq contended'[f]
  <2>1. ASSUME NEW t \in Tokens, Read(r, t)
        PROVE  \A f \in Families : contended[f] \subseteq contended'[f]
    BY <2>1 DEF Read, TypeOK
  <2>2. \/ \E t \in Tokens : Read(r, t)
        \/ contended' = contended
    BY <1>1 DEF Start, Login, RotateUnknown, RotateLookup, LogoutUnknown,
       LogoutLookup, RevokeAllUserTokens
  <2>3. pc[r] = "idle"
    BY <1>1 DEF Start, Login, RotateUnknown, RotateLookup, LogoutUnknown,
       LogoutLookup, Read, RevokeAllUserTokens
  <2> QED
    BY <1>1, <2>1, <2>2, <2>3, OthersKeptStep
<1>2. ASSUME NEW r \in Requests, Continue(r) \/ Fail(r)
      PROVE  /\ pc[r] \in Waits /\ UNCHANGED <<stored, seen, contended>>
             /\ OthersKept(r)
  <2>1. pc[r] \in Waits /\ UNCHANGED <<stored, seen, contended>>
    BY <1>2 DEF Continue, RejectExpired, RevokePresented, CreateSuccessor,
       FindLatest, FindNoLatest, RevokeLatest, CreateFromLatest, DetectReuse,
       LogoutRevoke, Fail, Waits
  <2> QED
    BY <1>2, <2>1, OthersKeptStep
<1>3. CASE Tick \/ Finished
  BY <1>3 DEF Tick, Finished, vars
<1>4. ASSUME NEW r \in Requests, OthersKept(r), pc[r] = "idle" \/ pc[r] \in Waits
      PROVE  \A q \in Requests : pc[q] = "done" => pc'[q] = "done" /\ answer'[q] = answer[q]
  BY <1>4 DEF OthersKept, Waits
<1>5. ASSUME NEW r \in Requests, OthersKept(r),
             pc[r] = "idle" \/ UNCHANGED <<stored, seen>>
      PROVE  \A q \in Requests : pc[q] # "idle" =>
               stored'[q] = stored[q] /\ seen'[q] = seen[q]
  BY <1>5 DEF OthersKept
<1> QED
  BY <1>1, <1>2, <1>3, <1>4, <1>5 DEF Next

(* A rotation never ends a family: a token of it is live, or is about to   *)
(* be created, or an answer was given after which it may have been ended.  *)
Ended(f) == \E q \in Requests : MayHaveEnded(q, f)

Sustained ==
  \A f \in Families : Members(f) # {} => Live(f) # {} \/ Creating(f) # {} \/ Ended(f)

(* What was answered stays so.                                             *)
LEMMA EndedKept ==
  ASSUME TypeOK, Next, NEW q \in Requests, NEW f, MayHaveEnded(q, f)
  PROVE  MayHaveEnded(q, f)'
<1>1. pc[q] = "done"
  BY DEF MayHaveEnded, TypeOK
<1>2. answer'[q] = answer[q] /\ stored'[q] = stored[q]
  BY <1>1, RequestsKept
<1>3. CASE answer[q] = "revokedAll"
  BY <1>2, <1>3 DEF MayHaveEnded
<1>4. CASE stored[q] # Null /\ table[stored[q]].family = f
  <2>1. stored[q] \in Issued
    BY <1>4 DEF TypeOK
  <2>2. table'[stored[q]].family = f
    BY <1>4, <2>1, FamiliesKept
  <2> QED
    BY <1>2, <1>4, <2>2 DEF MayHaveEnded
<1> QED
  BY <1>3, <1>4 DEF MayHaveEnded

(* A request that ends in one of these ways may have ended its family.     *)
LEMMA Ends ==
  ASSUME TypeOK, Next, NEW r \in Requests, pc[r] \in Waits, stored'[r] = stored[r],
         NEW a \in {"reuse", "loggedOut", "failed"}, Answer(r, a)
  PROVE  Ended(table[stored[r]].family)'
<1>1. answer'[r] = a
  BY DEF Answer, TypeOK
<1>2. stored[r] \in Issued /\ stored[r] # Null
  BY DEF TypeOK
<1>3. table'[stored[r]].family = table[stored[r]].family
  BY <1>2, FamiliesKept
<1> QED
  BY <1>1, <1>2, <1>3 DEF Ended, MayHaveEnded

LEMMA SustainedStep ==
  ASSUME SerialInv, TypeOK', Next, Sustained, NEW f \in Families,
         Members(f)' # {}, ~Ended(f)'
  PROVE  Live(f)' # {} \/ Creating(f)' # {}
<1>0. TypeOK /\ (Members(f) # {} => Live(f) # {} \/ Creating(f) # {})
  BY EndedKept DEF SerialInv, Sustained, Ended
<1>1. /\ \A q \in Requests : pc[q] \in Waits => stored[q] \in Issued /\ stored'[q] = stored[q]
      /\ \A t \in Issued : t \in Issued' /\ table'[t].family = table[t].family
  BY <1>0, RequestsKept, FamiliesKept DEF TypeOK, Waits
<1>2. ASSUME NEW q \in Creating(f), pc'[q] = pc[q] PROVE q \in Creating(f)'
  BY <1>1, <1>2 DEF Creating, Busy, Waits
<1>3. ASSUME table' = table,
             \A q \in Requests : pc[q] \in {"create", "createLatest"} => pc'[q] = pc[q]
      PROVE  Live(f)' # {} \/ Creating(f)' # {}
  <2>1. Members(f)' = Members(f) /\ Live(f)' = Live(f)
    BY <1>3 DEF Members, Live, Issued
  <2> QED
    BY <1>0, <1>2, <1>3, <2>1 DEF Creating, Busy
<1>4. ASSUME NEW r \in Requests, NEW t \in Issued, Revokes({t}),
             pc[r] \in Waits, table[t].family = table[stored[r]].family,
             pc'[r] \in {"create", "createLatest"},
             \A q \in Requests \ {r} : pc'[q] = pc[q]
      PROVE  Live(f)' # {} \/ Creating(f)' # {}
  <2>1. CASE f = table[t].family
    <3>1. /\ stored[r] \in Issued /\ stored'[r] = stored[r]
          /\ table'[stored[r]].family = table[stored[r]].family
      BY <1>1, <1>4
    <3>2. table'[stored'[r]].family = f
      BY <1>4, <2>1, <3>1
    <3>3. r \in Creating(f)'
      BY <1>4, <3>2 DEF Creating, Busy, Waits
    <3> QED
      BY <3>3
  <2>2. CASE f # table[t].family
    <3>1. Issued' = Issued /\ Live(f)' = Live(f) \ {t} /\ {t} \in SUBSET Issued
      BY <1>0, <1>4, RevokedFamilies DEF TypeOK
    <3>2. Live(f)' = Live(f) /\ Members(f)' = Members(f)
      BY <1>1, <2>2, <3>1 DEF Live, Members
    <3>3. ASSUME NEW q \in Creating(f) PROVE q \in Creating(f)'
      BY <1>2, <1>4, <2>2, <3>3 DEF Creating, Busy
    <3> QED
      BY <1>0, <3>2, <3>3
  <2> QED
    BY <2>1, <2>2
<1>5. ASSUME NEW r \in Requests, NEW t \in Tokens, NEW u \in Users, NEW g \in Families,
             CreateToken(t, u, g), pc[r] \in Waits => table[stored[r]].family = g,
             \A q \in Requests \ {r} : pc'[q] = pc[q]
      PROVE  Live(f)' # {} \/ Creating(f)' # {}
  <2>1. /\ Issued' = Issued \cup {t} /\ t \notin Issued /\ table'[t].family = g
        /\ Live(f)' = IF f = g THEN Live(f) \cup {t} ELSE Live(f)
    BY <1>0, <1>5, CreatedFamilies
  <2>2. CASE f # g
    <3>1. Members(f)' = Members(f)
      BY <1>1, <2>1, <2>2 DEF Members
    <3>2. ASSUME NEW q \in Creating(f) PROVE q \in Creating(f)'
      BY <1>2, <1>5, <2>2, <3>2 DEF Creating, Busy
    <3> QED
      BY <1>0, <2>1, <2>2, <3>1, <3>2
  <2> QED
    BY <2>1, <2>2
<1>6. ASSUME NEW r \in Requests, Start(r) PROVE Live(f)' # {} \/ Creating(f)' # {}
  <2>1. pc[r] = "idle" /\ \A q \in Requests \ {r} : pc'[q] = pc[q]
    <3>1. pc[r] = "idle"
      BY <1>6 DEF Start, Login, RotateUnknown, RotateLookup, LogoutUnknown, LogoutLookup,
         Read, RevokeAllUserTokens
    <3>2. PICK w : pc' = [pc EXCEPT ![r] = w]
      BY <1>6 DEF Start, Login, RotateUnknown, RotateLookup, LogoutUnknown, LogoutLookup,
         Read, RevokeAllUserTokens, Answer, Await
    <3>3. pc \in [Requests -> Waits \cup {"idle", "done"}]
      BY <1>0 DEF TypeOK
    <3> QED
      BY <3>1, <3>2, <3>3
  <2>2. ASSUME NEW u \in Users, NEW g \in Families, NEW t \in Tokens, Login(r, u, g, t)
        PROVE  Live(f)' # {} \/ Creating(f)' # {}
    BY <1>5, <2>1, <2>2 DEF Login, Waits
  <2>3. ASSUME NEW u \in Users, RevokeAllUserTokens(r, u) PROVE FALSE
    BY <1>0, <2>3 DEF RevokeAllUserTokens, Answer, TypeOK, Ended, MayHaveEnded
  <2>4. CASE table' = table
    BY <1>3, <2>1, <2>4
  <2> QED
    BY <1>6, <2>2, <2>3, <2>4
    DEF Start, RotateUnknown, RotateLookup, LogoutUnknown, LogoutLookup, Read
<1>7. ASSUME NEW r \in Requests, Continue(r) PROVE Live(f)' # {} \/ Creating(f)' # {}
  <2>1. pc[r] \in Waits /\ \A q \in Requests \ {r} : pc'[q] = pc[q]
    BY <1>0, <1>7 DEF Continue, RejectExpired, RevokePresented, CreateSuccessor,
       FindLatest, FindNoLatest, RevokeLatest, CreateFromLatest, DetectReuse,
       LogoutRevoke, Answer, Await, TypeOK, Waits
  <2>2. stored[r] \in Issued /\ table[stored[r]] \in Row
    BY <1>0, <1>1, <2>1, IssuedRow
  <2>3. CASE RejectExpired(r) \/ (\E t \in Tokens : FindLatest(r, t)) \/ FindNoLatest(r)
    <3>1. table' = table /\ pc[r] = "lookedUp"
      BY <2>3 DEF RejectExpired, FindLatest, FindNoLatest
    <3> QED
      BY <1>3, <2>1, <3>1
  <2>4. CASE RevokePresented(r)
    <3>1. pc'[r] = "create" /\ Revokes({stored[r]})
      BY <1>0, <2>4 DEF RevokePresented, Revokes, Await, TypeOK
    <3> QED
      BY <1>4, <2>1, <2>2, <3>1
  <2>5. CASE RevokeLatest(r)
    <3>1. pc'[r] = "createLatest" /\ Revokes({latest[r]}) /\ latest[r] \in Issued
      BY <1>0, <2>5 DEF RevokeLatest, Await, TypeOK
    <3>2. table[latest[r]].family = table[stored[r]].family
      BY <2>5 DEF RevokeLatest, SerialInv, SameFamily
    <3> QED
      BY <1>4, <2>1, <3>1, <3>2
  <2>6. ASSUME NEW t \in Tokens, CreateSuccessor(r, t)
        PROVE  Live(f)' # {} \/ Creating(f)' # {}
    BY <1>5, <2>1, <2>2, <2>6 DEF CreateSuccessor, Row
  <2>7. ASSUME NEW t \in Tokens, CreateFromLatest(r, t)
        PROVE  Live(f)' # {} \/ Creating(f)' # {}
    <3>1. /\ table[latest[r]].family = table[stored[r]].family
          /\ table[latest[r]] \in Row
      BY <1>0, <2>7, IssuedRow DEF CreateFromLatest, TypeOK, SerialInv, SameFamily
    <3> QED
      BY <1>5, <2>1, <2>7, <3>1 DEF CreateFromLatest, Row
  <2>8. ASSUME DetectReuse(r) \/ LogoutRevoke(r)
        PROVE  Live(f)' # {} \/ Creating(f)' # {}
    <3> DEFINE g == table[stored[r]].family
    <3>1. /\ Revokes(Live(g)) /\ Live(g) \in SUBSET Issued
          /\ \E a \in {"reuse", "loggedOut"} : Answer(r, a)
          /\ pc[r] \in {"lookedUp", "revokeFamily", "logout"}
      BY <2>8 DEF DetectReuse, LogoutRevoke, Revokes, Live, Members
    <3>2. g # f
      BY <1>0, <1>1, <2>1, <3>1, Ends
    <3>3. Issued' = Issued /\ Live(f)' = Live(f) \ Live(g)
      BY <1>0, <3>1, RevokedFamilies DEF TypeOK
    <3>4. Live(f)' = Live(f) /\ Members(f)' = Members(f)
      BY <1>1, <3>2, <3>3 DEF Live, Members
    <3>5. ASSUME NEW q \in Creating(f) PROVE q \in Creating(f)'
      BY <1>2, <2>1, <3>1, <3>5 DEF Creating, Busy
    <3> QED
      BY <1>0, <3>4, <3>5
  <2> QED
    BY <1>7, <2>3, <2>4, <2>5, <2>6, <2>7, <2>8 DEF Continue
<1>8. ASSUME NEW r \in Requests, Fail(r) PROVE Live(f)' # {} \/ Creating(f)' # {}
  <2>1. pc[r] \in Waits /\ Answer(r, "failed") /\ table' = table
    BY <1>8 DEF Fail
  <2>2. table[stored[r]].family # f
    BY <1>0, <1>1, <2>1, Ends
  <2>3. Members(f)' = Members(f) /\ Live(f)' = Live(f)
    BY <2>1 DEF Members, Live, Issued
  <2>4. \A q \in Requests \ {r} : pc'[q] = pc[q]
    BY <1>0, <2>1 DEF Answer, TypeOK
  <2>5. ASSUME NEW q \in Creating(f) PROVE q \in Creating(f)'
    BY <1>2, <2>2, <2>4, <2>5 DEF Creating, Busy
  <2> QED
    BY <1>0, <2>3, <2>5
<1>9. CASE Tick \/ Finished
  BY <1>3, <1>9 DEF Tick, Finished, vars
<1> QED
  BY <1>6, <1>7, <1>8, <1>9 DEF Next

(* What excuses a rejection: requests that overlapped on the family, or    *)
(* another request that ended it, or that left it half rotated.            *)
Excused(r) ==
  \/ contended[table[stored[r]].family] # {}
  \/ \E q \in Requests \ {r} : MayHaveEnded(q, table[stored[r]].family)

(* The live token is found wanting, and reuse detected, only with excuse.  *)
Wanting(r) == pc[r] = "revokeFamily" => seen[r] # Null /\ Excused(r)

Rejected(r) ==
  answer[r] = "reuse" =>
    /\ stored[r] # Null
    /\ seen[r] # Null
    /\ now - seen[r] > Grace \/ Excused(r)

GraceInv ==
  SerialInv /\ Sustained /\ \A r \in Requests : Wanting(r) /\ Rejected(r)

LEMMA ExcusedKept ==
  ASSUME TypeOK, Next, NEW r \in Requests, pc[r] # "idle", stored[r] # Null, Excused(r)
  PROVE  Excused(r)'
<1>1. stored[r] \in Issued /\ table[stored[r]].family \in Families
  BY IssuedRow DEF TypeOK, Row
<1>2. stored'[r] = stored[r] /\ table'[stored[r]].family = table[stored[r]].family
  BY <1>1, RequestsKept, FamiliesKept
<1>3. CASE contended[table[stored[r]].family] # {}
  BY <1>1, <1>2, <1>3, RequestsKept DEF Excused
<1>4. ASSUME NEW q \in Requests \ {r}, MayHaveEnded(q, table[stored[r]].family)
      PROVE  Excused(r)'
  BY <1>2, <1>4, EndedKept DEF Excused
<1> QED
  BY <1>3, <1>4 DEF Excused

(* A request alone on a family that nobody has ended finds its live token. *)
LEMMA FoundAlone ==
  ASSUME SerialInv, Sustained, NEW r \in Requests, FindNoLatest(r)
  PROVE  Excused(r)
<1> SUFFICES ASSUME ~Excused(r) PROVE FALSE
  OBVIOUS
<1> DEFINE g == table[stored[r]].family
<1>1. /\ TypeOK /\ pc[r] = "lookedUp" /\ answer[r] = "none" /\ LatestLive(g) = {}
  BY DEF SerialInv, FindNoLatest, TypeOK
<1>2. stored[r] \in Issued /\ g \in Families /\ stored[r] \in Members(g)
  BY <1>1, IssuedRow DEF TypeOK, Waits, Row, Members
<1>3. r \in Busy(g) /\ contended[g] = {}
  BY <1>1 DEF Busy, Waits, Excused
<1>4. ~Ended(g)
  BY <1>1 DEF Excused, Ended, MayHaveEnded
<1>5. Live(g) # {} \/ Creating(g) # {}
  BY <1>2, <1>4 DEF Sustained
<1>6. Creating(g) = {}
  BY <1>1, <1>2, <1>3 DEF Creating, SerialInv, Alone
<1>7. PICK t \in Live(g) : TRUE
  BY <1>5, <1>6
<1>8. \A u \in Live(g) : u = t
  BY <1>2, <1>3, <1>7 DEF SerialInv, OneLiveToken
<1>9. table[t].createdAt \in Nat
  BY <1>1, <1>7, IssuedRow DEF Live, Members, Row
<1>10. t \in LatestLive(g)
  BY <1>7, <1>8, <1>9 DEF LatestLive
<1> QED
  BY <1>1, <1>10

LEMMA GraceStutter == GraceInv /\ UNCHANGED vars => GraceInv'
<1> SUFFICES ASSUME GraceInv, UNCHANGED vars PROVE GraceInv'
  OBVIOUS
<1>1. SerialInv'
  BY SerialStep DEF GraceInv
<1>2. Sustained' /\ \A r \in Requests : Wanting(r)' /\ Rejected(r)'
  BY DEF GraceInv, vars, Sustained, Ended, MayHaveEnded, Members, Issued, Live, Creating, Busy,
     Wanting, Rejected, Excused
<1> QED
  BY <1>1, <1>2 DEF GraceInv

(* A request comes to its next await, and to its answer, by itself.        *)
LEMMA OneMoves ==
  ASSUME TypeOK, Next, NEW r \in Requests, pc'[r] # pc[r] \/ answer'[r] # answer[r]
  PROVE  Start(r) \/ Continue(r) \/ Fail(r)
<1>1. ASSUME NEW q \in Requests, Start(q), q # r PROVE FALSE
  BY <1>1 DEF Start, Login, RotateUnknown, RotateLookup, LogoutUnknown,
     LogoutLookup, Read, RevokeAllUserTokens, Answer, Await, TypeOK
<1>2. ASSUME NEW q \in Requests, Continue(q) \/ Fail(q), q # r PROVE FALSE
  BY <1>2 DEF Continue, RejectExpired, RevokePresented, CreateSuccessor,
     FindLatest, FindNoLatest, RevokeLatest, CreateFromLatest, DetectReuse,
     LogoutRevoke, Fail, Answer, Await, TypeOK
<1>3. CASE Tick \/ Finished
  BY <1>3 DEF Tick, Finished, vars
<1> QED
  BY <1>1, <1>2, <1>3 DEF Next

(* The only step that is answered so is revokeAllUserTokens, and a request *)
(* that does not move keeps its latestToken.                               *)
LEMMA RevokedAllStep ==
  ASSUME TypeOK, Next, NEW r \in Requests, Start(r) \/ Continue(r) \/ Fail(r),
         answer'[r] = "revokedAll", answer[r] # "revokedAll"
  PROVE  \E u \in Users : RevokeAllUserTokens(r, u)
<1>1. ASSUME Start(r) PROVE \E u \in Users : RevokeAllUserTokens(r, u)
  BY <1>1 DEF Start, Login, RotateUnknown, RotateLookup, LogoutUnknown,
     LogoutLookup, Read, Answer, Await, TypeOK
<1>2. ASSUME Continue(r) \/ Fail(r) PROVE FALSE
  BY <1>2 DEF Continue, RejectExpired, RevokePresented, CreateSuccessor,
     FindLatest, FindNoLatest, RevokeLatest, CreateFromLatest, DetectReuse,
     LogoutRevoke, Fail, Answer, Await, TypeOK
<1> QED
  BY <1>1, <1>2

LEMMA LatestKept ==
  ASSUME TypeOK, Next, NEW r \in Requests, pc[r] \in Waits, pc'[r] = pc[r]
  PROVE  latest'[r] = latest[r]
<1>1. ASSUME NEW q \in Requests, Start(q) PROVE latest' = latest
  BY <1>1 DEF Start, Login, RotateUnknown, RotateLookup, LogoutUnknown,
     LogoutLookup, Read, RevokeAllUserTokens
<1>2. ASSUME NEW q \in Requests, NEW t \in Tokens, FindLatest(q, t)
      PROVE  latest'[r] = latest[r]
  BY <1>2 DEF FindLatest, Await, TypeOK
<1>3. ASSUME NEW q \in Requests, Continue(q) \/ Fail(q)
      PROVE  latest' = latest \/ \E t \in Tokens : FindLatest(q, t)
  BY <1>3 DEF Continue, RejectExpired, RevokePresented, CreateSuccessor,
     FindNoLatest, RevokeLatest, CreateFromLatest, DetectReuse, LogoutRevoke, Fail
<1>4. CASE Tick \/ Finished
  BY <1>4 DEF Tick, Finished, vars
<1> QED
  BY <1>1, <1>2, <1>3, <1>4 DEF Next

(* Only these two actions come to the await, and to the answer, in question. *)
LEMMA RejectionSteps ==
  ASSUME TypeOK, Next, NEW r \in Requests
  PROVE  /\ pc'[r] = "revokeFamily" /\ pc[r] # "revokeFamily" => FindNoLatest(r)
         /\ answer'[r] = "reuse" /\ answer[r] # "reuse" => DetectReuse(r)
<1>1. ASSUME Start(r) PROVE pc'[r] # "revokeFamily" /\ answer'[r] # "reuse"
  BY <1>1 DEF Start, Login, RotateUnknown, RotateLookup, LogoutUnknown,
     LogoutLookup, Read, RevokeAllUserTokens, Answer, Await, TypeOK
<1>2. ASSUME Continue(r), ~FindNoLatest(r) PROVE pc'[r] # "revokeFamily"
  BY <1>2 DEF Continue, RejectExpired, RevokePresented, CreateSuccessor,
     FindLatest, RevokeLatest, CreateFromLatest, DetectReuse, LogoutRevoke,
     Answer, Await, TypeOK
<1>3. ASSUME Continue(r), ~DetectReuse(r), answer[r] # "reuse" PROVE answer'[r] # "reuse"
  BY <1>3 DEF Continue, RejectExpired, RevokePresented, CreateSuccessor,
     FindLatest, FindNoLatest, RevokeLatest, CreateFromLatest, LogoutRevoke,
     Answer, Await, TypeOK
<1>4. ASSUME Fail(r) PROVE pc'[r] # "revokeFamily" /\ answer'[r] # "reuse"
  BY <1>4 DEF Fail, Answer, TypeOK
<1> QED
  BY <1>1, <1>2, <1>3, <1>4, OneMoves

LEMMA GraceStep == GraceInv /\ [Next]_vars => GraceInv'
<1> SUFFICES ASSUME GraceInv, [Next]_vars, Next PROVE GraceInv'
  BY GraceStutter
<1>0. SerialInv /\ SerialInv' /\ TypeOK /\ TypeOK'
  BY SerialStep DEF GraceInv, SerialInv
<1>1. Sustained'
  BY <1>0, SustainedStep DEF GraceInv, Sustained
<1>2. ASSUME NEW r \in Requests, pc[r] = "revokeFamily" \/ answer[r] = "reuse"
      PROVE  /\ pc'[r] = "revokeFamily" => Wanting(r)'
             /\ answer'[r] = "reuse" => Rejected(r)'
  <2>1. /\ pc[r] # "idle" /\ stored[r] # Null /\ seen[r] # Null
        /\ Excused(r) \/ (now - seen[r] > Grace /\ answer[r] = "reuse")
    <3>1. Wanting(r) /\ Rejected(r)
      BY DEF GraceInv
    <3>2. CASE pc[r] = "revokeFamily"
      BY <1>0, <3>1, <3>2 DEF Wanting, TypeOK, Waits
    <3>3. CASE answer[r] = "reuse"
      <4>1. pc[r] = "done"
        BY <1>0, <3>3 DEF TypeOK
      <4> QED
        BY <3>1, <3>3, <4>1 DEF Rejected
    <3> QED
      BY <1>2, <3>2, <3>3
  <2>2. stored'[r] = stored[r] /\ seen'[r] = seen[r] /\ now' \in Nat /\ now <= now'
    BY <1>0, <2>1, RequestsKept, ClockStep DEF TypeOK
  <2>3. Excused(r) => Excused(r)'
    BY <1>0, <2>1, ExcusedKept
  <2>4. pc'[r] = "revokeFamily" => answer[r] # "reuse"
    BY <1>0, RequestsKept DEF TypeOK
  <2>5. /\ now \in Nat /\ seen[r] \in Nat /\ Grace \in Nat
    BY <1>0, <2>1, BoundsAssumption DEF TypeOK
  <2> QED
    BY <2>1, <2>2, <2>3, <2>4, <2>5 DEF Wanting, Rejected
<1>3. ASSUME NEW r \in Requests, pc[r] # "revokeFamily", pc'[r] = "revokeFamily"
      PROVE  Wanting(r)'
  <2>1. FindNoLatest(r)
    BY <1>0, <1>3, RejectionSteps
  <2>2. Excused(r)
    BY <1>0, <2>1, FoundAlone DEF GraceInv
  <2>3. pc[r] # "idle" /\ stored[r] # Null /\ seen'[r] # Null
    BY <1>0, <2>1 DEF FindNoLatest, TypeOK, Waits
  <2> QED
    BY <1>0, <2>2, <2>3, ExcusedKept DEF Wanting
<1>4. ASSUME NEW r \in Requests, answer[r] # "reuse", answer'[r] = "reuse"
      PROVE  Rejected(r)'
  <2>1. DetectReuse(r)
    BY <1>0, <1>4, RejectionSteps
  <2>2. stored[r] # Null /\ pc[r] # "idle" /\ UNCHANGED <<stored, seen, now>>
    BY <1>0, <2>1 DEF DetectReuse, TypeOK, Waits
  <2>3. CASE pc[r] = "revokeFamily"
    BY <1>0, <2>2, <2>3, ExcusedKept DEF GraceInv, Wanting, Rejected
  <2>4. ASSUME seen[r] # Null, NEW d \in Clock, ~WithinGrace(r, d) PROVE Rejected(r)'
    <3>1. now \in Nat /\ seen[r] \in Nat /\ Grace \in Nat /\ d \in Nat /\ d <= now
      BY <1>0, <2>4, ClockDates, BoundsAssumption DEF TypeOK
    <3> QED
      BY <2>2, <2>4, <3>1 DEF WithinGrace, Rejected
  <2> QED
    BY <2>1, <2>3, <2>4 DEF DetectReuse
<1>5. ASSUME NEW r \in Requests PROVE Wanting(r)' /\ Rejected(r)'
  <2>1. pc'[r] = "revokeFamily" => Wanting(r)'
    BY <1>2, <1>3
  <2>2. answer'[r] = "reuse" => Rejected(r)'
    BY <1>2, <1>4
  <2> QED
    BY <2>1, <2>2 DEF Wanting, Rejected
<1> QED
  BY <1>0, <1>1, <1>5 DEF GraceInv

LEMMA GraceInvariant == Spec => []GraceInv
<1>1. Init => GraceInv
  <2> SUFFICES ASSUME Init PROVE GraceInv
    OBVIOUS
  <2> QED
    BY SerialInit DEF Init, GraceInv, Sustained, Members, Issued, Wanting, Rejected
<1> QED
  BY <1>1, GraceStep, PTL DEF Spec

(* The grace period serves a stale tab: a token that was rotated at most   *)
(* Grace ago is not taken for reuse, if no refresh of the family           *)
(* overlapped with another, nobody logged out of it and nothing failed in  *)
(* it, whatever happens in the other families.                             *)
THEOREM GraceServesStaleTabHolds == Spec => []GraceServesStaleTab
<1>1. GraceInv => GraceServesStaleTab
  BY DEF GraceInv, Rejected, Excused, GraceServesStaleTab, FirstRejection
<1> QED
  BY <1>1, GraceInvariant, PTL

----------------------------------------------------------------------------
(* RefreshTokens implements SessionFamilies, without any assumption on how *)
(* the requests overlap; and no revocation is ever undone.                 *)

(* What every request may do to the requests that are about to create a    *)
(* token: SameFamily does not depend on who else is busy on the family.    *)
RefInv == TypeOK /\ SameFamily

Owners(f) == {table[t].user : t \in Members(f)}
Over(f) == Live(f) = {} /\ Pending(f) = {}

(* A step that opens no family, changes no owner and revives no family is  *)
(* the end of the families that are over after it, or a stutter.           *)
LEMMA QuietStep ==
  ASSUME \A f \in Families : Members(f)' = {} <=> Members(f) = {},
         \A f \in Families : Owners(f)' = Owners(f),
         \A f \in Families : Over(f) => Over(f)'
  PROVE  [Sessions!Next]_(Sessions!vars)
<1> DEFINE ph == [f \in Families |-> Phase(f)]
           ow == [f \in Families |-> Owners(f)]
           E == {f \in Families : ph[f] = "active" /\ ph'[f] = "ended"}
<1>1. \A f \in Families : ph'[f] = IF f \in E THEN "ended" ELSE ph[f]
  BY DEF Phase, Over
<1>2. ow' = ow
  OBVIOUS
<1>3. ph' = [f \in Families |-> IF f \in E THEN "ended" ELSE ph[f]]
  BY <1>1
<1>4. CASE E = {}
  <2>1. ph' = ph
    BY <1>1, <1>4
  <2> QED
    BY <1>2, <2>1 DEF Sessions!vars, Owners
<1>5. CASE E # {}
  <2>1. Sessions!End(E)
    BY <1>2, <1>3, <1>5 DEF Sessions!End, Owners
  <2>2. E \in SUBSET Families
    OBVIOUS
  <2> QED
    BY <2>1, <2>2 DEF Sessions!Next
<1> QED
  BY <1>4, <1>5

(* No statement but createToken changes which tokens a family has, nor     *)
(* whose they are.                                                         *)
LEMMA SameMembers ==
  ASSUME TypeOK, Issued' = Issued,
         \A t \in Issued : /\ table'[t].family = table[t].family
                          /\ table'[t].user = table[t].user
  PROVE  /\ \A f : Members(f)' = Members(f)
         /\ \A f : Owners(f)' = Owners(f)
<1>1. \A f : Members(f)' = Members(f)
  BY DEF Members
<1>2. \A f : \A t \in Members(f) : table'[t].user = table[t].user
  BY DEF Members
<1> QED
  BY <1>1, <1>2 DEF Owners

LEMMA RevokedUsers ==
  ASSUME TypeOK, NEW S \in SUBSET Issued, Revokes(S)
  PROVE  \A t \in Issued : table'[t].user = table[t].user
  BY RevokedDates

(* A step that creates nothing, and that commits to creating only where a  *)
(* token is live or a creation was pending, is a quiet step.               *)
LEMMA NoCreation ==
  ASSUME TypeOK, Issued' = Issued,
         \A t \in Issued : /\ table'[t].family = table[t].family
                          /\ table'[t].user = table[t].user,
         \A f : Live(f)' \subseteq Live(f),
         NEW r \in Requests,
         \A f : \A q \in Pending(f)' : q # r => q \in Pending(f),
         \A f : r \in Pending(f)' => r \in Pending(f) \/ Live(f) # {}
  PROVE  [Sessions!Next]_(Sessions!vars)
<1>1. /\ \A f : Members(f)' = Members(f)
      /\ \A f : Owners(f)' = Owners(f)
  BY SameMembers
<1>2. \A f : Over(f) => Over(f)'
  BY DEF Over
<1> QED
  BY <1>1, <1>2, QuietStep

(* createToken with a family id: its request was pending there.            *)
LEMMA Successor ==
  ASSUME RefInv, NEW r \in Requests, NEW t \in Tokens, NEW x \in Issued,
         pc[r] \in {"create", "createLatest"},
         table[stored[r]].family = table[x].family,
         CreateToken(t, table[x].user, table[x].family), Answer(r, "served"),
         UNCHANGED <<now, stored, seen, latest, contended>>
  PROVE  [Sessions!Next]_(Sessions!vars)
<1> DEFINE u == table[x].user
           g == table[x].family
<1>0. TypeOK /\ u \in Users /\ g \in Families
  BY IssuedRow DEF RefInv, Row
<1>1. CreateToken(t, u, g) /\ x \in Members(g) /\ table[x].user = u
      /\ table[stored[r]].family = g
  BY DEF Members
<1> HIDE DEF u, g
<1>2. /\ t \notin Issued
      /\ Issued' = Issued \cup {t}
      /\ \A y \in Issued : table'[y] = table[y]
      /\ table'[t].family = g
      /\ \A f : Live(f)' = IF f = g THEN Live(f) \cup {t} ELSE Live(f)
  BY <1>0, <1>1, CreatedFamilies
<1>3. table'[t].user = u
  BY <1>0, <1>1 DEF CreateToken, TypeOK
<1>4. \A f : Members(f)' = IF f = g THEN Members(f) \cup {t} ELSE Members(f)
  BY <1>2 DEF Members
<1>5. \A f : \A y \in Members(f) : table'[y].user = table[y].user
  BY <1>2 DEF Members
<1>6. \A f : Owners(f)' = Owners(f)
  BY <1>1, <1>3, <1>4, <1>5 DEF Owners
<1>7. \A f : Pending(f)' \subseteq Pending(f)
  BY <1>0, <1>2 DEF Pending, Busy, Answer, TypeOK, Waits
<1>8. r \in Pending(g)
  BY <1>1 DEF Pending, Busy, Waits
<1>9. \A f : Over(f) => Over(f)'
  BY <1>2, <1>7, <1>8 DEF Over
<1> QED
  BY <1>1, <1>4, <1>6, <1>9, QuietStep

(* A login opens its family.                                               *)
LEMMA FamilyOpens ==
  ASSUME TypeOK, NEW r \in Requests, NEW u \in Users, NEW g \in Families,
         NEW t \in Tokens, Login(r, u, g, t)
  PROVE  [Sessions!Next]_(Sessions!vars)
<1> DEFINE ph == [f \in Families |-> Phase(f)]
           ow == [f \in Families |-> Owners(f)]
<1>1. /\ t \notin Issued
      /\ Issued' = Issued \cup {t}
      /\ \A y \in Issued : table'[y] = table[y]
      /\ table'[t].family = g
      /\ \A f : Live(f)' = IF f = g THEN Live(f) \cup {t} ELSE Live(f)
  BY CreatedFamilies DEF Login
<1>2. table'[t].user = u
  BY DEF CreateToken, TypeOK, Login
<1>3. \A f : Members(f)' = IF f = g THEN Members(f) \cup {t} ELSE Members(f)
  BY <1>1 DEF Members
<1>4. Members(g) = {} /\ Live(g)' # {} /\ Members(g)' = {t}
  BY <1>1, <1>3 DEF Login
<1>5. \A q \in Requests : pc[q] \in Waits => stored[q] \in Issued
  BY DEF TypeOK
<1>6. \A f : Pending(f)' = Pending(f)
  BY <1>1, <1>5 DEF Pending, Busy, Answer, Login, TypeOK, Waits
<1>7. \A f \in Families : f # g => Phase(f)' = Phase(f)
  BY <1>1, <1>3, <1>6 DEF Phase
<1>8. Phase(g) = "unborn" /\ Phase(g)' = "active"
  BY <1>4 DEF Phase
<1>9. ph' = [ph EXCEPT ![g] = "active"] /\ ph[g] = "unborn"
  BY <1>7, <1>8
<1>10. \A f \in Families : f # g => Owners(f)' = Owners(f)
  BY <1>1, <1>3 DEF Owners, Members
<1>11. Owners(g)' = {u}
  BY <1>2, <1>4 DEF Owners
<1>12. ow' = [ow EXCEPT ![g] = {u}]
  BY <1>10, <1>11
<1>13. Sessions!Open(g, u)
  BY <1>9, <1>12 DEF Sessions!Open, Owners
<1> QED
  BY <1>13 DEF Sessions!Next

----------------------------------------------------------------------------
LEMMA StartSimulates ==
  ASSUME TypeOK, NEW r \in Requests, Start(r)
  PROVE  [Sessions!Next]_(Sessions!vars)
<1>1. ASSUME NEW u \in Users, NEW f \in Families, NEW t \in Tokens,
             Login(r, u, f, t)
      PROVE  [Sessions!Next]_(Sessions!vars)
  BY <1>1, FamilyOpens
<1>2. CASE RotateUnknown(r) \/ LogoutUnknown(r)
  <2>1. Issued' = Issued /\ table' = table /\ \A f : Live(f)' = Live(f)
    BY <1>2 DEF RotateUnknown, LogoutUnknown, Issued, Live, Members
  <2>2. \A f : Pending(f)' \subseteq Pending(f)
    BY <1>2 DEF RotateUnknown, LogoutUnknown, Answer, Pending, Busy, TypeOK, Waits
  <2> QED
    BY <2>1, <2>2, NoCreation
<1>3. ASSUME NEW t \in Tokens, RotateLookup(r, t) \/ LogoutLookup(r, t)
      PROVE  [Sessions!Next]_(Sessions!vars)
  <2>1. /\ table' = table /\ Issued' = Issued
        /\ \A f : Live(f)' = Live(f)
        /\ t \in Issued
    BY <1>3 DEF RotateLookup, LogoutLookup, Read, Issued, Live, Members
  <2>2. /\ \A q \in Requests : q # r =>
             pc'[q] = pc[q] /\ stored'[q] = stored[q] /\ seen'[q] = seen[q]
        /\ pc'[r] \in {"lookedUp", "logout"}
        /\ stored'[r] = t /\ seen'[r] = table[t].revokedAt
    BY <1>3 DEF RotateLookup, LogoutLookup, Read, Await, TypeOK
  <2>3. \A f : \A q \in Pending(f)' : q # r => q \in Pending(f)
    BY <2>1, <2>2 DEF Pending, Busy
  <2>4. \A f : r \in Pending(f)' => t \in Live(f)
    BY <2>1, <2>2 DEF Pending, Busy, Live, Members
  <2> QED
    BY <2>1, <2>3, <2>4, NoCreation
<1>4. ASSUME NEW u \in Users, RevokeAllUserTokens(r, u)
      PROVE  [Sessions!Next]_(Sessions!vars)
  <2> DEFINE S == {t \in Issued : table[t].user = u /\ table[t].revokedAt = Null}
  <2>1. S \in SUBSET Issued /\ Revokes(S) /\ now \in Nat
    BY <1>4 DEF RevokeAllUserTokens, TypeOK
  <2> HIDE DEF S
  <2>2. /\ Issued' = Issued
        /\ \A t \in Issued : /\ table'[t].family = table[t].family
                            /\ table'[t].user = table[t].user
        /\ \A f : Live(f)' \subseteq Live(f)
    BY <2>1, RevokedFamilies, RevokedUsers
  <2>3. \A f : Pending(f)' \subseteq Pending(f)
    BY <1>4, <2>2 DEF RevokeAllUserTokens, Answer, Pending, Busy, TypeOK, Waits
  <2> QED
    BY <2>2, <2>3, NoCreation
<1> QED
  BY <1>1, <1>2, <1>3, <1>4 DEF Start

LEMMA ContinueSimulates ==
  ASSUME RefInv, NEW r \in Requests, Continue(r) \/ Fail(r)
  PROVE  [Sessions!Next]_(Sessions!vars)
<1>0. TypeOK /\ now \in Nat
  BY DEF RefInv, TypeOK
<1>1. CASE RejectExpired(r) \/ FindNoLatest(r) \/ Fail(r)
  <2>1. Issued' = Issued /\ table' = table /\ \A f : Live(f)' = Live(f)
    BY <1>1 DEF RejectExpired, FindNoLatest, Fail, Issued, Live, Members
  <2>2. \A f : Pending(f)' \subseteq Pending(f)
    BY <1>0, <1>1 DEF RejectExpired, FindNoLatest, Fail, Answer, Await,
       Pending, Busy, TypeOK, Waits
  <2> QED
    BY <1>0, <2>1, <2>2, NoCreation
<1>2. ASSUME NEW t \in Tokens, FindLatest(r, t)
      PROVE  [Sessions!Next]_(Sessions!vars)
  <2>1. Issued' = Issued /\ table' = table /\ \A f : Live(f)' = Live(f)
    BY <1>2 DEF FindLatest, Issued, Live, Members
  <2>2. \A f : \A q \in Pending(f)' : q # r => q \in Pending(f)
    BY <1>0, <1>2 DEF FindLatest, Await, Pending, Busy, TypeOK, Waits
  <2>3. \A f : r \in Pending(f)' => t \in Live(f)
    BY <1>2 DEF FindLatest, LatestLive, Pending, Busy
  <2> QED
    BY <1>0, <2>1, <2>2, <2>3, NoCreation
<1>3. ASSUME NEW S \in SUBSET Issued, Revokes(S),
             \/ RevokePresented(r) \/ RevokeLatest(r)
             \/ DetectReuse(r) \/ LogoutRevoke(r)
      PROVE  [Sessions!Next]_(Sessions!vars)
  <2>1. /\ Issued' = Issued
        /\ \A t \in Issued : /\ table'[t].family = table[t].family
                            /\ table'[t].user = table[t].user
        /\ \A f : Live(f)' \subseteq Live(f)
    BY <1>0, <1>3, RevokedFamilies, RevokedUsers
  <2>2. \A q \in Requests : pc[q] \in Waits => stored[q] \in Issued
    BY <1>0 DEF TypeOK
  <2>3. \A f : Pending(f)' \subseteq Pending(f)
    BY <1>0, <1>3, <2>1, <2>2
    DEF RevokePresented, RevokeLatest, DetectReuse, LogoutRevoke, Answer, Await,
        Pending, Busy, TypeOK, Waits
  <2> QED
    BY <1>0, <2>1, <2>3, NoCreation
<1>4. CASE RevokePresented(r)
  BY <1>0, <1>3, <1>4 DEF RevokePresented, Revokes, TypeOK, Waits
<1>5. CASE RevokeLatest(r)
  BY <1>0, <1>3, <1>5 DEF RevokeLatest, TypeOK
<1>6. CASE DetectReuse(r)
  BY <1>3, <1>6 DEF DetectReuse, Revokes, Live, Members
<1>7. CASE LogoutRevoke(r)
  BY <1>3, <1>7 DEF LogoutRevoke, Live, Members
<1>8. ASSUME NEW t \in Tokens, CreateSuccessor(r, t)
      PROVE  [Sessions!Next]_(Sessions!vars)
  <2>1. stored[r] \in Issued
    BY <1>0, <1>8 DEF CreateSuccessor, TypeOK, Waits
  <2> QED
    BY <1>8, <2>1, Successor DEF CreateSuccessor
<1>9. ASSUME NEW t \in Tokens, CreateFromLatest(r, t)
      PROVE  [Sessions!Next]_(Sessions!vars)
  <2>1. latest[r] \in Issued
    BY <1>0, <1>9 DEF CreateFromLatest, TypeOK
  <2>2. table[stored[r]].family = table[latest[r]].family
    BY <1>9 DEF CreateFromLatest, RefInv, SameFamily
  <2> QED
    BY <1>9, <2>1, <2>2, Successor DEF CreateFromLatest
<1> QED
  BY <1>1, <1>2, <1>4, <1>5, <1>6, <1>7, <1>8, <1>9 DEF Continue

LEMMA StepSimulates ==
  RefInv /\ [Next]_vars => [Sessions!Next]_(Sessions!vars)
<1> SUFFICES ASSUME RefInv, [Next]_vars PROVE [Sessions!Next]_(Sessions!vars)
  OBVIOUS
<1>0. TypeOK
  BY DEF RefInv
<1>1. CASE Tick \/ Finished \/ UNCHANGED vars
  BY <1>1 DEF Tick, Finished, vars, Sessions!vars, Phase, Live, Members, Issued,
     Pending, Busy
<1> QED
  BY <1>0, <1>1, StartSimulates, ContinueSimulates DEF Next

LEMMA InitSimulates == Init => Sessions!Init
<1> SUFFICES ASSUME Init PROVE Sessions!Init
  OBVIOUS
<1>1. \A f : Members(f) = {}
  BY DEF Init, Members, Issued
<1> QED
  BY <1>1 DEF Sessions!Init, Phase

(* RefreshTokens implements SessionFamilies: however requests overlap,     *)
(* fail and replay tokens, a session belongs to the user who logged in and *)
(* is never served again once no live token and no pending creation is     *)
(* left of it.                                                             *)
THEOREM RefinesSessions == Spec => SessionsImplemented
<1>1. SerialInv => RefInv
  BY DEF SerialInv, RefInv
<1>2. Init => Sessions!Init
  BY InitSimulates
<1>3. RefInv /\ [Next]_vars => [Sessions!Next]_(Sessions!vars)
  BY StepSimulates
<1> QED
  BY <1>1, <1>2, <1>3, SerialInvariant, PTL
  DEF Spec, SessionsImplemented, Sessions!Spec

----------------------------------------------------------------------------
(* No revocation is dated later than now.                                  *)
Dated == \A t \in Issued : table[t].revokedAt # Null => table[t].revokedAt <= now

(* How a step writes a row that exists: not at all, or with the time of    *)
(* the step as its revocation.                                             *)
RowsUnmoved ==
  \A t \in Issued :
    table'[t] # table[t] => table'[t].revokedAt \in Clock /\ now' = now

LEMMA RowStep ==
  ASSUME TypeOK, Next
  PROVE  RowsUnmoved
<1>1. ASSUME NEW S \in SUBSET Issued, Revokes(S), now' = now
      PROVE  RowsUnmoved
  BY <1>1, RevokedDates DEF RowsUnmoved
<1>2. ASSUME NEW t \in Tokens, NEW u \in Users, NEW f \in Families, CreateToken(t, u, f)
      PROVE  RowsUnmoved
  BY <1>2, CreatedFamilies DEF RowsUnmoved
<1> QED
  BY <1>1, <1>2, TableSteps DEF RowsUnmoved

LEMMA DatedStep == TypeOK /\ TypeOK' /\ Dated /\ [Next]_vars => Dated'
<1> SUFFICES ASSUME TypeOK, TypeOK', Dated, Next PROVE Dated'
  BY DEF Dated, vars, Issued
<1> SUFFICES ASSUME NEW t \in Issued', table'[t].revokedAt # Null
             PROVE  table'[t].revokedAt <= now'
  BY DEF Dated
<1>1. now \in Nat /\ now' \in Nat /\ now <= now'
  BY ClockStep DEF TypeOK
<1>2. CASE t \in Issued
  <2>1. CASE table'[t] = table[t]
    BY <1>1, <1>2, <2>1, IssuedRow DEF Dated, Row
  <2>2. CASE table'[t].revokedAt \in Clock /\ now' = now
    BY <1>1, <2>2, ClockDates
  <2> QED
    BY <1>2, <2>1, <2>2, RowStep DEF RowsUnmoved
<1>3. CASE t \notin Issued
  <2>1. ASSUME NEW x \in Tokens, NEW u \in Users, NEW f \in Families,
               CreateToken(x, u, f)
        PROVE  FALSE
    <3>1. t = x
      BY <1>3, <2>1, CreatedRows
    <3> QED
      BY <2>1, <3>1 DEF CreateToken, TypeOK
  <2>2. ASSUME NEW S \in SUBSET Issued, Revokes(S) PROVE FALSE
    BY <1>3, <2>2, RevokedFamilies DEF TypeOK
  <2> QED
    BY <1>3, <2>1, <2>2, TableSteps DEF Issued
<1> QED
  BY <1>2, <1>3

(* Where no two requests overlap on a family and no revokeAllUserTokens    *)
(* was answered, the token that a request is about to revoke is live.      *)
Undisturbed(f) ==
  contended[f] = {} /\ \A q \in Requests : answer[q] # "revokedAll"

HoldsLive ==
  \A r \in Requests : Undisturbed(table[stored[r]].family) =>
    /\ pc[r] = "lookedUp" /\ seen[r] = Null => table[stored[r]].revokedAt = Null
    /\ pc[r] = "revokeLatest" => table[latest[r]].revokedAt = Null

(* The rows that an update of one request r may touch: live ones, or the   *)
(* one it holds, or those of a user.                                       *)
LEMMA WhoRevokes ==
  ASSUME TypeOK, Next, NEW t \in Issued, table'[t] # table[t]
  PROVE  \E r \in Requests :
           \/ /\ answer'[r] = "revokedAll"
           \/ /\ pc[r] \in Waits /\ pc'[r] \notin {"lookedUp", "revokeLatest"}
              /\ \/ pc[r] = "lookedUp" /\ seen[r] = Null /\ t = stored[r]
                 \/ pc[r] = "revokeLatest" /\ t = latest[r]
                 \/ t \in Live(table[stored[r]].family)
<1>1. ASSUME NEW r \in Requests, NEW u \in Users, RevokeAllUserTokens(r, u)
      PROVE  answer'[r] = "revokedAll"
  BY <1>1 DEF RevokeAllUserTokens, Answer, TypeOK
<1>2. ASSUME NEW r \in Requests, NEW S \in SUBSET Issued, Revokes(S) PROVE t \in S
  BY <1>2, RevokedDates
<1>3. ASSUME NEW r \in Requests, RevokePresented(r)
      PROVE  /\ pc[r] \in Waits /\ pc'[r] \notin {"lookedUp", "revokeLatest"}
             /\ pc[r] = "lookedUp" /\ seen[r] = Null /\ t = stored[r]
  <2>1. Revokes({stored[r]}) /\ {stored[r]} \in SUBSET Issued
    BY <1>3 DEF RevokePresented, Revokes, TypeOK, Waits
  <2> QED
    BY <1>2, <1>3, <2>1 DEF RevokePresented, Await, TypeOK, Waits
<1>4. ASSUME NEW r \in Requests, RevokeLatest(r)
      PROVE  /\ pc[r] \in Waits /\ pc'[r] \notin {"lookedUp", "revokeLatest"}
             /\ pc[r] = "revokeLatest" /\ t = latest[r]
  <2>1. Revokes({latest[r]}) /\ {latest[r]} \in SUBSET Issued
    BY <1>4 DEF RevokeLatest, TypeOK
  <2> QED
    BY <1>2, <1>4, <2>1 DEF RevokeLatest, Await, TypeOK, Waits
<1>5. ASSUME NEW r \in Requests, DetectReuse(r) \/ LogoutRevoke(r)
      PROVE  /\ pc[r] \in Waits /\ pc'[r] \notin {"lookedUp", "revokeLatest"}
             /\ t \in Live(table[stored[r]].family)
  <2> DEFINE S == Live(table[stored[r]].family)
  <2>1. Revokes(S) /\ S \in SUBSET Issued
    BY <1>5 DEF DetectReuse, LogoutRevoke, Revokes, Live, Members
  <2>2. t \in S
    BY <1>2, <1>5, <2>1
  <2> QED
    BY <1>5, <2>2 DEF DetectReuse, LogoutRevoke, Answer, TypeOK, Waits
<1>6. ASSUME NEW r \in Requests, NEW x \in Tokens,
             \/ CreateSuccessor(r, x) \/ CreateFromLatest(r, x)
             \/ \E u \in Users, f \in Families : Login(r, u, f, x)
      PROVE  FALSE
  BY <1>6 DEF CreateSuccessor, CreateFromLatest, Login, CreateToken, TypeOK, Issued
<1> QED
  BY <1>1, <1>3, <1>4, <1>5, <1>6, WritingCases

LEMMA HoldsLiveStep == SerialInv /\ SerialInv' /\ HoldsLive /\ [Next]_vars => HoldsLive'
<1> SUFFICES ASSUME SerialInv, SerialInv', HoldsLive, Next, NEW r \in Requests,
                    pc'[r] \in {"lookedUp", "revokeLatest"},
                    pc'[r] = "lookedUp" => seen'[r] = Null,
                    Undisturbed(table[stored[r]].family)'
             PROVE  /\ pc'[r] = "lookedUp" => table'[stored'[r]].revokedAt = Null
                    /\ pc'[r] = "revokeLatest" => table'[latest'[r]].revokedAt = Null
  BY DEF HoldsLive, Undisturbed, vars
<1>0. TypeOK /\ TypeOK' /\ Alone /\ SameFamily
  BY DEF SerialInv
<1>1. CASE pc'[r] # pc[r]
  <2>1. Start(r) \/ Continue(r)
    BY <1>0, <1>1, OneMoves DEF Fail, Answer, TypeOK
  <2>2. ASSUME Start(r) PROVE \E t \in Tokens : RotateLookup(r, t)
    BY <1>0, <2>2 DEF Start, Login, RotateUnknown, LogoutUnknown, LogoutLookup, Read,
       RevokeAllUserTokens, Answer, Await, TypeOK
  <2>3. ASSUME Continue(r) PROVE \E t \in Tokens : FindLatest(r, t)
    BY <1>0, <2>3 DEF Continue, RejectExpired, RevokePresented, CreateSuccessor,
       FindNoLatest, RevokeLatest, CreateFromLatest, DetectReuse, LogoutRevoke,
       Answer, Await, TypeOK
  <2>4. ASSUME NEW t \in Tokens, RotateLookup(r, t)
        PROVE  pc'[r] = "lookedUp" /\ table'[stored'[r]].revokedAt = seen'[r]
    BY <1>0, <2>4 DEF RotateLookup, Read, Await, TypeOK
  <2>5. ASSUME NEW t \in Tokens, FindLatest(r, t)
        PROVE  pc'[r] = "revokeLatest" /\ table'[latest'[r]].revokedAt = Null
    BY <1>0, <2>5 DEF FindLatest, LatestLive, Live, Await, TypeOK
  <2> QED
    BY <2>1, <2>2, <2>3, <2>4, <2>5
<1>2. CASE pc'[r] = pc[r]
  <2> DEFINE f == table[stored[r]].family
  <2>1. /\ pc[r] \in Waits /\ stored[r] \in Issued /\ latest[r] \in Issued \cup {Null}
        /\ pc[r] = "revokeLatest" => latest[r] \in Issued /\ table[latest[r]].family = f
    BY <1>0, <1>2 DEF TypeOK, Waits, SameFamily
  <2>2. /\ stored'[r] = stored[r] /\ seen'[r] = seen[r]
        /\ contended[f] \subseteq contended'[f]
        /\ f \in Families
    BY <1>0, <2>1, RequestsKept, IssuedRow DEF Waits, Row
  <2>3. latest'[r] = latest[r]
    BY <1>0, <1>2, <2>1, LatestKept
  <2>4. table'[stored[r]].family = f
    BY <1>0, <2>1, FamiliesKept
  <2>5. Undisturbed(f)
    <3>1. ASSUME NEW q \in Requests, answer[q] = "revokedAll" PROVE FALSE
      BY <1>0, <2>2, <2>4, <3>1, RequestsKept DEF Undisturbed, TypeOK
    <3> QED
      BY <2>2, <2>4, <3>1 DEF Undisturbed
  <2>6. /\ pc[r] = "lookedUp" => table[stored[r]].revokedAt = Null
        /\ pc[r] = "revokeLatest" => table[latest[r]].revokedAt = Null
    BY <1>2, <2>2, <2>5 DEF HoldsLive
  <2>7. ASSUME NEW t \in Issued, table[t].family = f, table'[t] # table[t] PROVE FALSE
    <3>1. PICK q \in Requests :
             \/ /\ answer'[q] = "revokedAll"
             \/ /\ pc[q] \in Waits /\ pc'[q] \notin {"lookedUp", "revokeLatest"}
                /\ \/ pc[q] = "lookedUp" /\ seen[q] = Null /\ t = stored[q]
                   \/ pc[q] = "revokeLatest" /\ t = latest[q]
                   \/ t \in Live(table[stored[q]].family)
      BY <1>0, <2>7, WhoRevokes
    <3>2. answer'[q] # "revokedAll"
      BY <2>2, <2>4 DEF Undisturbed
    <3>3. pc[q] \in Waits /\ table[stored[q]].family = f
      BY <1>0, <2>7, <3>1, <3>2 DEF SameFamily, Live, Members
    <3>4. q = r
      BY <1>0, <2>1, <2>2, <2>5, <3>3 DEF Alone, Busy, Undisturbed
    <3> QED
      BY <1>2, <3>1, <3>2, <3>4
  <2> QED
    BY <1>2, <2>1, <2>2, <2>3, <2>6, <2>7
<1> QED
  BY <1>1, <1>2

(* A revocation is never undone, and redated only where requests overlap   *)
(* or after revokeAllUserTokens, then back by no more than Lag.            *)
THEOREM RevocationFinal == Spec => RevocationIsFinal
<1> DEFINE Final ==
      \A t \in Issued : table[t].revokedAt # Null =>
        /\ table'[t].revokedAt # Null
        /\ table'[t].revokedAt # table[t].revokedAt =>
             /\ \/ contended[table[t].family] # {}
                \/ \E q \in Requests : answer[q] = "revokedAll"
             /\ table'[t].revokedAt >= table[t].revokedAt - Lag
<1>1. Init => Dated /\ HoldsLive
  BY DEF Init, Dated, Issued, HoldsLive
<1>2. SerialInv /\ SerialInv' /\ Dated /\ HoldsLive /\ [Next]_vars => Dated' /\ HoldsLive'
  BY DatedStep, HoldsLiveStep DEF SerialInv
<1>3. SerialInv /\ Dated /\ HoldsLive /\ [Next]_vars => [Final]_vars
  <2> SUFFICES ASSUME SerialInv, Dated, HoldsLive, Next, NEW t \in Issued,
                      table[t].revokedAt # Null, table'[t] # table[t]
               PROVE  /\ table'[t].revokedAt # Null
                      /\ \/ contended[table[t].family] # {}
                         \/ \E q \in Requests : answer[q] = "revokedAll"
                      /\ table'[t].revokedAt >= table[t].revokedAt - Lag
    OBVIOUS
  <2>0. TypeOK /\ SameFamily
    BY DEF SerialInv
  <2>1. /\ now \in Nat /\ table[t].revokedAt \in Nat /\ table[t].revokedAt <= now
        /\ Lag \in Nat
    BY <2>0, IssuedRow, BoundsAssumption DEF TypeOK, Dated, Row
  <2>2. table'[t].revokedAt \in Clock
    BY <2>0, RowStep DEF RowsUnmoved
  <2>3. ASSUME Undisturbed(table[t].family) PROVE FALSE
    <3>1. PICK q \in Requests :
             \/ /\ answer'[q] = "revokedAll"
             \/ /\ pc[q] \in Waits /\ pc'[q] \notin {"lookedUp", "revokeLatest"}
                /\ \/ pc[q] = "lookedUp" /\ seen[q] = Null /\ t = stored[q]
                   \/ pc[q] = "revokeLatest" /\ t = latest[q]
                   \/ t \in Live(table[stored[q]].family)
      BY <2>0, WhoRevokes
    <3>2. ASSUME answer'[q] = "revokedAll" PROVE FALSE
      <4>1. answer[q] # "revokedAll"
        BY <2>3 DEF Undisturbed
      <4>2. \E u \in Users : RevokeAllUserTokens(q, u)
        BY <2>0, <3>2, <4>1, OneMoves, RevokedAllStep
      <4>3. PICK u \in Users : RevokeAllUserTokens(q, u)
        BY <4>2
      <4> DEFINE S == {x \in Issued : table[x].user = u /\ table[x].revokedAt = Null}
      <4>4. Revokes(S) /\ S \in SUBSET Issued /\ t \notin S
        BY <4>3 DEF RevokeAllUserTokens
      <4> HIDE DEF S
      <4> QED
        BY <2>0, <4>4, RevokedDates
    <3>3. CASE pc[q] = "lookedUp" /\ seen[q] = Null /\ t = stored[q]
      BY <2>3, <3>3 DEF HoldsLive
    <3>4. CASE pc[q] = "revokeLatest" /\ t = latest[q]
      BY <2>0, <2>3, <3>4 DEF HoldsLive, SameFamily
    <3>5. CASE t \in Live(table[stored[q]].family)
      BY <3>5 DEF Live
    <3> QED
      BY <3>1, <3>2, <3>3, <3>4, <3>5
  <2>4. table'[t].revokedAt # Null /\ table'[t].revokedAt >= table[t].revokedAt - Lag
    BY <2>1, <2>2, ClockDates
  <2> QED
    BY <2>3, <2>4 DEF Undisturbed
<1> QED
  BY <1>1, <1>2, <1>3, SerialInvariant, PTL DEF Spec, RevocationIsFinal

----------------------------------------------------------------------------
(* What holds however requests overlap: when the grace period fails, who   *)
(* revives a family, and how a stale replay is answered.                   *)

(* Of naturals below a bound there is a greatest.                          *)
LEMMA Greatest ==
  ASSUME NEW n \in Nat, NEW S \in SUBSET Nat, S # {}, \A i \in S : i <= n
  PROVE  \E m \in S : \A i \in S : i <= m
<1> DEFINE Bounds == {i \in Nat : \A j \in S : j <= i}
           Less == {ss \in Nat \X Nat : ss[1] < ss[2]}
<1>1. Bounds \subseteq Nat /\ Bounds # {}
  OBVIOUS
<1>2. IsWellFoundedOn(Less, Nat)
  BY NatLessThanWellFounded DEF OpToRel
<1>3. PICK m \in Bounds : \A i \in Bounds : <<i, m>> \notin Less
  BY <1>1, <1>2, WFMin
<1>4. m \in S
  <2> SUFFICES ASSUME m \notin S PROVE FALSE
    OBVIOUS
  <2>1. PICK j \in S : TRUE
    OBVIOUS
  <2>2. m > 0
    BY <2>1
  <2>3. m - 1 \in Bounds
    BY <2>2
  <2>4. <<m - 1, m>> \in Less
    BY <2>2
  <2> QED
    BY <1>3, <2>3, <2>4
<1> QED
  BY <1>3, <1>4

(* No row is dated later than now.                                         *)
Aged == \A t \in Issued : table[t].createdAt <= now

LEMMA AgedStep == TypeOK /\ Aged /\ [Next]_vars => Aged'
<1> SUFFICES ASSUME TypeOK, Aged, Next PROVE Aged'
  BY DEF Aged, vars, Issued
<1>1. now \in Nat /\ now' \in Nat /\ now <= now'
  BY ClockStep DEF TypeOK
<1>2. \A t \in Issued : table[t].createdAt \in Nat
  BY IssuedRow DEF Row
<1>3. CASE table' = table
  BY <1>1, <1>2, <1>3 DEF Aged, Issued
<1>4. ASSUME NEW S \in SUBSET Issued, Revokes(S) PROVE Aged'
  <2>1. Issued' = Issued
    BY <1>1, <1>4, RevokedFamilies
  <2>2. \A t \in Issued : table'[t].createdAt = table[t].createdAt
    BY <1>4, RevokedDates
  <2> QED
    BY <1>1, <1>2, <2>1, <2>2 DEF Aged
<1>5. ASSUME now' = now, NEW t \in Tokens, NEW u \in Users, NEW f \in Families,
             CreateToken(t, u, f)
      PROVE  Aged'
  <2>1. Issued' = Issued \cup {t} /\ \A x \in Issued : table'[x] = table[x]
    BY <1>5, CreatedFamilies
  <2>2. table'[t].createdAt <= now
    BY <1>1, <1>5, ClockDates DEF CreateToken, TypeOK
  <2> QED
    BY <1>1, <1>5, <2>1, <2>2 DEF Aged
<1> QED
  BY <1>3, <1>4, <1>5, TableSteps

LEMMA AgedInvariant == Spec => []Aged
<1>1. Init => Aged
  BY DEF Init, Aged, Issued
<1> QED
  BY <1>1, AgedStep, TypeCorrect, PTL DEF Spec

(* findFirst finds a live token if there is one, however many there are.   *)
LEMMA NewestFound ==
  ASSUME TypeOK, Aged, NEW f, LatestLive(f) = {}
  PROVE  Live(f) = {}
<1> SUFFICES ASSUME Live(f) # {} PROVE FALSE
  OBVIOUS
<1> DEFINE S == {table[t].createdAt : t \in Live(f)}
<1>1. \A t \in Live(f) : t \in Issued /\ table[t].createdAt \in Nat
  BY IssuedRow DEF Live, Members, Row
<1>2. S \in SUBSET Nat /\ S # {} /\ (\A i \in S : i <= now) /\ now \in Nat
  BY <1>1 DEF Aged, TypeOK
<1> HIDE DEF S
<1>3. PICK m \in S : \A i \in S : i <= m
  BY <1>2, Greatest
<1>4. PICK t \in Live(f) : table[t].createdAt = m
  BY DEF S
<1>5. t \in LatestLive(f)
  BY <1>3, <1>4 DEF LatestLive, S
<1> QED
  BY <1>5

(* The exact window that the grace period leaves open: with any number of  *)
(* requests at a time, a refresh within it is refused for want of a live   *)
(* token only if another rotation has revoked one and not yet created the  *)
(* next, or the family may have been ended before.                         *)
THEOREM GraceFailsInWindowHolds == Spec => GraceFailsInWindow
<1> DEFINE Window ==
      \A r \in Requests : pc[r] = "lookedUp" /\ pc'[r] = "revokeFamily" =>
        LET f == table[stored[r]].family
        IN \/ Creating(f) # {}
           \/ \E q \in Requests : MayHaveEnded(q, f)
<1>1. GraceInv /\ Aged /\ [Next]_vars => [Window]_vars
  <2> SUFFICES ASSUME GraceInv, Aged, Next, NEW r \in Requests,
                      pc[r] = "lookedUp", pc'[r] = "revokeFamily"
               PROVE  \/ Creating(table[stored[r]].family) # {}
                      \/ \E q \in Requests : MayHaveEnded(q, table[stored[r]].family)
    OBVIOUS
  <2> DEFINE f == table[stored[r]].family
  <2>1. TypeOK /\ FindNoLatest(r)
    BY RejectionSteps DEF GraceInv, SerialInv
  <2>2. stored[r] \in Issued
    BY <2>1 DEF TypeOK, Waits
  <2>3. f \in Families /\ Members(f) # {}
    BY <2>1, <2>2, IssuedRow DEF Row, Members
  <2>4. Live(f) = {}
    BY <2>1, NewestFound DEF FindNoLatest
  <2> QED
    BY <2>3, <2>4 DEF GraceInv, Sustained, Ended
<1> QED
  BY <1>1, GraceInvariant, AgedInvariant, PTL DEF Spec, GraceFailsInWindow

(* A request comes to be about to create a token by reading a live one.    *)
LEMMA PendingSteps ==
  ASSUME TypeOK, TypeOK', Next, NEW f \in Families, Live(f) = {}
  PROVE  Pending(f)' \subseteq Pending(f)
<1> SUFFICES ASSUME NEW q \in Pending(f)' PROVE q \in Pending(f)
  OBVIOUS
<1>1. /\ q \in Requests /\ pc'[q] \in Waits /\ table'[stored'[q]].family = f
      /\ \/ pc'[q] = "lookedUp" /\ seen'[q] = Null
         \/ pc'[q] \in {"create", "revokeLatest", "createLatest"}
  BY DEF Pending, Busy
<1>2. pc[q] \in Waits => stored[q] \in Issued
  BY <1>1 DEF TypeOK
<1>3. ASSUME pc[q] \in Waits PROVE q \in Busy(f)
  <2>1. stored'[q] = stored[q]
    BY <1>1, <1>3, RequestsKept DEF Waits
  <2> QED
    BY <1>1, <1>2, <1>3, <2>1, FamiliesKept DEF Busy
<1>4. CASE pc'[q] = pc[q]
  <2>1. pc[q] \in Waits /\ seen'[q] = seen[q]
    BY <1>1, <1>4, RequestsKept DEF Waits
  <2> QED
    BY <1>1, <1>3, <1>4, <2>1 DEF Pending
<1>5. CASE pc'[q] # pc[q]
  <2>1. Start(q) \/ Continue(q) \/ Fail(q)
    BY <1>1, <1>5, OneMoves
  <2>2. ASSUME Start(q) PROVE FALSE
    <3>1. PICK t \in Tokens : RotateLookup(q, t)
      BY <1>1, <2>2 DEF Start, Login, RotateUnknown, LogoutUnknown, LogoutLookup,
         RevokeAllUserTokens, Answer, Await, TypeOK, Waits
    <3>2. /\ t \in Issued /\ table' = table /\ stored'[q] = t
          /\ seen'[q] = table[t].revokedAt /\ pc'[q] = "lookedUp"
      BY <3>1 DEF RotateLookup, Read, Await, TypeOK
    <3>3. t \in Live(f)
      BY <1>1, <3>2 DEF Live, Members
    <3> QED
      BY <3>3
  <2>3. CASE RevokePresented(q)
    BY <1>3, <2>3 DEF RevokePresented, Pending, Waits
  <2>4. ASSUME NEW t \in Tokens, FindLatest(q, t) PROVE FALSE
    <3>1. table[stored[q]].family = f
      BY <1>3, <2>4 DEF FindLatest, Busy, Waits
    <3> QED
      BY <2>4, <3>1 DEF FindLatest, LatestLive
  <2>5. CASE RevokeLatest(q)
    BY <1>3, <2>5 DEF RevokeLatest, Pending, Waits
  <2>6. ASSUME \/ RejectExpired(q) \/ FindNoLatest(q) \/ DetectReuse(q)
               \/ LogoutRevoke(q) \/ Fail(q)
               \/ \E t \in Tokens : CreateSuccessor(q, t) \/ CreateFromLatest(q, t)
        PROVE  FALSE
    BY <1>1, <2>6 DEF RejectExpired, FindNoLatest, DetectReuse, LogoutRevoke, Fail,
       CreateSuccessor, CreateFromLatest, Answer, Await, TypeOK, Waits
  <2> QED
    BY <2>1, <2>2, <2>3, <2>4, <2>5, <2>6 DEF Continue
<1> QED
  BY <1>4, <1>5

(* A token of a family that exists is created by a request that is about   *)
(* to do so there.                                                         *)
LEMMA LiveSteps ==
  ASSUME TypeOK, SameFamily, Next, NEW f \in Families, Members(f) # {}, Live(f) = {},
         Live(f)' # {}
  PROVE  \E r \in Pending(f) : answer'[r] = "served"
<1>0. now \in Nat
  BY DEF TypeOK
<1>1. ASSUME table' = table PROVE FALSE
  BY <1>1 DEF Live, Members, Issued
<1>2. ASSUME NEW S \in SUBSET Issued, Revokes(S) PROVE FALSE
  <2>1. Live(f)' = Live(f) \ S
    BY <1>0, <1>2, RevokedFamilies
  <2> QED
    BY <2>1
<1>3. ASSUME NEW t \in Tokens, NEW u \in Users, NEW g \in Families, CreateToken(t, u, g)
      PROVE  f = g
  <2>1. Live(f)' = IF f = g THEN Live(f) \cup {t} ELSE Live(f)
    BY <1>3, CreatedFamilies
  <2> QED
    BY <2>1
<1>4. ASSUME NEW r \in Requests, NEW t \in Tokens, CreateSuccessor(r, t)
      PROVE  r \in Pending(f) /\ answer'[r] = "served"
  <2>1. stored[r] \in Issued /\ table[stored[r]] \in Row
    BY <1>4, IssuedRow DEF CreateSuccessor, TypeOK, Waits
  <2>2. table[stored[r]].family = f
    BY <1>3, <1>4, <2>1 DEF CreateSuccessor, Row
  <2> QED
    BY <1>4, <2>2 DEF CreateSuccessor, Answer, TypeOK, Pending, Busy, Waits
<1>5. ASSUME NEW r \in Requests, NEW t \in Tokens, CreateFromLatest(r, t)
      PROVE  r \in Pending(f) /\ answer'[r] = "served"
  <2>1. latest[r] \in Issued /\ table[latest[r]] \in Row
    BY <1>5, IssuedRow DEF CreateFromLatest, TypeOK
  <2>2. table[latest[r]].family = f
    BY <1>3, <1>5, <2>1 DEF CreateFromLatest, Row
  <2>3. table[stored[r]].family = f
    BY <1>5, <2>2 DEF CreateFromLatest, SameFamily
  <2> QED
    BY <1>5, <2>3 DEF CreateFromLatest, Answer, TypeOK, Pending, Busy, Waits
<1>6. ASSUME NEW r \in Requests, NEW u \in Users, NEW g \in Families, NEW t \in Tokens,
             Login(r, u, g, t)
      PROVE  FALSE
  BY <1>3, <1>6 DEF Login
<1> QED
  BY <1>1, <1>2, <1>4, <1>5, <1>6, WritingSteps

(* An ended session can be revived only by who was under way: as long as   *)
(* no token of a family is live, nobody who was not already about to       *)
(* create one will.                                                        *)
THEOREM OnlyPendingRevivesHolds == Spec => OnlyPendingRevives
<1> DEFINE Revival ==
      \A f \in Families : Members(f) # {} /\ Live(f) = {} =>
        /\ Pending(f)' \subseteq Pending(f)
        /\ Live(f)' # {} => \E r \in Pending(f) : answer'[r] = "served"
<1>1. SerialInv /\ SerialInv' /\ [Next]_vars => [Revival]_vars
  BY PendingSteps, LiveSteps DEF SerialInv
<1> QED
  BY <1>1, SerialInvariant, PTL DEF Spec, OnlyPendingRevives

(* A refresh that read a token revoked longer than the grace period ago is *)
(* never served: it fails, or is rejected and leaves no token live.        *)
THEOREM StaleReplayIsReuseHolds == Spec => StaleReplayIsReuse
<1> DEFINE Rejection ==
      \A r \in Requests : StaleReplay(r) =>
        \/ StaleReplay(r)'
        \/ answer'[r] = "failed"
        \/ answer'[r] = "reuse" /\ Live(table[stored[r]].family)' = {}
<1>1. TypeOK /\ [Next]_vars => [Rejection]_vars
  <2> SUFFICES ASSUME TypeOK, Next, NEW r \in Requests, StaleReplay(r), ~StaleReplay(r)'
               PROVE  \/ answer'[r] = "failed"
                      \/ answer'[r] = "reuse" /\ Live(table[stored[r]].family)' = {}
    OBVIOUS
  <2> DEFINE f == table[stored[r]].family
  <2>1. /\ pc[r] = "lookedUp" /\ seen[r] \in Nat /\ now - Lag - seen[r] > Grace
        /\ stored[r] \in Issued /\ Grace \in Nat /\ Lag \in Nat
    BY BoundsAssumption DEF StaleReplay, TypeOK, Waits
  <2>2. stored'[r] = stored[r] /\ seen'[r] = seen[r] /\ table'[stored[r]].family = f
    BY <2>1, RequestsKept, FamiliesKept
  <2>3. now' \in Nat /\ now <= now' /\ now \in Nat
    BY ClockStep DEF TypeOK
  <2>4. pc'[r] # pc[r]
    BY <2>1, <2>2, <2>3 DEF StaleReplay
  <2>5. DetectReuse(r) \/ Fail(r)
    <3>1. Start(r) \/ Continue(r) \/ Fail(r)
      BY <2>4, OneMoves
    <3>2. (\A d \in Clock : ~WithinGrace(r, d)) /\ seen[r] # Null
      BY <2>1, <2>3, ClockDates, NullAssumption DEF WithinGrace
    <3> QED
      BY <2>1, <3>1, <3>2 DEF Start, Login, RotateUnknown, RotateLookup, LogoutUnknown,
         LogoutLookup, Read, RevokeAllUserTokens, Continue, RejectExpired,
         RevokePresented, CreateSuccessor, FindLatest, FindNoLatest, RevokeLatest,
         CreateFromLatest, LogoutRevoke
  <2>6. CASE Fail(r)
    BY <2>6 DEF Fail, Answer, TypeOK
  <2>7. CASE DetectReuse(r)
    <3>1. Revokes(Live(f)) /\ Live(f) \in SUBSET Issued /\ answer'[r] = "reuse"
      BY <2>7 DEF DetectReuse, Revokes, Answer, TypeOK, Live, Members
    <3>2. \A g : Live(g)' = Live(g) \ Live(f)
      BY <2>3, <3>1, RevokedFamilies
    <3>3. Live(table[stored[r]].family)' = {}
      BY <2>2, <3>2
    <3> QED
      BY <3>1, <3>3
  <2> QED
    BY <2>5, <2>6, <2>7
<1> QED
  BY <1>1, TypeCorrect, PTL DEF Spec, StaleReplayIsReuse

----------------------------------------------------------------------------
(* What SessionFamilies promises, the table and the requests keep.         *)
LEMMA OneOwnerStep ==
  Sessions!OneOwner /\ [Sessions!Next]_(Sessions!vars) => Sessions!OneOwner'
  BY DEF Sessions!OneOwner, Sessions!Next, Sessions!Open, Sessions!End, Sessions!vars, Owners

(* A session belongs to the one user who logged in, through every rotation *)
(* and every refresh within the grace period.                              *)
THEOREM OneOwnerHolds == Spec => []Sessions!OneOwner
<1>1. Sessions!Init => Sessions!OneOwner
  BY DEF Sessions!Init, Sessions!OneOwner
<1> QED
  BY <1>1, OneOwnerStep, RefinesSessions, PTL DEF SessionsImplemented, Sessions!Spec

(* A session that has ended never comes back: once no token of the family  *)
(* is live and no request is about to create one, it stays so.             *)
THEOREM EndedForeverHolds == Spec => Sessions!EndedForever
<1>1. [Sessions!Next]_(Sessions!vars) => [Sessions!EndedStays]_(Sessions!vars)
  BY DEF Sessions!Next, Sessions!Open, Sessions!End, Sessions!vars, Sessions!EndedStays
<1> QED
  BY <1>1, RefinesSessions, PTL
  DEF SessionsImplemented, Sessions!Spec, Sessions!EndedForever
----------------------------------------------------------------------------
(* How many tokens of a family are live when requests overlap.  The        *)
(* request that found nobody under way on the family may hold one of them; *)
(* beyond that one, each has been created by a request that did not.       *)
Held(r) ==
  IF pc[r] \in {"revokeLatest", "createLatest"} THEN latest[r] ELSE stored[r]

OneEarly ==
  \A f \in Families : \A q, r \in Busy(f) \ contended[f] : q = r

HeldSpent ==
  \A r \in Requests :
    pc[r] \in {"create", "createLatest"} => table[Held(r)].revokedAt # Null

Explained(f) ==
  /\ IsFiniteSet(Live(f)) /\ IsFiniteSet(Overlapping(f))
  /\ Cardinality(Live(f)) <= 1 + Cardinality(Overlapping(f))
  /\ \A r \in Pending(f) \ contended[f] :
       Cardinality(Live(f) \ {Held(r)}) <= Cardinality(Overlapping(f))

ExplainedInv ==
  RefInv /\ OneEarly /\ HeldSpent /\ \A f \in Families : Explained(f)

(* Fewer live tokens, explained by the same requests, are explained if a   *)
(* request that newly commits to a creation holds one of those there were. *)
LEMMA FewerExplained ==
  ASSUME NEW f \in Families, Explained(f),
         Live(f)' \subseteq Live(f),
         Overlapping(f)' = Overlapping(f),
         \A q \in Pending(f)' \ contended'[f] :
           \/ q \in Pending(f) \ contended[f] /\ Held(q)' = Held(q)
           \/ Held(q)' \in Live(f)
  PROVE  Explained(f)'
<1> DEFINE L == Live(f)
           M == Live(f)'
           O == Overlapping(f)
<1>1. /\ IsFiniteSet(L) /\ IsFiniteSet(O) /\ M \subseteq L
      /\ Cardinality(L) <= 1 + Cardinality(O)
  BY DEF Explained
<1>2. /\ IsFiniteSet(M) /\ Cardinality(M) <= Cardinality(L)
      /\ Cardinality(M) \in Nat /\ Cardinality(L) \in Nat /\ Cardinality(O) \in Nat
  <2>1. IsFiniteSet(M) /\ Cardinality(M) <= Cardinality(L)
    BY <1>1, FS_Subset
  <2> QED
    BY <1>1, <2>1, FS_CardinalityType
<1>3. ASSUME NEW q \in Pending(f)' \ contended'[f]
      PROVE  Cardinality(M \ {Held(q)'}) <= Cardinality(O)
  <2> DEFINE h == Held(q)'
             K == L \ {h}
             N == M \ {h}
  <2>1. /\ IsFiniteSet(K)
        /\ Cardinality(K) = IF h \in L THEN Cardinality(L) - 1 ELSE Cardinality(L)
    BY <1>1, FS_RemoveElement
  <2>2. N \subseteq K
    BY <1>1
  <2>3. IsFiniteSet(N) /\ Cardinality(N) <= Cardinality(K)
    BY <2>1, <2>2, FS_Subset
  <2>4. Cardinality(N) \in Nat /\ Cardinality(K) \in Nat
    BY <2>1, <2>3, FS_CardinalityType
  <2>5. Cardinality(K) <= Cardinality(O)
    <3>1. CASE h \in L
      <4> HIDE DEF h, K, L, O
      <4> QED
        BY <1>1, <1>2, <2>1, <3>1
    <3>2. CASE q \in Pending(f) \ contended[f] /\ h = Held(q)
      BY <3>2 DEF Explained
    <3> QED
      BY <3>1, <3>2
  <2> HIDE DEF K, N, O
  <2>6. Cardinality(N) <= Cardinality(O)
    BY <1>2, <2>3, <2>4, <2>5
  <2> QED
    BY <2>6 DEF N, O
<1>4. Overlapping(f)' = O
  OBVIOUS
<1>5. Cardinality(M) <= 1 + Cardinality(O)
  <2> HIDE DEF L, M, O
  <2> QED
    BY <1>1, <1>2
<1> HIDE DEF O, M
<1>6. Cardinality(Live(f)') <= 1 + Cardinality(Overlapping(f)')
  BY <1>4, <1>5 DEF M
<1>7. \A q \in Pending(f)' \ contended'[f] :
        Cardinality(Live(f)' \ {Held(q)'}) <= Cardinality(Overlapping(f)')
  BY <1>3, <1>4 DEF M
<1>8. IsFiniteSet(Live(f)') /\ IsFiniteSet(Overlapping(f)')
  BY <1>1, <1>2, <1>4 DEF M
<1> QED
  BY <1>6, <1>7, <1>8 DEF Explained

LEMMA OthersPending ==
  ASSUME TypeOK, NEW r \in Requests, OthersKept(r),
         \A t \in Issued : table'[t].family = table[t].family
  PROVE  \A f : \A q \in Requests \ {r} :
           /\ Held(q)' = Held(q)
           /\ q \in Busy(f)' <=> q \in Busy(f)
           /\ q \in Pending(f)' <=> q \in Pending(f)
<1>1. \A q \in Requests : pc[q] \in Waits => stored[q] \in Issued
  BY DEF TypeOK
<1>2. \A q \in Requests \ {r} : Held(q)' = Held(q)
  BY DEF Held, OthersKept
<1>3. \A f : \A q \in Requests \ {r} : q \in Busy(f)' <=> q \in Busy(f)
  BY <1>1 DEF Busy, OthersKept
<1> QED
  BY <1>2, <1>3 DEF Pending, OthersKept

(* A step of a request that creates no token.                              *)
LEMMA ExplainedUncreated ==
  ASSUME ExplainedInv, RefInv', NEW r \in Requests, OthersKept(r),
         \A f \in Families : /\ contended[f] \subseteq contended'[f]
                             /\ contended'[f] \subseteq contended[f] \cup {r},
         answer[r] # "served", answer'[r] # "served",
         Issued' = Issued,
         \A t \in Issued : /\ table'[t].family = table[t].family
                           /\ table[t].revokedAt # Null => table'[t].revokedAt # Null,
         \A f : Live(f)' \subseteq Live(f),
         pc'[r] \in {"create", "createLatest"} => table'[Held(r)'].revokedAt # Null,
         \A f \in Families : r \in Busy(f)' \ contended'[f] =>
           r \in Busy(f) \/ Busy(f) = {},
         \A f \in Families : r \in Pending(f)' \ contended'[f] =>
           \/ r \in Pending(f) /\ Held(r)' = Held(r)
           \/ Held(r)' \in Live(f)
  PROVE  ExplainedInv'
<1>1. TypeOK
  BY DEF ExplainedInv, RefInv
<1>2. \A f : \A q \in Requests \ {r} :
        /\ Held(q)' = Held(q)
        /\ q \in Busy(f)' <=> q \in Busy(f)
        /\ q \in Pending(f)' <=> q \in Pending(f)
  BY <1>1, OthersPending
<1>3. \A f : Busy(f) \subseteq Requests /\ Busy(f)' \subseteq Requests
  BY DEF Busy
<1>4. \A f : Pending(f)' \subseteq Busy(f)'
  BY DEF Pending
<1>5. OneEarly'
  <2> SUFFICES ASSUME NEW f \in Families, NEW p \in (Busy(f) \ contended[f])',
                      NEW q \in (Busy(f) \ contended[f])'
               PROVE  p = q
    BY DEF OneEarly
  <2>1. /\ p \in Requests /\ q \in Requests
        /\ p \notin contended[f] /\ q \notin contended[f]
    BY <1>3
  <2>2. CASE Busy(f) = {}
    BY <1>2, <2>1, <2>2
  <2>3. CASE Busy(f) # {}
    <3>1. p \in Busy(f) /\ q \in Busy(f)
      BY <1>2, <2>1, <2>3
    <3> QED
      BY <2>1, <3>1 DEF ExplainedInv, OneEarly
  <2> QED
    BY <2>2, <2>3
<1>6. HeldSpent'
  <2> SUFFICES ASSUME NEW q \in Requests \ {r}, pc'[q] \in {"create", "createLatest"}
               PROVE  table'[Held(q)'].revokedAt # Null
    BY DEF HeldSpent
  <2>1. pc[q] \in {"create", "createLatest"} /\ Held(q)' = Held(q)
    BY <1>2 DEF OthersKept
  <2>2. Held(q) \in Issued
    BY <1>1, <2>1 DEF TypeOK, Held, Waits
  <2> QED
    BY <2>1, <2>2 DEF ExplainedInv, HeldSpent
<1>7. ASSUME NEW f \in Families PROVE Explained(f)'
  <2>1. Overlapping(f)' = Overlapping(f)
    <3>1. contended[f] \subseteq Requests
      BY <1>1 DEF TypeOK
    <3> QED
      BY <3>1 DEF Overlapping, OthersKept
  <2>2. \A q \in Pending(f)' \ contended'[f] :
          \/ q \in Pending(f) \ contended[f] /\ Held(q)' = Held(q)
          \/ Held(q)' \in Live(f)
    BY <1>2, <1>3, <1>4
  <2>3. Explained(f)
    BY DEF ExplainedInv
  <2> QED
    BY <2>1, <2>2, <2>3, FewerExplained
<1> QED
  BY <1>5, <1>6, <1>7 DEF ExplainedInv

(* Such a step reads or revokes rows, and records an overlap only when it  *)
(* is the first of its request.                                            *)
LEMMA ExplainedRevoking ==
  ASSUME ExplainedInv, RefInv', NEW r \in Requests, OthersKept(r),
         contended' = contended,
         answer[r] # "served", answer'[r] # "served",
         table' = table \/ \E S \in SUBSET Issued : Revokes(S),
         pc'[r] \in {"create", "createLatest"} => table'[Held(r)'].revokedAt # Null,
         pc'[r] \in Waits => pc[r] \in Waits /\ stored'[r] = stored[r],
         \A f \in Families : r \in Pending(f)' =>
           \/ r \in Pending(f) /\ Held(r)' = Held(r)
           \/ Held(r)' \in Live(f)
  PROVE  ExplainedInv'
<1>1. TypeOK /\ now \in Nat /\ now # Null
  BY NullAssumption DEF ExplainedInv, RefInv, TypeOK
<1>2. /\ Issued' = Issued
      /\ \A t \in Issued : /\ table'[t].family = table[t].family
                           /\ table[t].revokedAt # Null => table'[t].revokedAt # Null
      /\ \A f : Live(f)' \subseteq Live(f)
  <2>1. CASE table' = table
    BY <2>1 DEF Issued, Live, Members
  <2>2. ASSUME NEW S \in SUBSET Issued, Revokes(S)
        PROVE  /\ Issued' = Issued
               /\ \A t \in Issued : /\ table'[t].family = table[t].family
                                    /\ table[t].revokedAt # Null => table'[t].revokedAt # Null
               /\ \A f : Live(f)' \subseteq Live(f)
    <3>1. \A t \in Issued : table[t].revokedAt # Null => table'[t].revokedAt # Null
      BY <1>1, <2>2, RevokedDates, ClockDates
    <3> QED
      BY <1>1, <2>2, <3>1, RevokedFamilies
  <2> QED
    BY <2>1, <2>2
<1>3. \A f : r \in Busy(f)' => r \in Busy(f)
  <2>1. pc[r] \in Waits => stored[r] \in Issued
    BY <1>1 DEF TypeOK
  <2> QED
    BY <1>2, <2>1 DEF Busy
<1> QED
  BY <1>2, <1>3, ExplainedUncreated

(* A request that ends without a token, or before it has read a row.       *)
LEMMA ExplainedEnding ==
  ASSUME ExplainedInv, RefInv', NEW r \in Requests, OthersKept(r),
         contended' = contended, pc[r] # "done",
         NEW a \in Answers \ {"none", "served"}, Answer(r, a),
         table' = table \/ \E S \in SUBSET Issued : Revokes(S)
  PROVE  ExplainedInv'
<1>1. pc'[r] = "done" /\ answer'[r] = a /\ answer[r] = "none"
  BY DEF ExplainedInv, RefInv, TypeOK, Answer, Answers
<1>2. \A f : r \notin Pending(f)'
  BY <1>1 DEF Pending, Busy, Waits
<1> QED
  BY <1>1, <1>2, ExplainedRevoking DEF Waits

(* The first statement of a refresh or a logout: a request that finds      *)
(* nobody on the family may hold a token of it, the others are counted.    *)
LEMMA ExplainedReading ==
  ASSUME ExplainedInv, RefInv', NEW r \in Requests, OthersKept(r),
         NEW t \in Tokens, NEW w \in {"lookedUp", "logout"},
         Read(r, t), Await(r, w)
  PROVE  ExplainedInv'
<1> DEFINE g == table[t].family
<1>1. TypeOK
  BY DEF ExplainedInv, RefInv
<1>2. t \in Issued /\ g \in Families
  BY <1>1, IssuedRow DEF Read, Row
<1>3. /\ pc'[r] = w /\ stored'[r] = t /\ seen'[r] = table[t].revokedAt
      /\ answer[r] = "none" /\ answer'[r] = "none" /\ table' = table
  BY <1>1 DEF Read, Await, TypeOK, Answers
<1>4. \A f \in Families : contended'[f] =
        IF f = g THEN contended[f] \cup (IF Busy(g) = {} THEN {} ELSE {r})
                 ELSE contended[f]
  BY <1>1, <1>2 DEF Read, TypeOK
<1>5. \A f : r \in Busy(f)' => f = g
  BY <1>3 DEF Busy
<1>6. \A f : r \in Pending(f)' => f = g /\ Held(r)' \in Live(f)
  BY <1>2, <1>3, <1>5 DEF Pending, Held, Live, Members
<1> HIDE DEF g
<1>7. \A f \in Families : r \in Busy(f)' \ contended'[f] => Busy(f) = {}
  BY <1>4, <1>5
<1>8. /\ Issued' = Issued
      /\ \A x \in Issued : /\ table'[x].family = table[x].family
                           /\ table[x].revokedAt # Null => table'[x].revokedAt # Null
      /\ \A f : Live(f)' \subseteq Live(f)
  BY <1>3 DEF Issued, Live, Members
<1>9. \A f \in Families : /\ contended[f] \subseteq contended'[f]
                          /\ contended'[f] \subseteq contended[f] \cup {r}
  BY <1>4
<1> QED
  BY <1>3, <1>6, <1>7, <1>8, <1>9, ExplainedUncreated

(* The first statement of a rotation, and the last one in the grace period *)
(* before its createToken: the request has revoked the token it held.      *)
LEMMA ExplainedHolding ==
  ASSUME ExplainedInv, RefInv', NEW r \in Requests, OthersKept(r),
         RevokePresented(r) \/ RevokeLatest(r)
  PROVE  ExplainedInv'
<1>1. TypeOK /\ now \in Nat /\ now # Null
  BY NullAssumption DEF ExplainedInv, RefInv, TypeOK
<1>2. /\ pc[r] \in {"lookedUp", "revokeLatest"}
      /\ pc[r] = "lookedUp" => seen[r] = Null
      /\ pc'[r] = IF pc[r] = "lookedUp" THEN "create" ELSE "createLatest"
      /\ Revokes({Held(r)})
      /\ UNCHANGED <<stored, seen, latest, answer, contended>>
  BY <1>1 DEF RevokePresented, Revokes, RevokeLatest, Await, Held, TypeOK
<1>3. Held(r) \in Issued /\ stored[r] \in Issued /\ answer[r] = "none"
  BY <1>1, <1>2 DEF Held, TypeOK, Waits, Answers
<1>4. Held(r)' = Held(r)
  BY <1>2 DEF Held
<1>5. table'[Held(r)].revokedAt # Null
  BY <1>1, <1>2, <1>3, RevokedDates, ClockDates
<1>6. \A x \in Issued : table'[x].family = table[x].family
  BY <1>1, <1>2, <1>3, RevokedFamilies
<1>7. \A f : r \in Pending(f)' => r \in Pending(f)
  BY <1>2, <1>3, <1>6 DEF Pending, Busy, Waits
<1> QED
  BY <1>2, <1>3, <1>4, <1>5, <1>7, ExplainedRevoking DEF Waits

LEMMA ExplainedFinding ==
  ASSUME ExplainedInv, RefInv', NEW r \in Requests, OthersKept(r),
         FindNoLatest(r) \/ \E t \in Tokens : FindLatest(r, t)
  PROVE  ExplainedInv'
<1>1. TypeOK
  BY DEF ExplainedInv, RefInv
<1>2. /\ UNCHANGED <<table, stored, answer, contended>>
      /\ pc[r] = "lookedUp" /\ answer[r] = "none" /\ stored[r] \in Issued
  BY <1>1 DEF FindNoLatest, FindLatest, Await, TypeOK, Waits, Answers
<1>3. CASE FindNoLatest(r)
  <2>1. pc'[r] = "revokeFamily"
    BY <1>1, <1>3 DEF FindNoLatest, Await, TypeOK
  <2>2. \A f : r \notin Pending(f)'
    BY <2>1 DEF Pending
  <2> QED
    BY <1>2, <2>1, <2>2, ExplainedRevoking DEF Waits
<1>4. ASSUME NEW t \in Tokens, FindLatest(r, t) PROVE ExplainedInv'
  <2>1. pc'[r] = "revokeLatest" /\ latest'[r] = t
        /\ t \in Live(table[stored[r]].family)
    BY <1>1, <1>4 DEF FindLatest, LatestLive, Await, TypeOK
  <2>2. \A f : r \in Pending(f)' => Held(r)' \in Live(f)
    BY <1>2, <2>1 DEF Pending, Busy, Held
  <2> QED
    BY <1>2, <2>1, <2>2, ExplainedRevoking DEF Waits
<1> QED
  BY <1>3, <1>4

(* createToken at the end of a rotation.  A request that is counted        *)
(* explains the token it adds; of one that is not, the token that it held  *)
(* is revoked, and nobody else who is not counted is on the family.        *)
LEMMA ExplainedCreating ==
  ASSUME ExplainedInv, RefInv', NEW r \in Requests, OthersKept(r),
         NEW t \in Tokens, CreateSuccessor(r, t) \/ CreateFromLatest(r, t)
  PROVE  ExplainedInv'
<1> DEFINE g == table[stored[r]].family
<1>1. TypeOK
  BY DEF ExplainedInv, RefInv
<1>2. /\ pc[r] \in {"create", "createLatest"} /\ answer[r] = "none"
      /\ pc'[r] = "done" /\ answer'[r] = "served"
      /\ UNCHANGED <<stored, seen, latest, contended>>
      /\ stored[r] \in Issued /\ g \in Families
  <2>1. /\ pc[r] \in {"create", "createLatest"} /\ answer[r] = "none"
        /\ pc'[r] = "done" /\ answer'[r] = "served"
        /\ UNCHANGED <<stored, seen, latest, contended>>
    BY <1>1 DEF CreateSuccessor, CreateFromLatest, Answer, TypeOK, Answers
  <2>2. stored[r] \in Issued
    BY <1>1, <2>1 DEF TypeOK, Waits
  <2> QED
    BY <1>1, <2>1, <2>2, IssuedRow DEF Row
<1>3. \E u \in Users : CreateToken(t, u, g)
  <2>1. CASE CreateSuccessor(r, t)
    BY <1>1, <1>2, <2>1, IssuedRow DEF CreateSuccessor, Row
  <2>2. CASE CreateFromLatest(r, t)
    <3>1. latest[r] \in Issued /\ table[latest[r]].family = g
      BY <1>1, <2>2 DEF CreateFromLatest, TypeOK, ExplainedInv, RefInv, SameFamily
    <3> QED
      BY <1>1, <2>2, <3>1, IssuedRow DEF CreateFromLatest, Row
  <2> QED
    BY <2>1, <2>2
<1> HIDE DEF g
<1>4. /\ t \notin Issued /\ Issued' = Issued \cup {t}
      /\ \A x \in Issued : table'[x] = table[x]
      /\ \A f : Live(f)' = IF f = g THEN Live(f) \cup {t} ELSE Live(f)
  BY <1>1, <1>2, <1>3, CreatedFamilies
<1>5. \A f : \A q \in Requests \ {r} :
        /\ Held(q)' = Held(q)
        /\ q \in Busy(f)' <=> q \in Busy(f)
        /\ q \in Pending(f)' <=> q \in Pending(f)
  BY <1>1, <1>4, OthersPending
<1>6. /\ \A f : Busy(f) \subseteq Requests /\ Busy(f)' \subseteq Requests \ {r}
      /\ \A f : Pending(f) \subseteq Busy(f) /\ Pending(f)' \subseteq Busy(f)'
  BY <1>2 DEF Pending, Busy, Waits
<1>7. OneEarly'
  <2> SUFFICES ASSUME NEW f \in Families, NEW p \in (Busy(f) \ contended[f])',
                      NEW q \in (Busy(f) \ contended[f])'
               PROVE  p = q
    BY DEF OneEarly
  <2>1. /\ p \in Busy(f) \ contended[f]
        /\ q \in Busy(f) \ contended[f]
    BY <1>2, <1>5, <1>6
  <2> QED
    BY <2>1 DEF ExplainedInv, OneEarly
<1>8. \A q \in Requests : pc[q] \in {"create", "createLatest"} => Held(q) \in Issued
  BY <1>1 DEF TypeOK, Held, Waits
<1>9. HeldSpent'
  <2> SUFFICES ASSUME NEW q \in Requests, pc'[q] \in {"create", "createLatest"}
               PROVE  table'[Held(q)'].revokedAt # Null
    BY DEF HeldSpent
  <2>1. q # r /\ pc[q] \in {"create", "createLatest"} /\ Held(q)' = Held(q)
    BY <1>2, <1>5 DEF OthersKept
  <2> QED
    BY <1>4, <1>8, <2>1 DEF ExplainedInv, HeldSpent
<1>10. /\ Held(r) \notin Live(g) /\ r \in Pending(g)
       /\ \A f \in Families : r \notin Overlapping(f)
  BY <1>2 DEF ExplainedInv, HeldSpent, Live, Pending, Busy, Overlapping, Waits, g
<1>11. ASSUME NEW f \in Families PROVE Explained(f)'
  <2> DEFINE L == Live(f)
             O == Overlapping(f)
             N == Overlapping(f)'
  <2>1. Explained(f)
    BY DEF ExplainedInv
  <2>2. /\ IsFiniteSet(L) /\ IsFiniteSet(O)
        /\ Cardinality(L) \in Nat /\ Cardinality(O) \in Nat
        /\ Cardinality(L) <= 1 + Cardinality(O)
    BY <2>1, FS_CardinalityType DEF Explained
  <2>3. N = IF r \in contended[f] THEN O \cup {r} ELSE O
    <3>1. contended[f] \subseteq Requests
      BY <1>1 DEF TypeOK
    <3> QED
      BY <1>2, <3>1 DEF Overlapping, OthersKept
  <2>4. /\ IsFiniteSet(N)
        /\ Cardinality(N) = IF r \in contended[f] THEN Cardinality(O) + 1
                                                  ELSE Cardinality(O)
    BY <1>10, <2>2, <2>3, FS_AddElement
  <2>5. ASSUME NEW q \in Pending(f)' \ contended'[f]
        PROVE  /\ q \in Pending(f) \ contended[f] /\ Held(q)' = Held(q) /\ q # r
               /\ Cardinality(L \ {Held(q)}) <= Cardinality(O)
    <3>1. q \in Pending(f) \ contended[f] /\ Held(q)' = Held(q) /\ q # r
      BY <1>2, <1>5, <1>6
    <3> QED
      BY <2>1, <3>1 DEF Explained
  <2>6. CASE f # g
    <3>1. Live(f)' = L
      BY <1>4, <2>6
    <3>2. Cardinality(O) <= Cardinality(N) /\ Cardinality(N) \in Nat
      BY <2>2, <2>4
    <3>3. ASSUME NEW q \in Pending(f)' \ contended'[f]
          PROVE  Cardinality(L \ {Held(q)'}) <= Cardinality(N)
      <4>1. /\ Cardinality(L \ {Held(q)}) <= Cardinality(O)
            /\ Held(q)' = Held(q)
        BY <2>5
      <4>2. Cardinality(L \ {Held(q)}) \in Nat
        BY <2>2, FS_RemoveElement, FS_CardinalityType
      <4> HIDE DEF L, N, O
      <4>3. Cardinality(L \ {Held(q)}) <= Cardinality(N)
        BY <2>2, <3>2, <4>1, <4>2
      <4> QED
        BY <4>1, <4>3
    <3>4. Cardinality(L) <= 1 + Cardinality(N)
      <4> HIDE DEF L, N, O
      <4> QED
        BY <2>2, <3>2
    <3> QED
      BY <2>2, <2>4, <3>1, <3>3, <3>4 DEF Explained
  <2>7. CASE f = g
    <3> DEFINE M == L \cup {t}
    <3>1. Live(f)' = M /\ t \notin L
      BY <1>4, <2>7 DEF Live, Members
    <3>2. IsFiniteSet(M) /\ Cardinality(M) = Cardinality(L) + 1
      BY <2>2, <3>1, FS_AddElement
    <3>3. CASE r \in contended[f]
      <4>1. ASSUME NEW q \in Pending(f)' \ contended'[f]
            PROVE  Cardinality(M \ {Held(q)'}) <= Cardinality(N)
        <5> DEFINE K == L \ {Held(q)}
        <5>1. /\ Held(q)' = Held(q) /\ Cardinality(K) <= Cardinality(O)
              /\ IsFiniteSet(K)
          BY <2>2, <2>5, FS_RemoveElement
        <5>2. M \ {Held(q)'} \subseteq K \cup {t}
          BY <5>1
        <5>3. /\ IsFiniteSet(K \cup {t})
              /\ Cardinality(K \cup {t}) <= Cardinality(K) + 1
          <6>1. IsFiniteSet(K) /\ Cardinality(K) \in Nat
            BY <5>1, FS_CardinalityType
          <6> HIDE DEF K
          <6>2. /\ IsFiniteSet(K \cup {t})
                /\ Cardinality(K \cup {t}) =
                     IF t \in K THEN Cardinality(K) ELSE Cardinality(K) + 1
            BY <6>1, FS_AddElement
          <6> QED
            BY <6>1, <6>2
        <5>4. /\ IsFiniteSet(M \ {Held(q)'})
              /\ Cardinality(M \ {Held(q)'}) <= Cardinality(K \cup {t})
          BY <5>2, <5>3, FS_Subset
        <5>5. /\ Cardinality(K) \in Nat /\ Cardinality(K \cup {t}) \in Nat
              /\ Cardinality(M \ {Held(q)'}) \in Nat
          BY <5>1, <5>3, <5>4, FS_CardinalityType
        <5> HIDE DEF K, L, M, N, O
        <5> QED
          BY <2>2, <2>4, <3>3, <5>1, <5>3, <5>4, <5>5
      <4>2. Cardinality(M) <= 1 + Cardinality(N)
        <5> HIDE DEF L, M, N, O
        <5> QED
          BY <2>2, <2>4, <3>2, <3>3
      <4> QED
        BY <2>4, <3>1, <3>2, <4>1, <4>2 DEF Explained
    <3>4. CASE r \notin contended[f]
      <4>1. L \ {Held(r)} = L
        BY <1>10, <2>7
      <4>2. Cardinality(L) <= Cardinality(O)
        BY <1>10, <2>1, <2>7, <3>4, <4>1 DEF Explained
      <4>3. \A q : q \notin Pending(f)' \ contended'[f]
        <5> SUFFICES ASSUME NEW q \in Pending(f)' \ contended'[f] PROVE FALSE
          OBVIOUS
        <5>1. /\ q \in Busy(f) \ contended[f] /\ q # r
              /\ r \in Busy(f) \ contended[f]
          BY <1>6, <1>10, <2>5, <2>7, <3>4
        <5> QED
          BY <5>1 DEF ExplainedInv, OneEarly
      <4>4. Cardinality(M) <= 1 + Cardinality(N)
        <5> HIDE DEF L, M, N, O
        <5> QED
          BY <2>2, <2>4, <3>2, <3>4, <4>2
      <4> QED
        BY <2>4, <3>1, <3>2, <4>3, <4>4 DEF Explained
    <3> QED
      BY <3>3, <3>4
  <2> QED
    BY <2>6, <2>7
<1> QED
  BY <1>7, <1>9, <1>11 DEF ExplainedInv

(* A login opens a family that had no token, and nobody was on it.         *)
LEMMA ExplainedLogin ==
  ASSUME ExplainedInv, RefInv', NEW r \in Requests, OthersKept(r),
         NEW u \in Users, NEW g \in Families, NEW t \in Tokens, Login(r, u, g, t)
  PROVE  ExplainedInv'
<1>1. TypeOK
  BY DEF ExplainedInv, RefInv
<1>2. /\ pc[r] = "idle" /\ answer[r] = "none" /\ Members(g) = {}
      /\ pc'[r] = "done" /\ answer'[r] = "loggedIn" /\ contended' = contended
      /\ CreateToken(t, u, g)
  BY <1>1 DEF Login, Answer, TypeOK, Answers
<1>3. /\ t \notin Issued /\ Issued' = Issued \cup {t}
      /\ \A x \in Issued : table'[x] = table[x]
      /\ \A f : Live(f)' = IF f = g THEN Live(f) \cup {t} ELSE Live(f)
  BY <1>1, <1>2, CreatedFamilies
<1>4. \A f : \A q \in Requests \ {r} :
        /\ Held(q)' = Held(q)
        /\ q \in Busy(f)' <=> q \in Busy(f)
        /\ q \in Pending(f)' <=> q \in Pending(f)
  BY <1>1, <1>3, OthersPending
<1>5. /\ \A f : Busy(f) \subseteq Requests /\ Busy(f)' \subseteq Requests \ {r}
      /\ \A f : Pending(f) \subseteq Busy(f) /\ Pending(f)' \subseteq Busy(f)'
  BY <1>2 DEF Pending, Busy, Waits
<1>6. OneEarly'
  BY <1>2, <1>4, <1>5 DEF ExplainedInv, OneEarly
<1>7. \A q \in Requests : pc[q] \in {"create", "createLatest"} => Held(q) \in Issued
  BY <1>1 DEF TypeOK, Held, Waits
<1>8. HeldSpent'
  <2> SUFFICES ASSUME NEW q \in Requests, pc'[q] \in {"create", "createLatest"}
               PROVE  table'[Held(q)'].revokedAt # Null
    BY DEF HeldSpent
  <2>1. q # r /\ pc[q] \in {"create", "createLatest"} /\ Held(q)' = Held(q)
    BY <1>2, <1>4 DEF OthersKept
  <2> QED
    BY <1>3, <1>7, <2>1 DEF ExplainedInv, HeldSpent
<1>9. ASSUME NEW f \in Families PROVE Explained(f)'
  <2>1. Overlapping(f)' = Overlapping(f)
    <3>1. contended[f] \subseteq Requests
      BY <1>1 DEF TypeOK
    <3> QED
      BY <1>2, <3>1 DEF Overlapping, OthersKept
  <2>2. Explained(f)
    BY DEF ExplainedInv
  <2>3. CASE f # g
    <3>1. Live(f)' \subseteq Live(f)
      BY <1>3, <2>3
    <3>2. \A q \in Pending(f)' \ contended'[f] :
            q \in Pending(f) \ contended[f] /\ Held(q)' = Held(q)
      BY <1>2, <1>4, <1>5
    <3> QED
      BY <2>1, <2>2, <3>1, <3>2, FewerExplained
  <2>4. CASE f = g
    <3>1. Live(f)' = {t}
      BY <1>2, <1>3, <2>4 DEF Live
    <3>2. Busy(f) = {}
      BY <1>1, <1>2, <2>4 DEF Busy, Members, TypeOK
    <3>3. Pending(f)' = {}
      BY <1>4, <1>5, <3>2
    <3>4. Cardinality(Overlapping(f)) \in Nat /\ IsFiniteSet(Overlapping(f))
      BY <2>2, FS_CardinalityType DEF Explained
    <3>5. IsFiniteSet({t}) /\ Cardinality({t}) = 1
      BY FS_Singleton
    <3>6. Cardinality(Live(f)') <= 1 + Cardinality(Overlapping(f)')
      BY <2>1, <3>1, <3>4, <3>5
    <3> QED
      BY <2>1, <3>1, <3>3, <3>4, <3>5, <3>6 DEF Explained
  <2> QED
    BY <2>3, <2>4
<1> QED
  BY <1>6, <1>8, <1>9 DEF ExplainedInv

LEMMA ExplainedStep == ExplainedInv /\ RefInv' /\ [Next]_vars => ExplainedInv'
<1> SUFFICES ASSUME ExplainedInv, RefInv', [Next]_vars PROVE ExplainedInv'
  OBVIOUS
<1>1. TypeOK
  BY DEF ExplainedInv, RefInv
<1>2. ASSUME NEW r \in Requests, Start(r) PROVE ExplainedInv'
  <2>1. OthersKept(r)
    BY <1>1, <1>2, OthersKeptStep
  <2>2. ASSUME NEW u \in Users, NEW f \in Families, NEW t \in Tokens, Login(r, u, f, t)
        PROVE  ExplainedInv'
    BY <2>1, <2>2, ExplainedLogin
  <2>3. ASSUME NEW t \in Tokens, RotateLookup(r, t) \/ LogoutLookup(r, t)
        PROVE  ExplainedInv'
    BY <2>1, <2>3, ExplainedReading DEF RotateLookup, LogoutLookup
  <2>4. CASE RotateUnknown(r) \/ LogoutUnknown(r)
    BY <2>1, <2>4, ExplainedEnding DEF RotateUnknown, LogoutUnknown, Answers
  <2>5. ASSUME NEW u \in Users, RevokeAllUserTokens(r, u) PROVE ExplainedInv'
    <3> DEFINE S == {t \in Issued : table[t].user = u /\ table[t].revokedAt = Null}
    <3>1. S \in SUBSET Issued /\ Revokes(S) /\ contended' = contended
          /\ pc[r] = "idle" /\ Answer(r, "revokedAll")
      BY <2>5 DEF RevokeAllUserTokens
    <3> HIDE DEF S
    <3> QED
      BY <2>1, <3>1, ExplainedEnding DEF Answers
  <2> QED
    BY <1>2, <2>2, <2>3, <2>4, <2>5 DEF Start
<1>3. ASSUME NEW r \in Requests, Continue(r) \/ Fail(r) PROVE ExplainedInv'
  <2>1. OthersKept(r)
    BY <1>1, <1>3, OthersKeptStep
  <2>2. CASE RejectExpired(r) \/ Fail(r)
    BY <2>1, <2>2, ExplainedEnding DEF RejectExpired, Fail, Answers, Waits
  <2>3. CASE RevokePresented(r) \/ RevokeLatest(r)
    BY <2>1, <2>3, ExplainedHolding
  <2>4. ASSUME NEW t \in Tokens, CreateSuccessor(r, t) \/ CreateFromLatest(r, t)
        PROVE  ExplainedInv'
    BY <2>1, <2>4, ExplainedCreating
  <2>5. CASE FindNoLatest(r) \/ \E t \in Tokens : FindLatest(r, t)
    BY <2>1, <2>5, ExplainedFinding
  <2>6. CASE DetectReuse(r) \/ LogoutRevoke(r)
    <3>1. Live(table[stored[r]].family) \in SUBSET Issued
      BY DEF Live, Members
    <3>2. CASE DetectReuse(r)
      BY <2>1, <3>1, <3>2, ExplainedEnding DEF DetectReuse, Revokes, Answers
    <3>3. CASE LogoutRevoke(r)
      BY <2>1, <3>1, <3>3, ExplainedEnding DEF LogoutRevoke, Answers
    <3> QED
      BY <2>6, <3>2, <3>3
  <2> QED
    BY <1>3, <2>2, <2>3, <2>4, <2>5, <2>6 DEF Continue
<1>4. CASE Tick \/ Finished \/ UNCHANGED vars
  <2>1. UNCHANGED <<table, pc, stored, seen, latest, answer, contended>>
    BY <1>4 DEF Tick, Finished, vars
  <2> QED
    BY <2>1 DEF ExplainedInv, OneEarly, HeldSpent, Explained, Held, Busy, Pending,
       Live, Members, Issued, Overlapping
<1> QED
  BY <1>2, <1>3, <1>4 DEF Next

(* However requests overlap and fail, the live tokens of a family but one  *)
(* are no more than the refreshes served that began while another request  *)
(* of the family was under way: nothing else multiplies a session.         *)
THEOREM LiveTokensExplainedHolds == Spec => []LiveTokensExplained
<1>1. Init => ExplainedInv
  <2> SUFFICES ASSUME Init PROVE ExplainedInv
    OBVIOUS
  <2>1. RefInv
    BY TypeInit DEF Init, RefInv, SameFamily
  <2>2. \A r \in Requests : pc[r] = "idle"
    BY DEF Init
  <2>3. \A f : Busy(f) = {} /\ Pending(f) = {}
    BY <2>2 DEF Busy, Pending, Waits
  <2>4. \A f \in Families : Live(f) = {} /\ Overlapping(f) = {}
    BY DEF Init, Live, Members, Issued, Overlapping
  <2>5. \A f \in Families : Explained(f)
    BY <2>3, <2>4, FS_EmptySet DEF Explained
  <2> QED
    BY <2>1, <2>2, <2>3, <2>5 DEF ExplainedInv, OneEarly, HeldSpent
<1>2. SerialInv => RefInv
  BY DEF SerialInv, RefInv
<1>3. ExplainedInv => LiveTokensExplained
  BY DEF ExplainedInv, Explained, LiveTokensExplained
<1> QED
  BY <1>1, <1>2, <1>3, ExplainedStep, SerialInvariant, PTL DEF Spec
=============================================================================
