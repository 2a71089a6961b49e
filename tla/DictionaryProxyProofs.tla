------------------------ MODULE DictionaryProxyProofs ------------------------
(***************************************************************************)
(* A theorem about DictionaryProxy, for any number of reads, starts and    *)
(* stops of the process, and whatever the other service answers.           *)
(***************************************************************************)
EXTENDS DictionaryProxy, TLAPS

(* Only with an address is there a login, and it is pending exactly while  *)
(* the application starts.                                                 *)
StartUp ==
  /\ login \in {"none", "pending", "failed", "ok"}
  /\ boot \in {"down", "starting", "up"}
  /\ login = "pending" <=> boot = "starting"
  /\ boot # "down" => (login = "none" <=> ~configured)

(* Reads run only while the application listens, and ask the other service *)
(* only when the login has ended.                                          *)
Reading(r) ==
  /\ read[r] \in {"idle", "fetch", "rows", "empty", "error"}
  /\ boot # "up" => read[r] = "idle"
  /\ read[r] \in {"fetch", "rows", "error"} => login \in {"ok", "failed"}

ProxyInv ==
  /\ StartUp
  /\ read \in [Reads -> {"idle", "fetch", "rows", "empty", "error"}]
  /\ \A r \in Reads : Reading(r)

LEMMA InvInit == ProxyInit => ProxyInv
  BY DEF ProxyInit, ProxyInv, StartUp, Reading

(* A step of the process leaves reads alone, or ends them all.             *)
LEMMA ProcessStep ==
  ASSUME ProxyInv,
         \/ ModuleInit \/ Stop
         \/ \E o \in Outcomes : Authenticate(o)
  PROVE  ProxyInv'
<1>1. CASE ModuleInit
  BY <1>1 DEF ModuleInit, Starts, ProxyInv, StartUp, Reading
<1>2. CASE Stop
  BY <1>2 DEF Stop, ProxyInv, StartUp, Reading
<1>3. ASSUME NEW o \in Outcomes, Authenticate(o) PROVE ProxyInv'
  <2>1. boot = "starting" /\ boot' = "up" /\ login' \in {"ok", "failed"}
    BY <1>3 DEF Authenticate, ProxyInv, StartUp
  <2>2. configured' = configured /\ read' = read
    BY <1>3 DEF Authenticate
  <2> QED
    BY <2>1, <2>2 DEF ProxyInv, StartUp, Reading
<1> QED
  BY <1>1, <1>2, <1>3

(* A step of a read: there is one only while the application listens.      *)
LEMMA ReadStep ==
  ASSUME ProxyInv, NEW r \in Reads,
         Read(r) \/ \E o \in Outcomes : Reply(r, o)
  PROVE  ProxyInv'
<1>1. UNCHANGED <<configured, boot, login>>
  BY DEF Read, Reply
<1>2. \E x \in {"fetch", "rows", "empty", "error"} :
        /\ read' = [read EXCEPT ![r] = x]
        /\ x # "empty" => login \in {"ok", "failed"}
        /\ boot = "up"
  <2>1. CASE Read(r)
    BY <2>1 DEF Read, ProxyInv, StartUp
  <2>2. ASSUME NEW o \in Outcomes, Reply(r, o)
        PROVE  \E x \in {"rows", "empty", "error"} :
                 /\ read' = [read EXCEPT ![r] = x]
                 /\ login \in {"ok", "failed"}
                 /\ boot = "up"
    BY <2>2 DEF Reply, Outcomes, ProxyInv, StartUp, Reading
  <2> QED
    BY <2>1, <2>2
<1> QED
  BY <1>1, <1>2 DEF ProxyInv, StartUp, Reading

LEMMA InvStep == ProxyInv /\ [ProxyNext]_proxyVars => ProxyInv'
<1> SUFFICES ASSUME ProxyInv, [ProxyNext]_proxyVars PROVE ProxyInv'
  OBVIOUS
<1>1. CASE UNCHANGED proxyVars
  BY <1>1 DEF proxyVars, ProxyInv, StartUp, Reading
<1> QED
  BY <1>1, ProcessStep, ReadStep DEF ProxyNext, ProxyFinished

(* Whatever the other service answers, and however often the process is    *)
(* stopped and started: no read asks before the login of that start has    *)
(* ended, and none asks when there is no address.                          *)
THEOREM ReadsFollowLoginHolds == ProxySpec => []ReadsFollowLogin
<1>1. ProxyInv => ReadsFollowLogin
  BY DEF ProxyInv, StartUp, Reading, ReadsFollowLogin
<1> QED
  BY <1>1, InvInit, InvStep, PTL DEF ProxySpec
=============================================================================
