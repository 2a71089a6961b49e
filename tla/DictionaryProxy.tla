--------------------------- MODULE DictionaryProxy ---------------------------
(***************************************************************************)
(* DictionaryProxyService: the service logs in at another one when it      *)
(* starts, keeps the token for the life of the process, and reads rows     *)
(* there with it.  No read logs in again, and none asks whether the login  *)
(* succeeded: without a token the request is made all the same.            *)
(*                                                                         *)
(* The other service is external: it may answer, refuse, be out of reach,  *)
(* or answer with what is not JSON, whatever it answered before.           *)
(***************************************************************************)
EXTENDS Naturals

CONSTANTS
  Reads,      \* calls of getRows and getRow
  MaxStarts   \* bound: starts of the process

VARIABLES
  configured,  \* REVISIUM_API_URL is set
  boot,        \* "down", "starting" while onModuleInit runs, or "up"
  login,       \* "none", "pending", "failed", or "ok"
  read,        \* read[r]: "idle", "fetch", "rows", "empty" or "error"
  starts

proxyVars == <<configured, boot, login, read, starts>>

Outcomes == {"ok", "refused", "unreachable", "malformed"}

ProxyInit ==
  /\ configured = FALSE
  /\ boot = "down"
  /\ login = "none"
  /\ read = [r \in Reads |-> "idle"]
  /\ starts = 0

Starts ==
  /\ boot = "down"
  /\ starts < MaxStarts
  /\ starts' = starts + 1

(* Mutant: the login is not awaited.                                       *)
ModuleInitUnawaited ==
  /\ Starts
  /\ configured' \in BOOLEAN
  /\ boot' = "up"
  /\ login' = IF configured' THEN "pending" ELSE "none"
  /\ UNCHANGED read

(* onModuleInit: without an address there is nothing to log in to; with    *)
(* one the application listens when the login is through.                  *)
ModuleInit ==
  /\ Starts
  /\ configured' \in BOOLEAN
  /\ boot' = IF configured' THEN "starting" ELSE "up"
  /\ login' = IF configured' THEN "pending" ELSE "none"
  /\ UNCHANGED read

(* authenticate: whatever the reply is, the start goes on.                 *)
Authenticate(o) ==
  /\ login = "pending"
  /\ login' = IF o = "ok" THEN "ok" ELSE "failed"
  /\ boot' = "up"
  /\ UNCHANGED <<configured, read, starts>>

(* getRows, getRow: without an address nothing is asked; with one the      *)
(* request is sent, with whatever token there is.                          *)
Read(r) ==
  /\ boot = "up"
  /\ read[r] = "idle"
  /\ read' = [read EXCEPT ![r] = IF configured THEN "fetch" ELSE "empty"]
  /\ UNCHANGED <<configured, boot, login, starts>>

(* A refusal or an error is an empty result; response.json() is returned   *)
(* and not awaited, so that its error is the caller's.  An open service    *)
(* sends rows even when the login has failed.                              *)
Reply(r, o) ==
  /\ read[r] = "fetch"
  /\ read' = [read EXCEPT ![r] = CASE o = "ok" -> "rows"
                                   [] o = "malformed" -> "error"
                                   [] OTHER -> "empty"]
  /\ UNCHANGED <<configured, boot, login, starts>>

Stop ==
  /\ boot # "down"
  /\ boot' = "down"
  /\ login' = "none"
  /\ read' = [r \in Reads |-> "idle"]
  /\ UNCHANGED <<configured, starts>>

ProxyFinished == boot = "down" /\ starts = MaxStarts /\ UNCHANGED proxyVars

ProxyNext ==
  \/ ModuleInit \/ Stop \/ ProxyFinished
  \/ \E o \in Outcomes : Authenticate(o)
  \/ \E r \in Reads : Read(r) \/ \E o \in Outcomes : Reply(r, o)

ProxySpec == ProxyInit /\ [][ProxyNext]_proxyVars

(* The start of the application waits for the login: whatever the process  *)
(* is stopped and started, no read has been made, and none is under way or *)
(* answered, before the login of this start has ended one way or another,  *)
(* and an application without an address never asks the other service.     *)
ReadsFollowLogin ==
  \A r \in Reads :
    /\ read[r] \in {"fetch", "rows", "error"} => login \in {"ok", "failed"}
    /\ login = "pending" => read[r] = "idle"
    /\ ~configured => read[r] \in {"idle", "empty"}
=============================================================================
