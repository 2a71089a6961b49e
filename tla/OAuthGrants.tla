----------------------------- MODULE OAuthGrants -----------------------------
(***************************************************************************)
(* What the OAuth server promises, without requests, clocks, verifiers or  *)
(* statements: a code stands for what a user consented to, it is redeemed  *)
(* or burnt once, tokens are minted from redeemed codes only and for just  *)
(* that consent, and a revoked token is never valid again.                 *)
(*                                                                         *)
(* OAuthTokens implements this specification: see OAuthTokens!Grants for   *)
(* the refinement mapping.                                                 *)
(***************************************************************************)
CONSTANTS Codes, Tokens, Consents, Null

VARIABLES
  consent,  \* consent[k]: what code k was issued for, or Null
  fate,     \* fate[k]: "open", "redeemed" or "burnt"
  holds,    \* holds[t]: what token t was minted for, or Null
  revoked   \* the tokens that were revoked

vars == <<consent, fate, holds, revoked>>

Init ==
  /\ consent = [k \in Codes |-> Null]
  /\ fate = [k \in Codes |-> "open"]
  /\ holds = [t \in Tokens |-> Null]
  /\ revoked = {}

Issue(k, g) ==
  /\ consent[k] = Null
  /\ consent' = [consent EXCEPT ![k] = g]
  /\ UNCHANGED <<fate, holds, revoked>>

(* The holder of the verifier redeems a code; anybody else who presents    *)
(* it burns it.                                                            *)
Spend(k, f) ==
  /\ consent[k] # Null
  /\ fate[k] = "open"
  /\ fate' = [fate EXCEPT ![k] = f]
  /\ UNCHANGED <<consent, holds, revoked>>

Mint(t, k) ==
  /\ fate[k] = "redeemed"
  /\ holds[t] = Null
  /\ holds' = [holds EXCEPT ![t] = consent[k]]
  /\ UNCHANGED <<consent, fate, revoked>>

(* One statement may revoke many tokens, all of one client and user.       *)
Revoke(T) ==
  /\ \A t \in T : holds[t] # Null
  /\ \A s, t \in T : /\ holds[s].client = holds[t].client
                     /\ holds[s].user = holds[t].user
  /\ revoked' = revoked \cup T
  /\ UNCHANGED <<consent, fate, holds>>

Next ==
  \/ \E k \in Codes : \/ \E g \in Consents : Issue(k, g)
                      \/ \E f \in {"redeemed", "burnt"} : Spend(k, f)
                      \/ \E t \in Tokens : Mint(t, k)
  \/ \E T \in SUBSET Tokens : Revoke(T)

Spec == Init /\ [][Next]_vars

----------------------------------------------------------------------------
(* Behind every token there is a code that was redeemed for just what the  *)
(* token stands for, and nothing that was not minted is revoked.           *)
MintedFromCodes ==
  /\ \A t \in Tokens : holds[t] # Null =>
       \E k \in Codes : fate[k] = "redeemed" /\ consent[k] = holds[t]
  /\ \A k \in Codes : fate[k] # "open" => consent[k] # Null
  /\ \A t \in revoked : holds[t] # Null

(* A code that was spent stays spent, the same way; what a code or a token *)
(* stands for does not change; and a revoked token stays revoked.          *)
NothingReturned ==
  /\ \A k \in Codes : /\ fate[k] # "open" => fate'[k] = fate[k]
                      /\ consent[k] # Null => consent'[k] = consent[k]
  /\ \A t \in Tokens : holds[t] # Null => holds'[t] = holds[t]
  /\ revoked \subseteq revoked'

NothingReturns == [][NothingReturned]_vars
=============================================================================
