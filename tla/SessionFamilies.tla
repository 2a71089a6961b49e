--------------------------- MODULE SessionFamilies ---------------------------
(***************************************************************************)
(* What a refresh-token family promises, without tokens, clocks or         *)
(* requests: a login opens a session for one user, the session may end,    *)
(* and a session that has ended is never served again.                     *)
(*                                                                         *)
(* RefreshTokens implements this specification: see RefreshTokens!Sessions *)
(* for the refinement mapping.                                             *)
(***************************************************************************)
CONSTANTS Families, Users

VARIABLES
  phase,  \* phase[f]: what has become of family f
  owners  \* owners[f]: the users the tokens of family f have been issued to

vars == <<phase, owners>>

Init ==
  /\ phase = [f \in Families |-> "unborn"]
  /\ owners = [f \in Families |-> {}]

(* A login opens a family for one user.  The owner never changes after.    *)
Open(f, u) ==
  /\ phase[f] = "unborn"
  /\ phase' = [phase EXCEPT ![f] = "active"]
  /\ owners' = [owners EXCEPT ![f] = {u}]

(* One statement of the database may end several families at once: all the *)
(* sessions of a user.                                                     *)
End(E) ==
  /\ E # {}
  /\ \A f \in E : phase[f] = "active"
  /\ phase' = [f \in Families |-> IF f \in E THEN "ended" ELSE phase[f]]
  /\ UNCHANGED owners

Next ==
  \/ \E f \in Families, u \in Users : Open(f, u)
  \/ \E E \in SUBSET Families : End(E)

Spec == Init /\ [][Next]_vars

(* A session belongs to the one user who opened it.                        *)
OneOwner ==
  \A f \in Families :
    IF phase[f] = "unborn" THEN owners[f] = {} ELSE \E u \in Users : owners[f] = {u}

(* A session that has ended stays so, whatever tokens are presented.       *)
EndedStays == \A f \in Families : phase[f] = "ended" => phase'[f] = "ended"

EndedForever == [][EndedStays]_vars
=============================================================================
