---------------------------- MODULE MCOAuthTokens ----------------------------
(***************************************************************************)
(* OAuthTokens on small sets.                                              *)
(***************************************************************************)
EXTENDS OAuthTokens, TLC

Symmetry == Permutations(Requests) \cup Permutations(Clients)
            \cup Permutations(Verifiers) \cup Permutations(Codes)
            \cup Permutations(ATokens) \cup Permutations(RTokens)
=============================================================================
