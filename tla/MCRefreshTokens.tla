--------------------------- MODULE MCRefreshTokens ---------------------------
(***************************************************************************)
(* RefreshTokens on small sets.  Requests, tokens, families and users are  *)
(* interchangeable: no definition distinguishes one from another.          *)
(***************************************************************************)
EXTENDS RefreshTokens, TLC

Symmetry == Permutations(Requests) \cup Permutations(Tokens)
            \cup Permutations(Families) \cup Permutations(Users)
=============================================================================
