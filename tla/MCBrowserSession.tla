-------------------------- MODULE MCBrowserSession --------------------------
(***************************************************************************)
(* BrowserSession on small sets.                                           *)
(***************************************************************************)
EXTENDS BrowserSession, TLC

Symmetry == Permutations(Requests) \cup Permutations(Tokens)
            \cup Permutations(Families) \cup Permutations(Users)
=============================================================================
