----------------------------- MODULE MCTaskCache -----------------------------
(***************************************************************************)
(* TaskCache on small sets.                                                *)
(***************************************************************************)
EXTENDS TaskCache, TLC
=============================================================================
