------------------------- MODULE MCTransactionRetry -------------------------
(***************************************************************************)
(* TransactionRetry on small sets: settings that are unset, no number,     *)
(* below the minimum, at it and above it, in every combination.            *)
(***************************************************************************)
EXTENDS TransactionRetry, TLC

RawValues ==
  {[kind |-> k, value |-> 0] : k \in {"unset", "nan"}}
  \cup {[kind |-> "number", value |-> n] : n \in -1..1}

RetrySymmetry == Permutations(Runs)
=============================================================================
