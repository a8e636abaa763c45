------------------------------ MODULE MCTreasury ------------------------------
(* Treasury on a small instance: two fundings through the same provider or through *)
(* two; the page of the first can be used twice.                                   *)
EXTENDS Treasury, TLC

CONSTANTS one, two, one1, one2, two1

FundingOf == (one1 :> one) @@ (one2 :> one) @@ (two1 :> two)

\* Settlement and reconciliation read nothing of each other: a behaviour has one of them.
Apart == started = 0 \/ \A b \in Batches : batch[b].status = "NONE"

Interchangeable == Permutations(Callers) \cup Permutations({one1, one2}) \cup Permutations(Syncs)
=============================================================================
