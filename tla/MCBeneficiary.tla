---------------------------- MODULE MCBeneficiary ----------------------------
(* Beneficiary on small instances. Claims and banks are interchangeable.        *)
EXTENDS Beneficiary, TLC

Interchangeable == Permutations(Claims) \cup Permutations(Banks)
=============================================================================
