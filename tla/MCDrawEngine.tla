----------------------------- MODULE MCDrawEngine -----------------------------
(* DrawEngine on small instances. *)
EXTENDS DrawEngine, TLC

EngineSymmetry == Permutations(Engines)
=============================================================================
