------------------------------ MODULE MCJackpot ------------------------------
(* Jackpot on a small instance. Checkouts, and agents' sales, are interchangeable. *)
EXTENDS Jackpot, TLC

Interchangeable == Permutations(Attempts) \cup Permutations(Sales \ Online)
=============================================================================
