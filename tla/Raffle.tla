-------------------------------- MODULE Raffle --------------------------------
(***************************************************************************)
(* What the platform promises to the players of a draw, without clocks,    *)
(* statuses, loops or locks: the seed is committed once and before any     *)
(* ticket is sold; tickets of the ordered channels are sold only until the *)
(* draw takes place; the draw takes place once, over a pool that misses no *)
(* ordered ticket that was not withdrawn, and reveals the committed seed.  *)
(***************************************************************************)
EXTENDS FiniteSets

CONSTANTS
    Draws, Seeds,
    Ordered,   \* tickets whose sale is ordered before or after the draw
    Other,     \* tickets sold without that order
    Bonus,     \* entries that were never sold
    NoSeed, NoResult

VARIABLES
    committed,  \* the seed committed for a draw
    sold,       \* the tickets sold for a draw, withdrawn ones included
    withdrawn,  \* tickets being refunded, or refunded
    drawn       \* the result of a draw

vars == <<committed, sold, withdrawn, drawn>>

Init ==
    /\ committed = [d \in Draws |-> NoSeed]
    /\ sold = [d \in Draws |-> {}]
    /\ withdrawn = {}
    /\ drawn = [d \in Draws |-> NoResult]

Commit(d, s) ==
    /\ committed[d] = NoSeed
    /\ committed' = [committed EXCEPT ![d] = s]
    /\ UNCHANGED <<sold, withdrawn, drawn>>

Sell(t, d) ==
    /\ committed[d] # NoSeed
    /\ \A x \in Draws : t \notin sold[x]
    /\ t \in Ordered => drawn[d] = NoResult
    /\ sold' = [sold EXCEPT ![d] = @ \cup {t}]
    /\ UNCHANGED <<committed, withdrawn, drawn>>

Withdraw(t) ==
    /\ \E d \in Draws : t \in sold[d]
    /\ \A d \in Draws : drawn[d] # NoResult => drawn[d].winner # t
    /\ withdrawn' = withdrawn \cup {t}
    /\ UNCHANGED <<committed, sold, drawn>>

\* A winner whose withdrawal was under way is reinstated.
Draw(d, pool, w) ==
    /\ drawn[d] = NoResult /\ committed[d] # NoSeed
    /\ w \in pool
    /\ pool \subseteq sold[d] \cup Bonus
    /\ (sold[d] \cap Ordered) \ withdrawn \subseteq pool
    /\ drawn' = [drawn EXCEPT ![d] = [winner |-> w, pool |-> pool, seed |-> committed[d]]]
    /\ withdrawn' = withdrawn \ {w}
    /\ UNCHANGED <<committed, sold>>

Next == \E d \in Draws :
    \/ \E s \in Seeds : Commit(d, s)
    \/ \E t \in Ordered \cup Other : Sell(t, d) \/ Withdraw(t)
    \/ \E pool \in SUBSET (Ordered \cup Other \cup Bonus) : \E w \in pool : Draw(d, pool, w)

Spec == Init /\ [][Next]_vars
=============================================================================
