--------------------------------- MODULE Prize ---------------------------------
(***************************************************************************)
(* What the platform promises to the winner of a prize and to its own      *)
(* books, without deadlines, identity checks, requests or answers: a       *)
(* transfer is ordered only when all earlier ones have failed or come      *)
(* back and no agent has paid, and the ledger follows what has happened to *)
(* the money. An agent pays only what nobody has tried to pay, and only    *)
(* such a prize is forfeited, for good, as long as nothing is written over *)
(* the claim's status; afterwards these last two are not promised.         *)
(***************************************************************************)
EXTENDS Naturals

CONSTANTS
    Transfers,  \* transfers that may be ordered: numbers, from 1
    Agents      \* agents who may pay

VARIABLES
    claim,      \* OPEN, or FORFEITED
    overwritten,   \* the claim's status was written over
    ordered,    \* number of transfers ordered
    transfer,   \* what the bank has done with each
    paidBy,     \* agents who have paid
    posted, reversed   \* transfers in the ledger, and those taken back there

vars == <<claim, overwritten, ordered, transfer, paidBy, posted, reversed>>

Init ==
    /\ claim = "OPEN" /\ overwritten = FALSE /\ ordered = 0 /\ paidBy = {}
    /\ transfer = [n \in Transfers |-> "NONE"]
    /\ posted = {} /\ reversed = {}

\* Nobody has tried to pay, or it can no longer be told.
Unpaid == overwritten \/ (ordered = 0 /\ paidBy = {})

Forfeit ==
    /\ Unpaid
    /\ claim' = "FORFEITED"
    /\ UNCHANGED <<overwritten, ordered, transfer, paidBy, posted, reversed>>

\* What the status of the claim says is lost, a forfeiture with it.
Overwrite ==
    /\ claim' = "OPEN" /\ overwritten' = TRUE
    /\ UNCHANGED <<ordered, transfer, paidBy, posted, reversed>>

Pay(a) ==
    /\ claim = "OPEN" /\ Unpaid
    /\ paidBy' = paidBy \cup {a}
    /\ UNCHANGED <<claim, overwritten, ordered, transfer, posted, reversed>>

Order ==
    /\ claim = "OPEN" /\ paidBy = {} /\ ordered + 1 \in Transfers
    /\ \A n \in 1 .. ordered : transfer[n] \in {"FAILED", "RETURNED"}
    /\ ordered' = ordered + 1
    /\ UNCHANGED <<claim, overwritten, transfer, paidBy, posted, reversed>>

\* What the bank may do with an order: take it up or not, pay it, take it back.
Fate == [NONE |-> {"PENDING", "FAILED"}, PENDING |-> {"PAID", "FAILED"}, PAID |-> {"RETURNED"},
         FAILED |-> {}, RETURNED |-> {}]

Move(n, s) ==
    /\ n <= ordered
    /\ transfer' = [transfer EXCEPT ![n] = s]
    /\ UNCHANGED <<claim, overwritten, ordered, paidBy, posted, reversed>>

\* The ledger learns of a payment late, perhaps when it has come back already. A claim
\* whose payment is booked is open: it was before, unless its status was written over.
Post(n) ==
    /\ transfer[n] \in {"PAID", "RETURNED"}
    /\ n \notin posted /\ posted \subseteq reversed
    /\ claim' = "OPEN" /\ posted' = posted \cup {n}
    /\ UNCHANGED <<overwritten, ordered, transfer, paidBy, reversed>>

Reverse(n) ==
    /\ transfer[n] = "RETURNED" /\ n \in posted \ reversed
    /\ claim' = "OPEN" /\ reversed' = reversed \cup {n}
    /\ UNCHANGED <<overwritten, ordered, transfer, paidBy, posted>>

Next ==
    \/ Forfeit \/ Overwrite \/ Order
    \/ \E a \in Agents : Pay(a)
    \/ \E n \in Transfers : Post(n) \/ Reverse(n) \/ \E s \in Fate[transfer[n]] : Move(n, s)

Spec == Init /\ [][Next]_vars
=============================================================================
