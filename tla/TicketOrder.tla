------------------------------ MODULE TicketOrder ------------------------------
(***************************************************************************)
(* What a paid ticket and its draw promise each other: the payment puts a  *)
(* ticket into an open draw only, and takes it out of one that is open or  *)
(* cancelled; a result is published once, over every ticket that is in.    *)
(* DrawEngine keeps this contract for each ticket it sells through the     *)
(* gateway, Purchase keeps it for its one payment.                         *)
(***************************************************************************)
VARIABLES
    order,    \* OPEN, BOUGHT, REFUSED, HELD for review, RETURNING, RETURNED, KEPT
    ticket,   \* NONE, IN the draw, OUT of it, WON
    draw,     \* OPEN, RUNNING, DRAWN, CANCELLED
    result    \* of the draw: NONE, or published WITH the ticket or WITHOUT it

vars == <<order, ticket, draw, result>>

Init == order = "OPEN" /\ ticket = "NONE" /\ draw = "OPEN" /\ result = "NONE"

Decide(o) == order = "OPEN" /\ order' = o /\ UNCHANGED <<draw, result>>

Buy    == draw = "OPEN" /\ ticket = "NONE" /\ Decide("BOUGHT") /\ ticket' = "IN"
Refuse == Decide("REFUSED") /\ UNCHANGED ticket
Hold   == Decide("HELD") /\ UNCHANGED ticket

\* The money is to go back: a ticket leaves the draw first, unless it has won.
Reserve ==
    /\ order = "HELD" \/ (order = "BOUGHT" /\ draw \in {"OPEN", "CANCELLED"})
    /\ order' = "RETURNING"
    /\ ticket' = IF ticket = "IN" THEN "OUT" ELSE ticket
    /\ UNCHANGED <<draw, result>>

\* A refund that failed is not tried again.
Settle ==
    /\ order = "RETURNING" /\ order' \in {"RETURNED", "KEPT"}
    /\ UNCHANGED <<ticket, draw, result>>

Start == draw = "OPEN" /\ draw' = "RUNNING" /\ UNCHANGED <<order, ticket, result>>

\* An administrator cancels on what an old read allowed.
Cancel == draw' = "CANCELLED" /\ UNCHANGED <<order, ticket, result>>

Publish ==
    /\ draw \in {"RUNNING", "CANCELLED"} /\ result = "NONE"
    /\ draw' = "DRAWN"
    /\ \/ ticket # "IN" /\ result' = "WITHOUT" /\ UNCHANGED ticket
       \/ ticket # "NONE" /\ result' = "WITH" /\ ticket' \in {ticket, "WON"}
    /\ UNCHANGED order

Next == Buy \/ Refuse \/ Hold \/ Reserve \/ Settle \/ Start \/ Cancel \/ Publish

Spec == Init /\ [][Next]_vars
=============================================================================
