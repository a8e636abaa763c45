-------------------------------- MODULE Account --------------------------------
(***************************************************************************)
(* What the wallet promises its owner: every request is served at most     *)
(* once, in one step, on the balances as they are at that moment.          *)
(***************************************************************************)
EXTENDS Integers

CONSTANTS Wallets, Holds, Details, NoHold

Requests == DOMAIN Details

VARIABLES status, available, held, hold, served

vars == <<status, available, held, hold, served>>

Init ==
    /\ status = [w \in Wallets |-> "ACTIVE"]
    /\ available = [w \in Wallets |-> 0] /\ held = [w \in Wallets |-> 0]
    /\ hold = [h \in Holds |-> "NONE"]
    /\ served = {}

\* Move money of the request's wallet, never below zero.
Serve(r, allowed, toAvailable, toHeld) ==
    LET w == Details[r].wallet IN
    /\ r \notin served
    /\ status[w] \in allowed
    /\ available[w] + toAvailable >= 0
    /\ served' = served \cup {r}
    /\ available' = [available EXCEPT ![w] = @ + toAvailable]
    /\ held' = [held EXCEPT ![w] = @ + toHeld]
    /\ UNCHANGED status

MoveHold(h, from, to) == hold[h] = from /\ hold' = [hold EXCEPT ![h] = to]

Open == {"ACTIVE", "FROZEN"}

Deposit(r, a) == Serve(r, Open, a, 0) /\ UNCHANGED hold
Spend(r, a)   == Serve(r, {"ACTIVE"}, -a, 0) /\ UNCHANGED hold
Reserve(r, a) == Serve(r, {"ACTIVE"}, -a, a) /\ MoveHold(Details[r].hold, "NONE", "HELD")
Release(r, a) == Serve(r, Open, a, -a) /\ MoveHold(Details[r].hold, "HELD", "RELEASED")
Capture(r, a) == Serve(r, {"ACTIVE"}, 0, -a) /\ MoveHold(Details[r].hold, "HELD", "CAPTURED")

Request(r) ==
    LET a == Details[r].amount IN
    CASE Details[r].kind = "CREDIT"            -> Deposit(r, a)
      [] Details[r].kind \in {"DEBIT", "SALE"} -> Spend(r, a)
      [] Details[r].kind = "HOLD"              -> Reserve(r, a)
      [] Details[r].kind = "RELEASE"           -> Release(r, a)
      [] Details[r].kind = "CAPTURE"           -> Capture(r, a)
      [] OTHER                                 -> FALSE

\* Freezing and unfreezing at will, closing for good and only when empty.
SetStatus(w, st) ==
    /\ status[w] # "CLOSED"
    /\ st = "CLOSED" => available[w] = 0 /\ held[w] = 0
    /\ status' = [status EXCEPT ![w] = st]
    /\ UNCHANGED <<available, held, hold, served>>

Next == \/ \E r \in Requests : Request(r)
        \/ \E w \in Wallets, st \in Open \cup {"CLOSED"} : SetStatus(w, st)

Spec == Init /\ [][Next]_vars
=============================================================================
