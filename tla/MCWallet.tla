------------------------------- MODULE MCWallet -------------------------------
(* Wallet on small instances: the requests of a customer's and of an agent's *)
(* wallet.                                                                   *)
EXTENDS Wallet, TLC

CONSTANTS customer, agent, h1, h2

Ask(kind, w, amount, h) == [kind |-> kind, wallet |-> w, amount |-> amount, hold |-> h]

\* A deposit that covers one of two holds and a purchase, and competing ends of the
\* first hold.
CustomerDetails ==
    [deposit  |-> Ask("CREDIT", customer, 2, NoHold),
     reserve1 |-> Ask("HOLD", customer, 1, h1),
     reserve2 |-> Ask("HOLD", customer, 2, h2),
     release1 |-> Ask("RELEASE", customer, 1, h1),
     capture1 |-> Ask("CAPTURE", customer, 1, h1),
     purchase |-> Ask("DEBIT", customer, 2, NoHold),
     closure  |-> Ask("CLOSE", customer, 1, NoHold)]

\* A sale and a settlement of one wallet at the same time.
MixedDetails ==
    [commission |-> Ask("CREDIT", agent, 2, NoHold),
     sale1      |-> Ask("SALE", agent, 2, NoHold),
     monday     |-> Ask("DEBIT", agent, 2, NoHold)]

SessionSymmetry == Permutations(Sessions)
=============================================================================
