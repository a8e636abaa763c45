-------------------------------- MODULE Wallet --------------------------------
(***************************************************************************)
(* Wallets, their ledger journals and their holds, as WalletService and    *)
(* LedgerService keep them: every request is a database transaction that   *)
(* locks the wallet row, reads what it needs and posts one journal.        *)
(*                                                                         *)
(* The lock orders the requests of a wallet, but a SERIALIZABLE            *)
(* transaction reads from the snapshot its first statement took, and that  *)
(* may be before the lock was granted. So a request is two steps: Begin    *)
(* takes the snapshot; the operation itself reads that snapshot, writes    *)
(* and commits, or the transaction rolls back.                             *)
(***************************************************************************)
EXTENDS Integers, FiniteSets

CONSTANTS
    Wallets, Holds,
    Details,    \* what each request asks for
    Sessions,   \* database connections: a request may run in several, or again
    NoRequest, NoHold

Requests == DOMAIN Details   \* logical requests, one idempotency key each

Kinds == {"CREDIT", "DEBIT", "SALE", "HOLD", "RELEASE", "CAPTURE", "CLOSE"}

RequestDetails ==
    [kind : Kinds, wallet : Wallets, amount : Nat \ {0}, hold : Holds \cup {NoHold}]

\* The hold row carries its wallet and its amount: requests cannot disagree on them.
ASSUME DetailsAssumption ==
    /\ Details \in [Requests -> RequestDetails]
    /\ NoRequest \notin Requests /\ NoHold \notin Holds
    /\ \A r \in Requests : Details[r].kind \in {"HOLD", "RELEASE", "CAPTURE"}
                             <=> Details[r].hold # NoHold
    /\ \A q, r \in Requests : Details[q].hold = Details[r].hold /\ Details[q].hold # NoHold
         => /\ Details[q].wallet = Details[r].wallet /\ Details[q].amount = Details[r].amount
            /\ Details[q].kind = "HOLD" /\ Details[r].kind = "HOLD" => q = r

VARIABLES
    status,     \* wallets.status
    journal,    \* requests whose ledger transaction is posted (the key is unique)
    available,  \* balance of each wallet's available account: the sum of its entries
    held,       \* balance of each wallet's held account
    hold,       \* wallet_holds.status
    request,    \* the request a session is running
    snap,       \* the snapshot its transaction reads
    missed,     \* requests that committed since
    touched     \* wallets whose row was updated since

dbVars      == <<status, journal, available, held, hold>>
sessionVars == <<request, snap, missed, touched>>
vars == <<dbVars, sessionVars>>

-----------------------------------------------------------------------------
Tables == [status |-> status, journal |-> journal, available |-> available,
           held |-> held, hold |-> hold]

EmptyTables == [status    |-> [w \in Wallets |-> "ACTIVE"], journal |-> {},
                available |-> [w \in Wallets |-> 0], held |-> [w \in Wallets |-> 0],
                hold      |-> [h \in Holds |-> "NONE"]]

\* The agent sale opens its transaction without asking for a level. (At REPEATABLE
\* READ the others would read a snapshot too, and conflicts would go unnoticed.)
RepeatableRead(r) == IF Details[r].kind = "SALE" THEN "READ COMMITTED" ELSE "REPEATABLE READ"
Isolation(r)      == IF Details[r].kind = "SALE" THEN "READ COMMITTED" ELSE "SERIALIZABLE"

ReadsSnapshot(r) == Isolation(r) # "READ COMMITTED"

ReadsBalance(r) == Details[r].kind \in {"DEBIT", "HOLD", "CLOSE"}
MovesMoney(r)   == Details[r].kind # "CLOSE"

\* r reads something that x writes: the entries it sums, or the wallet's row.
DependsOn(r, x) == \/ ReadsBalance(r) /\ MovesMoney(x)
                   \/ Details[x].kind = "CLOSE"

\* Of two concurrent SERIALIZABLE transactions that each read what the other
\* writes only one can commit.
Skew(r, x) ==
    /\ Details[r].wallet = Details[x].wallet
    /\ Isolation(r) = "SERIALIZABLE" /\ Isolation(x) = "SERIALIZABLE"
    /\ DependsOn(r, x) /\ DependsOn(x, r)

View(s) == IF ReadsSnapshot(request[s]) THEN snap[s] ELSE Tables

\* What the database refuses to commit: a snapshot older than the last update of
\* a row it locks, a skew, a second journal or hold under the same key.
MayCommit(s) ==
    LET r == request[s] IN
    /\ r \notin journal
    /\ ReadsSnapshot(r) =>
         /\ Details[r].wallet \notin touched[s]
         /\ Details[r].hold # NoHold => hold[Details[r].hold] = snap[s].hold[Details[r].hold]
         /\ \A x \in missed[s] : ~Skew(r, x)

-----------------------------------------------------------------------------
Init ==
    /\ status = EmptyTables.status /\ journal = {}
    /\ available = EmptyTables.available /\ held = EmptyTables.held
    /\ hold = EmptyTables.hold
    /\ request = [s \in Sessions |-> NoRequest]
    /\ snap = [s \in Sessions |-> EmptyTables]
    /\ missed = [s \in Sessions |-> {}]
    /\ touched = [s \in Sessions |-> {}]

\* The first statement of the transaction.
Begin(s, r) ==
    /\ request[s] = NoRequest
    /\ request' = [request EXCEPT ![s] = r]
    /\ snap' = [snap EXCEPT ![s] = Tables]
    /\ UNCHANGED <<dbVars, missed, touched>>

\* The end of it: the other open transactions have missed what it did.
Leave(s, done, rows) ==
    /\ request' = [request EXCEPT ![s] = NoRequest]
    /\ snap' = [snap EXCEPT ![s] = EmptyTables]
    /\ missed' = [q \in Sessions |->
                    IF q = s \/ request[q] = NoRequest THEN {} ELSE missed[q] \cup done]
    /\ touched' = [q \in Sessions |->
                    IF q = s \/ request[q] = NoRequest THEN {} ELSE touched[q] \cup rows]

\* A refusal, the replay of a request already served, or a failure of the
\* database: nothing is written, and the client may try again.
RollBack(s) ==
    /\ request[s] # NoRequest
    /\ Leave(s, {}, {})
    /\ UNCHANGED dbVars

\* postInTransaction, with the trigger that checks the balances at commit.
Post(s, toAvailable, toHeld) ==
    LET r == request[s]
        w == Details[r].wallet
    IN  /\ MayCommit(s)
        /\ View(s).available[w] + toAvailable >= 0
        /\ View(s).held[w] + toHeld >= 0
        /\ journal' = journal \cup {r}
        /\ available' = [available EXCEPT ![w] = @ + toAvailable]
        /\ held' = [held EXCEPT ![w] = @ + toHeld]
        /\ Leave(s, {r}, {})
        /\ UNCHANGED status

Runs(s, kinds) == request[s] \in Requests /\ Details[request[s]].kind \in kinds

Amount(s)       == Details[request[s]].amount
WalletStatus(s) == View(s).status[Details[request[s]].wallet]
Available(s)    == View(s).available[Details[request[s]].wallet]
HoldStatus(s)   == View(s).hold[Details[request[s]].hold]

\* The status is the outcome, not the name of the request.
SetHold(s, st) == hold' = [hold EXCEPT ![Details[request[s]].hold] = st]

\* assertCanReceive, assertCanSpend, assertNotClosed.
MayReceive(st) == st # "CLOSED"
MaySpend(st)   == st = "ACTIVE"

\* Only an open hold is resolved. (Forgetting that it may be released already:)
ResolvableAgain(st) == st \in {"HELD", "RELEASED"}
Resolvable(st)      == st = "HELD"

Credit(s) ==
    /\ Runs(s, {"CREDIT"})
    /\ MayReceive(WalletStatus(s))
    /\ Post(s, Amount(s), 0)
    /\ UNCHANGED hold

Debit(s) ==
    /\ Runs(s, {"DEBIT", "SALE"})
    /\ MaySpend(WalletStatus(s))
    /\ Available(s) >= Amount(s)
    /\ Post(s, -Amount(s), 0)
    /\ UNCHANGED hold

CreateHold(s) ==
    /\ Runs(s, {"HOLD"})
    /\ MaySpend(WalletStatus(s))
    /\ HoldStatus(s) = "NONE"
    /\ Available(s) >= Amount(s)
    /\ Post(s, -Amount(s), Amount(s))
    /\ SetHold(s, "HELD")

ReleaseHold(s) ==
    /\ Runs(s, {"RELEASE"})
    /\ MayReceive(WalletStatus(s))
    /\ Resolvable(HoldStatus(s))
    /\ Post(s, Amount(s), -Amount(s))
    /\ SetHold(s, "RELEASED")

CaptureHold(s) ==
    /\ Runs(s, {"CAPTURE"})
    /\ MaySpend(WalletStatus(s))
    /\ Resolvable(HoldStatus(s))
    /\ Post(s, 0, -Amount(s))
    /\ SetHold(s, "CAPTURED")

HoldsOf(w) == {h \in Holds : \E r \in Requests : Details[r].hold = h /\ Details[r].wallet = w}

\* A wallet is closed when nothing is in it. (Looking only at what can be spent
\* would strand the money of its holds.)
NothingAvailable(v, w) == v.available[w] = 0
Empty(v, w) == /\ v.available[w] = 0 /\ v.held[w] = 0
               /\ \A h \in HoldsOf(w) : v.hold[h] # "HELD"

CloseWallet(s) ==
    LET w == Details[request[s]].wallet IN
    /\ Runs(s, {"CLOSE"})
    /\ MayCommit(s)
    /\ WalletStatus(s) # "CLOSED"
    /\ Empty(View(s), w)
    /\ status' = [status EXCEPT ![w] = "CLOSED"]
    /\ Leave(s, {request[s]}, {w})
    /\ UNCHANGED <<journal, available, held, hold>>

\* freezeWallet and unfreezeWallet: one guarded statement each.
SetStatus(w, from, to) ==
    /\ status[w] = from
    /\ status' = [status EXCEPT ![w] = to]
    /\ touched' = [q \in Sessions |-> IF request[q] = NoRequest THEN {} ELSE touched[q] \cup {w}]
    /\ UNCHANGED <<journal, available, held, hold, request, snap, missed>>

FreezeWallet(w)   == SetStatus(w, "ACTIVE", "FROZEN")
UnfreezeWallet(w) == SetStatus(w, "FROZEN", "ACTIVE")

Next ==
    \/ \E s \in Sessions :
         \/ \E r \in Requests : Begin(s, r)
         \/ Credit(s) \/ Debit(s)
         \/ CreateHold(s) \/ ReleaseHold(s) \/ CaptureHold(s)
         \/ CloseWallet(s) \/ RollBack(s)
    \/ \E w \in Wallets : FreezeWallet(w) \/ UnfreezeWallet(w)

Spec == Init /\ [][Next]_vars

-----------------------------------------------------------------------------
Database ==
    [status : [Wallets -> {"ACTIVE", "FROZEN", "CLOSED"}], journal : SUBSET Requests,
     available : [Wallets -> Int], held : [Wallets -> Int],
     hold : [Holds -> {"NONE", "HELD", "RELEASED", "CAPTURED"}]]

TypeOK ==
    /\ Tables \in Database
    /\ request \in [Sessions -> Requests \cup {NoRequest}]
    /\ snap \in [Sessions -> Database]
    /\ missed \in [Sessions -> SUBSET Requests]
    /\ touched \in [Sessions -> SUBSET Wallets]

\* The debits of w all run at one isolation level.
Spenders(w) == {r \in Requests : Details[r].wallet = w /\ Details[r].kind \in {"DEBIT", "SALE", "HOLD"}}
OneLevel(w) == \A q, r \in Spenders(w) : Isolation(q) = Isolation(r)

\* No interleaving of debits and holds, however old their snapshots, spends more
\* than the wallet has, if they all run at the same isolation level
\* (debitInTransaction, createHoldInTransaction: "Insufficient wallet balance").
NeverOverdrawn == \A w \in Wallets : OneLevel(w) => available[w] >= 0

\* Every naira of every open hold.
HoldAmount(h) == Details[CHOOSE r \in Requests : Details[r].hold = h].amount
OpenHolds(w)  == {h \in HoldsOf(w) : hold[h] = "HELD"}
HeldNaira(w)  == UNION {{h} \X (1 .. HoldAmount(h)) : h \in OpenHolds(w)}

\* What is held is what the open holds hold: no hold is taken, released or
\* captured twice, or only half (the journal without the row).
HeldIsOutstanding == \A w \in Wallets : held[w] = Cardinality(HeldNaira(w))

\* A hold is resolved by exactly one of the requests that compete for it
\* ("Released wallet hold cannot be captured", "Captured wallet hold cannot be
\* released"), whichever sessions run them and however often.
Resolvers(h) == {r \in journal : Details[r].hold = h /\ Details[r].kind \in {"RELEASE", "CAPTURE"}}

HoldResolvedOnce ==
    \A h \in Holds :
      /\ \A q, r \in Resolvers(h) : q = r
      /\ \A r \in Resolvers(h) :
           hold[h] = IF Details[r].kind = "RELEASE" THEN "RELEASED" ELSE "CAPTURED"

\* A closed wallet is empty and stays so: no credit that was under way when it
\* was closed arrives, and no hold is left in it.
ClosedIsEmpty ==
    \A w \in Wallets : status[w] = "CLOSED" =>
      /\ available[w] = 0 /\ held[w] = 0
      /\ \A h \in HoldsOf(w) : hold[h] # "HELD"

\* No money leaves a wallet that is not ACTIVE, not even by a transaction that
\* read the wallet before it was frozen.
FrozenKeepsMoney ==
    [][\A w \in Wallets : status[w] # "ACTIVE"
         => available'[w] + held'[w] >= available[w] + held[w]]_vars

-----------------------------------------------------------------------------
(* The inductive invariant behind the safety properties                    *)

Spends(x, w) == Details[x].wallet = w /\ Details[x].kind \in {"DEBIT", "HOLD"}
Moves(x, w)  == Details[x].wallet = w /\ MovesMoney(x) /\ ReadsSnapshot(x)

\* How a snapshot can differ from the tables: not in the status of a wallet whose
\* row was not updated, ...
StatusInv(s, w) == w \notin touched[s] => snap[s].status[w] = status[w]

\* ... not by less money, unless a serializable debit was missed, ...
SpendInv(s, w) ==
    (\A x \in missed[s] : ~Spends(x, w)) /\ (\A r \in Spenders(w) : ReadsSnapshot(r))
      => available[w] >= snap[s].available[w]

\* ... and without a serializable movement only by agent sales, which overdraw nothing.
SaleInv(s, w) ==
    (\A x \in missed[s] : ~Moves(x, w)) =>
      /\ held[w] = snap[s].held[w]
      /\ \A h \in HoldsOf(w) : hold[h] = snap[s].hold[h]
      /\ available[w] <= snap[s].available[w]
      /\ available[w] = snap[s].available[w] \/ available[w] >= 0

SnapInv ==
    \A s \in Sessions : request[s] # NoRequest =>
      \A w \in Wallets : StatusInv(s, w) /\ SpendInv(s, w) /\ SaleInv(s, w)

HeldInv == HeldIsOutstanding /\ \A w \in Wallets : IsFiniteSet(HeldNaira(w))

IInv == TypeOK /\ SnapInv /\ NeverOverdrawn /\ ClosedIsEmpty /\ HoldResolvedOnce /\ HeldInv

-----------------------------------------------------------------------------
A == INSTANCE Account WITH served <- journal

\* Snapshots, locks and aborts together behave as if every request were served
\* in one step on the current balances (as long as no debit runs at a lower
\* isolation level than the others).
ImplementsAccount == A!Spec

\* "WALLET NEGATIVE BALANCE PROTECTION" (phase3_wallet_invariants), "Wallet lock
\* serialises concurrent spending, holds and captures for this wallet"
\* (wallet.service.ts).
WalletNonnegative == \A w \in Wallets : available[w] >= 0 /\ held[w] >= 0
=============================================================================
