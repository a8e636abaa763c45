------------------------------ MODULE AgentMoney ------------------------------
(***************************************************************************)
(* The money between SureWina and one agent. Prepaid sales charge the      *)
(* agent's wallet and prizes paid in cash are credited to it. Sales of the *)
(* time before the wallet are still owed: they are in the agent's          *)
(* receivable account, the worker rolls each closed business day up into   *)
(* a remittance, and a remittance is cleared by a bank transfer, from the  *)
(* wallet, or, when the agent paid out more than was sold, by a credit.    *)
(*                                                                         *)
(* Each clearing is one step: a Serializable transaction that locks the    *)
(* remittance. The agent's announcement of a bank transfer is not: it      *)
(* reads the row and writes it later, with no lock and no condition.       *)
(***************************************************************************)
EXTENDS Integers, FiniteSetsExt

CONSTANTS
    Days,      \* business days with receivable-backed sales
    Gross,     \* what was sold on a day
    PaidOut,   \* prizes paid from the till, to be set off against it
    Cutover,   \* FINANCIAL_LEDGER_CUTOVER_AT: the first day whose row is recovered
    Percent,   \* the agent's commission rate
    Requests,  \* announcements of bank transfers under way
    Sales,     \* prepaid sales
    Price,     \* ... of this face value
    Prizes,    \* prizes paid in cash by the agent
    Prize,     \* ... of this net value
    Funds      \* in the wallet to begin with

ASSUME AgentMoneyAssumption ==
    /\ Days \in Nat /\ Cutover \in Nat
    /\ Gross \in [1 .. Days -> Nat] /\ PaidOut \in [1 .. Days -> Nat]
    /\ Percent \in 0 .. 99
    /\ Price \in Nat /\ Prize \in Nat /\ Funds \in Nat
    /\ IsFiniteSet(Sales) /\ IsFiniteSet(Prizes)

VARIABLES
    closed,      \* the latest business day whose close has passed
    worker,      \* the worker process is up
    row,         \* remittances.status of each day
    commissions, \* days with a commissionLedgerTxnId
    settledBy,   \* the journal behind settlementLedgerTxnId
    credits,     \* days with a walletCreditLedgerTxnId
    reading,     \* the day a request has found open
    receivable,  \* balances of the ledger accounts
    wallet, bank,
    walletStatus,
    sold, paid   \* prepaid sales made, prizes paid

links == <<commissions, settledBy, credits>>
books == <<receivable, wallet, bank>>
trade == <<sold, paid>>
vars  == <<closed, worker, row, links, reading, books, walletStatus, trade>>

AllDays == 1 .. Days

\* commissionNgn and amountDueNgn, written with the row and never again.
Commission(d) == (Gross[d] * Percent) \div 100
Due(d)        == Gross[d] - Commission(d) - PaidOut[d]

Open == {"PENDING", "LATE"}

Init ==
    /\ closed = 0 /\ worker = TRUE
    /\ row = [d \in AllDays |-> "NONE"]
    /\ commissions = {} /\ settledBy = [d \in AllDays |-> "NONE"] /\ credits = {}
    /\ reading = [q \in Requests |-> 0]
    /\ receivable = 0 /\ wallet = Funds /\ bank = 0 /\ walletStatus = "ACTIVE"
    /\ sold = {} /\ paid = {}

-----------------------------------------------------------------------------
(* The worker: remittance sweep and deadline watch *)

\* The sales and prizes of a day were booked to the receivable as they happened.
CloseDay ==
    /\ closed < Days
    /\ closed' = closed + 1
    /\ receivable' = receivable + Gross[closed + 1] - PaidOut[closed + 1]
    /\ UNCHANGED <<worker, row, links, reading, wallet, bank, walletStatus, trade>>

WorkerStops ==
    /\ worker /\ worker' = FALSE
    /\ UNCHANGED <<closed, row, links, reading, books, walletStatus, trade>>

WorkerStarts ==
    /\ ~worker /\ worker' = TRUE
    /\ UNCHANGED <<closed, row, links, reading, books, walletStatus, trade>>

\* lastClosedBusinessDay: the days before it are not looked at.
Swept == {closed} \cap AllDays

\* A day without sales and payouts gets no row, a day with a row no second one.
Sweep ==
    /\ worker
    /\ \E d \in Swept :
          /\ Gross[d] + PaidOut[d] > 0
          /\ row[d] = "NONE"
          /\ row' = [row EXCEPT ![d] = "PENDING"]
    /\ UNCHANGED <<closed, worker, links, reading, books, walletStatus, trade>>

\* (The day may have been cleared since it was listed:)
Listed(d) == row[d] # "NONE"

StillPending(d) == row[d] = "PENDING"

MarkOverdue(d) ==
    /\ worker
    /\ Due(d) > 0 /\ StillPending(d)
    /\ row' = [row EXCEPT ![d] = "LATE"]
    /\ UNCHANGED <<closed, worker, links, reading, books, walletStatus, trade>>

-----------------------------------------------------------------------------
(* The agent *)

BeginConfirm(q, d) ==
    /\ reading[q] = 0
    /\ Due(d) > 0 /\ row[d] \in Open
    /\ reading' = [reading EXCEPT ![q] = d]
    /\ UNCHANGED <<closed, worker, row, links, books, walletStatus, trade>>

\* The update is by the row's id alone.
ConfirmPayment(q) ==
    /\ reading[q] # 0
    /\ row' = [row EXCEPT ![reading[q]] = "AGENT_CONFIRMED"]
    /\ reading' = [reading EXCEPT ![q] = 0]
    /\ UNCHANGED <<closed, worker, links, books, walletStatus, trade>>

GiveUp(q) ==
    /\ reading[q] # 0
    /\ reading' = [reading EXCEPT ![q] = 0]
    /\ UNCHANGED <<closed, worker, row, links, books, walletStatus, trade>>

\* recordCommissionInTransaction, the first write of every clearing: what it takes
\* off the receivable.
NewCommission(d)  == IF d \in commissions THEN 0 ELSE Commission(d)
PostCommission(d) == commissions' = IF Commission(d) > 0 THEN commissions \cup {d} ELSE commissions

MayDebit(n)  == walletStatus = "ACTIVE" /\ wallet >= n
MayCredit    == walletStatus # "CLOSED"

SettleFromWallet(d) ==
    /\ Due(d) > 0 /\ row[d] \in Open /\ MayDebit(Due(d))
    /\ PostCommission(d)
    /\ settledBy' = [settledBy EXCEPT ![d] = "WALLET"]
    /\ row' = [row EXCEPT ![d] = "RECEIVED"]
    /\ wallet' = wallet - Due(d)
    /\ receivable' = receivable - NewCommission(d) - Due(d)
    /\ UNCHANGED <<closed, worker, credits, reading, bank, walletStatus, trade>>

\* The net share; the commission stays with the agent as an expense.
Charge == Price - (Price * Percent) \div 100

Sell(s) ==
    /\ s \notin sold /\ Charge > 0 /\ MayDebit(Charge)
    /\ sold' = sold \cup {s}
    /\ wallet' = wallet - Charge
    /\ UNCHANGED <<closed, worker, row, links, reading, receivable, bank, walletStatus, paid>>

PayPrize(p) ==
    /\ p \notin paid /\ MayCredit
    /\ paid' = paid \cup {p}
    /\ wallet' = wallet + Prize
    /\ UNCHANGED <<closed, worker, row, links, reading, receivable, bank, walletStatus, sold>>

-----------------------------------------------------------------------------
(* Finance *)

\* (A settlement that is there is not looked for, or only one of the same kind:)
Never(d)    == FALSE
SameKind(d) == settledBy[d] = "BANK"

\* A remittance announced after it was settled has its journal.
IsSettled(d) == settledBy[d] # "NONE"

SettleBank(d) ==
    /\ Due(d) > 0 /\ row[d] = "AGENT_CONFIRMED"
    /\ PostCommission(d)
    /\ IF IsSettled(d)
       THEN /\ receivable' = receivable - NewCommission(d)
            /\ UNCHANGED <<row, settledBy, bank>>
       ELSE /\ receivable' = receivable - NewCommission(d) - Due(d)
            /\ bank' = bank + Due(d)
            /\ settledBy' = [settledBy EXCEPT ![d] = "BANK"]
            /\ row' = [row EXCEPT ![d] = "RECEIVED"]
    /\ UNCHANGED <<closed, worker, credits, reading, wallet, walletStatus, trade>>

\* A wallet is closed when it is empty, and for good.
SetWalletStatus(st) ==
    /\ walletStatus # "CLOSED" /\ st # walletStatus
    /\ st = "CLOSED" => wallet = 0
    /\ walletStatus' = st
    /\ UNCHANGED <<closed, worker, row, links, reading, books, trade>>

-----------------------------------------------------------------------------
(* The accounting recovery loop of the API *)

Unbooked(d) ==
    /\ row[d] # "NONE" /\ d >= Cutover
    /\ \/ Commission(d) > 0 /\ d \notin commissions
       \/ Due(d) < 0 /\ d \notin credits
       \/ Due(d) = 0 /\ row[d] # "RECEIVED"

CreditNegative(d) ==
    /\ Unbooked(d) /\ Due(d) < 0
    /\ PostCommission(d)
    /\ IF d \in credits
       THEN /\ receivable' = receivable - NewCommission(d)
            /\ UNCHANGED <<row, credits, wallet>>
       ELSE /\ MayCredit
            /\ credits' = credits \cup {d}
            /\ row' = [row EXCEPT ![d] = "CREDITED_TO_WALLET"]
            /\ wallet' = wallet - Due(d)
            /\ receivable' = receivable - NewCommission(d) - Due(d)
    /\ UNCHANGED <<closed, worker, settledBy, reading, bank, walletStatus, trade>>

\* ensureRemittanceCommission. Nothing is due for the day: it is received.
EnsureCommission(d) ==
    /\ Unbooked(d) /\ Due(d) >= 0
    /\ PostCommission(d)
    /\ receivable' = receivable - NewCommission(d)
    /\ row' = [row EXCEPT ![d] = IF Due(d) = 0 /\ row[d] \in Open THEN "RECEIVED" ELSE @]
    /\ UNCHANGED <<closed, worker, settledBy, credits, reading, wallet, bank, walletStatus, trade>>

\* (Rows with nothing to pay are left out:)
RecoverDue(d) == EnsureCommission(d)

Recover(d) == CreditNegative(d) \/ EnsureCommission(d)

-----------------------------------------------------------------------------
WorkerSteps  == CloseDay \/ WorkerStops \/ WorkerStarts \/ Sweep \/ \E d \in AllDays : MarkOverdue(d)
AgentSteps   == \/ \E q \in Requests : ConfirmPayment(q) \/ GiveUp(q)
                                       \/ \E d \in AllDays : BeginConfirm(q, d)
                \/ \E d \in AllDays : SettleFromWallet(d)
                \/ \E s \in Sales : Sell(s)
                \/ \E p \in Prizes : PayPrize(p)
FinanceSteps == \/ \E d \in AllDays : SettleBank(d) \/ Recover(d)
                \/ \E st \in {"ACTIVE", "FROZEN", "CLOSED"} : SetWalletStatus(st)

Next == WorkerSteps \/ AgentSteps \/ FinanceSteps

Spec == Init /\ [][Next]_vars

\* The recovery runs every five minutes. The worker is started again when it stops,
\* and sweeps as soon as it starts: that it stops now and then does not prevent it.
Fairness ==
    /\ \A d \in AllDays : WF_vars(Recover(d))
    /\ SF_vars(Sweep) /\ WF_vars(WorkerStarts)

ScheduledSpec == Spec /\ Fairness

-----------------------------------------------------------------------------
TypeOK ==
    /\ closed \in 0 .. Days /\ worker \in BOOLEAN
    /\ row \in [AllDays -> Open \cup {"NONE", "AGENT_CONFIRMED", "RECEIVED", "CREDITED_TO_WALLET"}]
    /\ commissions \subseteq {d \in AllDays : Commission(d) > 0} /\ credits \subseteq AllDays
    /\ settledBy \in [AllDays -> {"NONE", "WALLET", "BANK"}]
    /\ reading \in [Requests -> 0 .. Days]
    /\ receivable \in Int /\ wallet \in Int /\ bank \in Int
    /\ walletStatus \in {"ACTIVE", "FROZEN", "CLOSED"}
    /\ sold \subseteq Sales /\ paid \subseteq Prizes

\* The days that something has cleared, and amounts summed over days.
Cleared(d)         == settledBy[d] # "NONE" \/ d \in credits
ClearedDays        == {d \in AllDays : Cleared(d)}
DaysSettledBy(way) == {d \in AllDays : settledBy[d] = way}

Total(amounts, S) == SumFunctionOnSet(amounts, S)
Dues              == [d \in AllDays |-> Due(d)]
Balances          == [d \in AllDays |-> Gross[d] - PaidOut[d]]
CommissionsOf     == [d \in AllDays |-> Commission(d)]

ReceivableAgrees ==
    /\ receivable = Total(Balances, 1 .. closed) - Total(CommissionsOf, commissions) - Total(Dues, ClearedDays)
    /\ commissions \cup ClearedDays \subseteq 1 .. closed

BankAgrees == bank = Total(Dues, DaysSettledBy("BANK"))

\* What sales and prizes have left of the prepaid money.
Traded == Funds - Charge * Cardinality(sold) + Prize * Cardinality(paid)

WalletAgrees == wallet = Traded - Total(Dues, DaysSettledBy("WALLET")) - Total(Dues, credits)

\* Every remittance is cleared once, one way: the accounts hold what the links of the
\* rows say, however announcements, settlements and the recovery interleave.
BooksAgree == ReceivableAgrees /\ BankAgrees /\ WalletAgrees

\* What the agent is asked to pay (current() sums the open rows) has not been cleared.
ClearedIsNotOwed == \A d \in AllDays : row[d] \in Open => settledBy[d] = "NONE" /\ d \notin credits

\* A day is cleared once: what cleared it stays, in one way, and money comes to the bank
\* only for a day that nothing has cleared, though announcements are written late.
ClearedOnce ==
    [][/\ \A d \in AllDays : Cleared(d) =>
             settledBy'[d] = settledBy[d] /\ (d \in credits' <=> d \in credits)
       /\ bank' # bank => \E d \in AllDays : ~Cleared(d) /\ Cleared(d)' /\ bank' = bank + Due(d)]_vars

\* The scheduled work is done in the end: the day that closed last gets its row, unless
\* the next one closes before the worker has looked, and the recovery books every row of
\* the new ledger, unless the wallet that is to be credited has been closed.
RolledUp(d) == (closed = d /\ Gross[d] + PaidOut[d] > 0) ~> (row[d] # "NONE" \/ closed > d)
Booked(d)   == (row[d] # "NONE" /\ d >= Cutover) ~> (~Unbooked(d) \/ walletStatus = "CLOSED")
ScheduledWorkDone == \A d \in AllDays : RolledUp(d) /\ Booked(d)
-----------------------------------------------------------------------------
(* The inductive invariant behind BooksAgree, ClearedIsNotOwed and ClearedOnce *)

\* Only closed days have a row.
ClosedInv == \A d \in AllDays : row[d] # "NONE" => d <= closed

\* A day without a row is not cleared, and an announcement is made for a row.
RowInv ==
    /\ \A d \in AllDays : row[d] = "NONE" => settledBy[d] = "NONE" /\ d \notin credits
    /\ \A q \in Requests : reading[q] # 0 => row[reading[q]] # "NONE"

\* Only what the agent owes is settled, and only what it is owed is credited.
SignInv ==
    \A d \in AllDays : (settledBy[d] # "NONE" => Due(d) > 0) /\ (d \in credits => Due(d) < 0)

IInv == TypeOK /\ ClosedInv /\ RowInv /\ SignInv /\ ClearedIsNotOwed /\ BooksAgree
=============================================================================
