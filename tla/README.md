# SureWina in TLA+

SureWina is a raffle platform: customers and agents buy tickets for scheduled
draws, an engine draws the winners from a committed random seed, and a ledger
keeps the money. This directory models the parts of the system in which order,
concurrency and failure decide whether a draw is fair and the money adds up,
checks them with TLC and proves the central properties with TLAPS.

All source paths are relative to the repository root; `engine/`, `api/` and
`worker/` stand for `apps/engine/src/`, `apps/api/src/` and `apps/worker/src/`.

## 1. The system

Every process talks to one PostgreSQL database through Prisma; there is no other
shared state. A row is protected by `SELECT ... FOR UPDATE`, by a guarded
`updateMany(where status = ...)`, by a unique index, or by nothing. Most
money transactions run SERIALIZABLE; single statements and the agent sale run
at PostgreSQL's default, READ COMMITTED.

| component | source | state | operations | what is hard | what must hold |
|---|---|---|---|---|---|
| draw engine | `engine/seed-commit`, `lifecycle`, `execution` | draws, seed commitments, results, ticket and entry status | three independent polling loops (30 s and 15 s) | two processes during a deploy, a statement used long after its read, crashes between statements | commitment before sales, one executor, complete pool, one winner, commit-then-reveal |
| draw administration | `api/draws`, `worker/draw-scheduler` | draws | create, update, cancel | a read, then a write that does not test what was read | no change or cancellation behind the back of sales and engine |
| ticket channels | `api/payments` (gateway and wallet), `api/agent-ops/agent-sales` | payments, tickets | initiate, confirm (webhook, poll, page return), wallet purchase, agent sale | duplicated and late confirmations, a sale that races the close | every paid ticket takes part, none is sold after the close |
| refund desk | `api/admin-ops/payment-refund` | payments, tickets | reserve, submit, settle | provider time-outs, race with the draw | money back and a winning ticket exclude each other |
| wallet and ledger | `api/wallet`, `api/ledger` | journals, wallet status, holds | credit, debit, hold, release, capture, freeze, unfreeze, close | snapshots taken before a lock is granted, retries with the same key | no overdraft, held money equals open holds, each request moves money once |
| online payments | `api/payments` (payments, payment-verification, purchase-confirmation, webhook) | payments, tickets, journals | checkout, webhook, poll, confirm, review | late, repeated and contradicting verifications, three providers' vocabularies | a ticket only for money that came in time and is booked |
| wallet funding | `api/payments/wallet-funding` | funding intents | initiate, verify, confirm | what the provider said is confirmed later, next to other news | credited once, never without payment |
| CBA withdrawal, wallet links | `api/integrations/witmango` | withdrawals, links | reserve, cancel, provision | a crash between the bank's answer and its record | one client, money to the approved account |
| prize claims and payouts | `api/claims`, `api/agent-ops/agent-prizes`, `worker/claims-sweep` | claims, payout attempts | choose, approve, pay by bank, agent or desk, recover, forfeit | three channels that pay one prize, uncertain provider answers, sweep against approval | a prize is given once, and what was given is what the books say |
| bank accounts | `api/claims/kyc`, `api/payout-accounts` | identity checks, accounts, codes | check, approve, request and carry out a change of bank | a change is carried out days after it was allowed | money goes to the account that was verified |
| jackpot offers and accumulation | `api/payments/jackpot-*` | counters, offers, payments | count, unlock, reserve, release, expire, redeem | sales at READ COMMITTED that overlap a new week, two rails | an offer is earned, and buys one ticket |
| agents | `api/agent-ops`, `worker/remittance-*` | remittances, receivable, wallet | sell, pay a prize, roll up, announce, settle, credit, recover | an announcement written over a settlement, a worker that is down | each day is cleared once, and no cleared day is asked for |
| treasury | `api/treasury` | settlements, reconciliation runs | ingest, synchronise, compare | lists fetched earlier than they are used | the clearing account is traceable, a clean run can be relied upon |
| sign-in | `api/auth`, `api/admin-auth` | sessions, tokens | login, refresh, revoke | token replay | a refresh token is used once |
| audit | `api/audit` | log, checkpoints | write, seal | an entry committed after a seal that covers its number | an unbroken chain |
| notifications | `worker/notifications.worker`, `engine/winner-queue` | a queue | enqueue, send | hand-over after the commit | none lost (not guaranteed by the code) |
| migration, rollout tooling | `api/migration`, `api/rollout` | one-off | run by an operator | | |
| web and mobile clients | `apps/web-*`, `apps/mobile-agent` | none of authority | | | |

`PROJECT.json` lists the components with what is modelled of each, and the
hazards with the line at which each bites.

## 2. Modules

| module | what it is |
|---|---|
| `DrawEngine` | draws, engine loops, administrators, ticket channels and refund desk as one system |
| `Raffle` | what the platform promises to the players of a draw, without clocks, loops or locks |
| `TicketOrder` | what a paid ticket and its draw promise each other; `DrawEngine` and `Purchase` both keep it |
| `MCDrawEngine` | instances of `DrawEngine` for TLC |
| `DrawEngineProofs` | the inductive invariant, the safety theorems, and that `DrawEngine` implements `Raffle` and keeps `TicketOrder` |
| `Wallet` | wallets, journals and holds as transactions that read snapshots |
| `Account` | what the wallet promises its owner: each request served at most once, in one step |
| `MCWallet` | instances of `Wallet` for TLC |
| `WalletProofs` | the wallet's inductive invariant, its safety theorems and its refinement of `Account` |
| `PrizeClaim` | one prize claim and everything that can pay it: the winner, staff, agents, clerks, the payout provider |
| `Prize` | what a prize promises its winner: one transfer after another, a ledger that follows, and, until the claim's status is written over, an agent or a forfeiture only in their place |
| `MCPrizeClaim` | instances of `PrizeClaim` for TLC |
| `PrizeClaimProofs` | the claim's inductive invariants, its safety theorems and its refinement of `Prize` |
| `Purchase` | one online payment from the checkout to the refund, and its journals |
| `MCPurchase`, `PurchaseProofs` | its instance, its invariant and theorems |
| `Beneficiary` | the bank account of one customer: identity checks, approval, changes, payouts, withdrawals |
| `MCBeneficiary`, `BeneficiaryProofs` | its instance, its invariant and theorems |
| `Jackpot` | the weekly count of one phone number, its offers and their payments |
| `MCJackpot`, `JackpotProofs` | its instance, its invariant and theorems |
| `AgentMoney` | one agent's wallet, receivable and remittances, and the two processes that work on them |
| `MCAgentMoney`, `AgentMoneyProofs` | its instance, its invariant and theorems |
| `Funding` | money paid into a wallet |
| `Treasury` | settlement and reconciliation, composed with `Funding` on shared variables |
| `MCTreasury`, `TreasuryProofs` | the instance of both, the invariant and theorems |

The systems meet in a few rows, and each module models its side: a published result
(`DrawEngine`) creates a claim (`Init` of `PrizeClaim`); an agent's payment of a prize
(`AgentPays`) is a `CREDIT` of the agent's wallet (`Wallet`, `PayPrize` in
`AgentMoney`); a payout (`PrizeClaim`) goes to the account that `Beneficiary` chooses
(`ReservePayout`), and the hold behind a withdrawal there is one of `Wallet`; the draw
of a `Purchase` has the four statuses a payment reads, and its ticket is a gateway
ticket of `DrawEngine`. What the two assume of each other is `TicketOrder`: `DrawEngine`
keeps it for each gateway ticket with loops, edits and an administrator's late
cancellation, `Purchase` for one payment with providers, webhooks and refunds that fail;
`Treasury` works on the state of `Funding` itself.

A definition followed by a comment in parentheses, or named for what it leaves out
(`AnyCycle`, `SameKind`), is used by no action: it is the form a bug would give to
its neighbour, and the mutants of `PROJECT.json` put it there.

### DrawEngine and the code

A step of the model is one database statement or one transaction. What the code
reads in one statement and uses in a later one lives in a variable of the
reader, so the model interleaves exactly where the processes can:

| variable | code |
|---|---|
| `draw`, `seed`, `result` | tables `draws`, `draw_seed_commits` (unique per draw), `draw_results` (unique per draw) |
| `unit`, `drawOf` | status and draw of each ticket and jackpot entry; an agent sale that has passed its checks but not its transaction is `CHECKED` |
| `payment`, `paidAt` | `payment_transactions.status`; the time the provider took the money |
| `committing`, `lifecycle`, `closing`, `exec` | what each engine's three ticks hold in memory; every tick skips while the previous one runs |
| `editing`, `cancelling` | draws an administrator's request has read and not yet written |
| `refunding` | refunds between the lock of the payment and the lock of the draw |

| action | code |
|---|---|
| `CreateDraw`, `ReadEditable`, `WriteEdit`, `ReadCancellable`, `WriteCancel` | `DrawsService.create`, `update`, `cancel` |
| `ReadUncommitted`, `CommitSeed` | `SeedCommitService.tick`, `commitSeed` |
| `ReadReady`, `ReadPastCutoff`, `WriteTransition` | `LifecycleService.activateCommittedDraws`, `closeSalesAtCutoff`, `transition` |
| `ReadDue`, `ClaimDraw`, `ReadCommitment`, `LockPool`, `CancelEmptyDraw`, `PublishResult`, `AbandonDraw` | `ExecutionService.tick`, `execute`, `cancelEmptyDraw` |
| `LoseSeedTick`, `LoseLifecycleTick`, `LoseExecutionTick`, `CrashEngine` | the `catch` of each tick; a restart |
| `InitiatePurchase`, `ConfirmPurchase`, `PaymentFails` | `PaymentsService.initiatePurchase`, `PurchaseConfirmationService` |
| `WalletPurchase` | `WalletTicketPurchaseService.purchase` |
| `AgentChecksDraw`, `AgentIssuesTicket` | `AgentSalesService.sell`, before and in its transaction |
| `CheckRefund`, `ReserveRefund`, `RefundSucceeds`, `RefundFails` | `PaymentRefundService.initiate`, `markSucceeded`, `markFailed` |

Abstractions: the seed is represented by the engine that generated it; the winner
is any unit of the locked pool (the choice is a hash of seed and pool size); a
payment buys one ticket; the free entries of a jackpot draw exist from the start;
the audit trail and the winner's SMS are left out. The confirmation of a payment
is one step, because it runs under the locks of the payment and of the draw.

### Wallet and the code

Every wallet operation is one transaction: it locks the wallet row (`lockWallet`),
looks for the journal of its idempotency key, reads the wallet's status and balances,
posts a journal and changes the hold. Under SERIALIZABLE all reads come from the
snapshot of the transaction's first statement, so a request that waited for the
lock reads what was true before it waited. The model therefore has two steps per
request: `Begin` takes the snapshot, the operation reads it, writes and commits.

| variable | code |
|---|---|
| `status`, `hold` | `wallets.status`, `wallet_holds.status` |
| `journal` | the requests whose ledger transaction is posted; `idempotencyKey` is unique |
| `available`, `held` | the balances of the wallet's two ledger accounts, the sum of their entries in `getBalances` |
| `request`, `snap` | the transaction open on a connection, and its snapshot |
| `missed`, `touched` | what has committed since the snapshot: requests, and wallet rows updated |

| action | code |
|---|---|
| `Begin` | the first statement of each transaction, `lockWallet` |
| `Credit`, `Debit` | `creditInTransaction`, `debitInTransaction` (`SALE`: the same debit inside `AgentSalesService.sell`) |
| `CreateHold`, `ReleaseHold`, `CaptureHold` | `createHoldInTransaction`, `releaseHoldInTransaction`, `captureHoldInTransaction` |
| `CloseWallet`, `FreezeWallet`, `UnfreezeWallet` | `closeWallet`, `freezeWallet`, `unfreezeWallet` |
| `RollBack` | any exception: a refusal, the replay of a request already served, a serialization failure, a lost connection |

`MayCommit` is the database: a SERIALIZABLE transaction fails if a row it locks was
updated after its snapshot, or if it and another SERIALIZABLE transaction that it
missed each read what the other wrote; a key is inserted once. PostgreSQL aborts
more than that (dangerous structures of three transactions), so the model has every
behaviour of the database and some more, and what holds in the model holds there. The
row lock itself needs no variable: the operation is the step that holds it. `MayCommit`
tracks nothing of a READ COMMITTED transaction, as PostgreSQL does not.

### PrizeClaim and the code

| variable | code |
|---|---|
| `status`, `option`, `paidBy`, `handedBy`, `code`, `mirror` | `prize_claims.status`, `claimType`, `paidByAgentId`, `redeemedByAdminId` with `redeemedAt`, `redemptionCodeHash`, `payoutStatus` |
| `window` | which of `selectionDeadlineAt` and `claimDeadlineAt` have passed |
| `identity`, `checks` | status and number of the latest `kyc_identity_checks` row |
| `attempt`, `provider`, `last` | `prize_payout_attempts` by attempt number |
| `posted`, `reversed` | attempts with `payoutLedgerTxnId`, with `reversalLedgerTxnId` |
| `calls`, `transfer` | requests on their way to the provider; what the provider has done with each |
| `choosing`, `handing`, `sweeping`, `issuing` | requests that have read the claim, or committed, and have a statement to go |
| `answers`, `mirroring`, `mirrors` | answers received and not yet applied; `mirrorCurrentAttempt` before its read and before its write |
| `overwritten` | no column: history, how often a choice was written to a claim no longer open to one |

| action | code |
|---|---|
| `ReadChoosable`, `WriteChoice` | `ClaimsService.choose` |
| `StartIdentityCheck`, `IdentityOutcome` | `PaystackIdentityCoordinatorService.start`, `PaystackIdentityWebhookService.handleWebhook` |
| `Approve`, `IssueCode` | `ClaimsService.reviewKyc`, `RedemptionService.issue` |
| `AgentPays` | `AgentPrizesService.logPayment` |
| `Verify`, `HandOver` | `RedemptionService.confirmHandover`, before and at its update |
| `Reserve` | `PrizePayoutEngineService.reserveAttempt`, from `initiate` and `retry` |
| `Arrive`, `Settle` | the provider |
| `Refresh`, `Webhook` | `startAttempt`'s answer, `refreshCurrent`, `PrizePayoutRecoveryService.tick`; `PrizePayoutSyncService.syncReference` |
| `Apply` (`Succeed`, `Record`, `RecordMismatch`, `BookReversal`) | `applyForAttempt` (`markSucceeded`, `markFailed` and `markNonTerminal`, `markVerificationMismatch`, `markReversed`) |
| `ReadLatest`, `WriteMirror` | `mirrorCurrentAttempt` |
| `Sweep`, `Forfeit` | `ClaimsSweepService.tick`, `forfeit` |

Abstractions: SUBMITTED, PROCESSING and UNKNOWN, which all code treats alike, are one
status, and so are the open statuses of an identity check. A call that is lost stays in
`calls`, where it does the harm a late one can do. A restart loses all work in memory at
once. The answer to an initiation, to a query and to the query a webhook causes have the
same possible contents. Product prizes end at the choice: the coordinator checks CASH
claims only, so no product claim is ever cleared. The clerk's handed-over `option` and
the agent's cash stand for the thing itself, since nothing in the program can take it back.

### Purchase and the code

| variable | code |
|---|---|
| `gateway`, `flaw` | the row's provider; what will not agree with it when the money comes |
| `draw`, `closed`, `pool` | status and cutoff of the draw; its frozen pool, as far as this ticket goes |
| `status`, `ticket`, `refund` | `payment_transactions.status` and `refundStatus`, `tickets.status` |
| `collection`, `accrual`, `settled` | the three journals and the account they were posted to |
| `charge`, `late`, `money` | what the provider really did with the payment and with the refund |
| `verified`, `answers` | results of verifications and refund calls, received and not yet applied |
| `opening`, `calling`, `sent` | the request that creates the checkout, the one that initiates the refund, its call |

| action | code |
|---|---|
| `CheckoutOpens`, `CheckoutFails` | `PaymentsService.initiatePurchase` after its insert |
| `Webhook`, `Poll` | the three webhook services, `getStatus`, through `verify` and `mapPaystackStatus`, `mapMonnifyStatus`, `mapFlutterwaveStatus` |
| `Confirm` (`Ignore` ... `IssueTickets`) | the outcomes of `PurchaseConfirmationService.confirmAndCreateTickets`, with the collection journal |
| `RequestRefund`, `InitiationAnswers`, `InitiationThrows` | `PaymentRefundService.initiate` up to the commit, and its call |
| `Refresh`, `RefreshInVain` | `refresh` of each provider |
| `Apply` (`MarkSucceeded`, `MarkFailed`, `MarkPending`) | `markSucceeded`, `markFailed`, `markPending`, with the settlement journal |
| `Crash`, `LoseVerification` | a restart; a webhook's errors, which are swallowed |

### Beneficiary and the code

An account is known by the check that created it, so that one bank account approved
twice is two rows, as in the table. What Redis, the identity provider and the bank do
comes in steps of its own, between the transactions.

| action | code |
|---|---|
| `Request`, `VerifyCode`, `CodeGone` | `BankChangeStepUpService.request`, `verify`; expiry and wrong guesses |
| `Start` (`StartFirst`, `StartReuse`, `StartChange`) | `PaystackIdentityCoordinatorService.start` up to its commit, by the kind of account it finds; a change consumes the code |
| `MarkSubmitted`, `OutcomeUnknown`, `RequestEnds` | the call to the identity provider and what is written of it |
| `IdentityEvent` (`EventForNew`, `EventForReuse`, `EventFailed`) | `PaystackIdentityWebhookService.handle`, which carries out a change of bank |
| `CoolingOffEnds`, `Approve` | the clock; the approval in `ClaimsService.reviewKyc`, with the evidence service |
| `ReservePayout`, `PayoutEnds` | `reserveAttempt` with `LockedPayoutDestinationService`; the attempt's end |
| `Provision`, `OpenClient`, `FinishLink` | `WitmangoWalletLinkService`, before, at and after the bank's answer |
| `ReserveWithdrawal`, `CancelWithdrawal` | `WitmangoWithdrawalService` |

### Jackpot and the code

| variable | code |
|---|---|
| `week`, `open` | the latest Saturday jackpot, and whether it takes tickets |
| `accum` | `jackpot_accumulations`: the cycle it counts for and the count |
| `sale`, `seen` | the transaction of a sale, and what it has read before the write |
| `offer`, `fresh`, `tickets` | `jackpot_discount_offers.status`, `claimingAt`; entries bought with it |
| `counted` | offers whose release has counted the active attempts and not yet written |
| `pay`, `payFor`, `charge` | checkouts of offers; what the customer did on their pages |

| action | code |
|---|---|
| `BeginSale`, `CommitSale`, `RollBackSale` | an agent's sale or a confirmation with `recordDailyPurchase`, at READ COMMITTED: its read, its write |
| `WalletSale` | the same in a SERIALIZABLE wallet purchase: one step |
| `Look`, `Normal` | `normalizeCustomerOffers`, which every listing and reservation begins with |
| `Reserve`, `Decline`, `DeclineAsGuest`, `BeginRelease`, `Release` | `JackpotOffersService` |
| `Checkout`, `PaymentFails`, `ConfirmPayment`, `ReviewPayment` | the payment of an offer in `initiatePurchase` and the confirmation |
| `BuyFromWallet` | the offer branch of `WalletTicketPurchaseService.purchase` |

`sold` counts, for the property alone, the tickets of the sales that began or ended in a week.
The updates of `normalizeCustomerOffers` are one step, though they are separate READ COMMITTED
statements: what each asks of the offer's own row PostgreSQL tests again on the locked row. What it asks of
the payments may be old by then; the model has that window in `BeginRelease`, `Release` only.

### AgentMoney and the code

| variable | code |
|---|---|
| `row`, `commissions`, `settledBy`, `credits` | `remittances.status` and the three journals a row links to |
| `receivable`, `wallet`, `bank` | balances of the agent's accounts and of the bank clearing account |
| `closed`, `worker` | the last business day that is over; the worker process |
| `reading` | announcements that have found a row open and not yet written |

| action | code |
|---|---|
| `Sweep`, `MarkOverdue` | `RemittanceSweepService.tick`, `RemittanceDeadlineService` |
| `BeginConfirm`, `ConfirmPayment` | `AgentRemittanceService.confirmPayment`: its read, its unconditional update |
| `SettleFromWallet`, `SettleBank` | `AgentAccountingService.settleRemittanceFromWallet`, `settleBankRemittance` |
| `Recover` (`CreditNegative`, `EnsureCommission`) | `AgentRemittanceAccountingRecoveryService` |
| `Sell`, `PayPrize`, `SetWalletStatus` | the wallet side of `AgentSalesService.sell`, `AgentPrizesService.logPayment`, the wallet's freeze and close |

The commission is truncated to whole naira as in the code. The balances are not counted
by the model's links: each action changes them as its journal does, and `BooksAgree` is
what compares the two.

### Funding and Treasury and the code

| variable | code |
|---|---|
| `funding`, `gateway`, `page` | `wallet_fundings.status`, `gateway`; the checkout page |
| `charge` | the transactions at the provider; one reference may have several at Flutterwave |
| `call` | what a webhook, a status page or Finance has heard, and will confirm |
| `wallet`, `clearing` | the balance these fundings made, the provider clearing account |
| `batch`, `settlement`, `fetched` | the provider's settlement, its row with what was posted, a synchronisation's list |
| `run`, `certified` | a reconciliation at work; for the property alone, what clean runs vouched for |

| action | code |
|---|---|
| `Initiate`, `PageOpens`, `InitiationFails` | `WalletFundingService.initiateForOwner` |
| `Ask`, `Confirm` | the verification calls; `confirmVerified` under the funding's lock |
| `Fetch`, `StoreFlutterwave`, `IngestMonnify` (`Store`, `MayPost`) | `TreasurySettlementService`, the upsert and the journal |
| `StartRun`, `FetchList`, `FetchFailed`, `Compare`, `EndRun` | `TreasuryReconciliationService` with the provider's lists |
| `RunEnds`, `SyncFails`, `Hangs` | errors and restarts |

## 3. What is checked

Twelve runs. Each property of a passing run has a mutant in `PROJECT.json`: a small change
of the model, of a kind that a bug in the code could be, that breaks it.

| run | result | shows |
|---|---|---|
| `DrawEngineRace` | holds | two engines, an administrator, a gateway ticket, an agent ticket, an entry, one fault, one edit: `NoLockedSaleLeftOut`, `OneWinner`, `CommitThenReveal`, `NeverReopened` |
| `DrawEngineEnds` | holds | two draws, two tickets, one fault: `SoldDrawEnds`, and the system implements `Raffle` |
| `WalletCustomer` | holds | a deposit, a purchase and two holds of which the deposit covers one, a release and a capture that compete, freezing, closing: `NeverOverdrawn`, `HeldIsOutstanding`, `ClosedIsEmpty`, and the wallet implements `Account` |
| `WalletMixed` | violated | an agent sale (READ COMMITTED) and a remittance settlement (SERIALIZABLE) overdraw the wallet together |
| `PrizePayouts` | holds | choices written however late, the sweep, an agent, two bank attempts, lost calls, late answers, returns, restarts: `GivenOnceUnlessOverwritten`, `FailureIsConclusive`, `BooksAgree`, `FinalStays`, and the claim implements `Prize` |
| `PrizeRecovery` | holds | a payout after one or two identity checks beside two clerks: `PaymentRecorded`, `CollectedOnce` |
| `PrizeTwoChannels` | violated | `PrizeGivenOnce`: a late choice reopens a claim that an agent has paid, and a clerk hands the prize over again |
| `PurchaseRefund` | holds | one payment with each provider, flawed or not, to its refund: `TicketPaidFor`, `DrawIsSettled`, `BooksAgree`, `RefundMatchesProvider`, `RefundRecorded` |
| `Beneficiary` | holds | two claims, two banks, three checks each, two codes: `MoneyKeepsItsAccount`, `PaidToVerified`, `ClearedOnEvidence`, `ChangesAuthorised`, `OneClient`, `DestinationStays` |
| `JackpotOffers` | holds | three sales over two weeks, two checkouts and the wallet: `OffersAreEarned`, `OneTicketPerOffer`, `OneRail`, `FinalStays` |
| `AgentMoney` | holds | four days, two announcements, a sale, a prize, a worker that stops: `BooksAgree`, `ClearedIsNotOwed`, `ClearedOnce`, `ScheduledWorkDone` |
| `Collections` | holds | two fundings, three transactions, two callers, a settlement or a reconciliation: `CreditIsBacked`, `ClearingTraceable`, `CleanRunHolds`, `CreditStays` |

### Bounds

- `DrawEngine`: a draw needs three instants (`MaxTime` 2) to be open, closed and due at
  different times; every property relates at most two engines, two tickets and one draw,
  and two engines are what a deploy runs. Two draws show whether one starves the other.
  `MaxEdits` bounds the edits of a draw, `MaxFaults` crashes and failed statements together.
  That a finite number of faults is assumed is what "the database is back" means.
- `Wallet`: one wallet, since no request reads two; three connections, since a conflict
  needs two and a third shows that two aborts do not combine into a missed one. A request
  can be begun again at any time, so retries are unbounded and no counter is needed.
- `PrizeClaim`: one claim, since no step reads two. A retry looks at the latest attempt only
  and `MaySucceed` at all others, so two attempts show every effect of one. Two
  unapplied answers give every order of two; `PrizeRecovery` has room for all five, so that
  its fairness never meets the bound. A third clerk would meet a row that is already marked,
  and so would a second agent as long as no choice is written over the payment; what happens
  then is the violation below, and the properties say what is left. `MaxOverwrites` bounds how
  often a choice is written over the claim's progress. One such write is enough in
  `PrizePayouts`: `overwritten` never falls, and the properties only ask whether it is zero.
  `PrizeRecovery` has none, for its size; `CollectedOnce` is proved with any number, and
  without agents TLC finds no error in the same run with `MaxOverwrites` 1 and one identity
  check. `MaxIdentityChecks` is 3 in the code; the second one, which replaces a
  verified account, is in `PrizeRecovery`. `PrizePayouts` has no clerks, so its `VIEW` leaves out
  the redemption code, which enables and decides nothing there.
- `Purchase`: one payment and one ticket, since no step reads two; two refund calls that
  fail, so that a refresh fails after the initiation did. Everything else is finite by itself.
- `Beneficiary`: two claims are needed for a change of bank behind the back of another
  claim, two banks for a change and its undoing; `MaxTries` is the code's. Two codes are two
  changes; the third one the code allows within an hour would need a third bank to differ.
- `Jackpot`: three sales of one or two tickets reach two thresholds (`PerOffer` 3,
  `MaxThreshold` 2) and overlap in every way; two jackpots show a change of week and what is
  left behind; two checkouts and the wallet are the rails.
- `AgentMoney`: a day for each sign of what is due, one before `Cutover`, and days on both
  sides of another while the worker is down. Two announcements: the second one is written
  over what was settled after the first.
- `Collections`: two callers make one answer old; two transactions of one funding are a
  failed attempt and a second one, the third belongs to the other funding. Two
  synchronisations store in either order. `Apart` leaves out behaviours in which a
  settlement and a reconciliation take place beside each other: neither reads or writes
  what the other writes.

Deadlock is checked except in the four runs with `CHECK_DEADLOCK FALSE` that end when all
is paid, refunded, redeemed or settled, and in `Beneficiary`, where a customer may run out of tries.

### What the runs say of the code

`WalletMixed` has one cause: `AgentSalesService.sell` opens its transaction without an
isolation level (`agent-sales.service.ts` 97). `settleRemittanceFromWallet` begins, the
sale commits, the settlement gets the lock on a row that nobody updated and reads the
old balance; the trigger that checks balances at commit reads the same snapshot.
`NeverOverdrawn` therefore speaks of wallets whose debits all run at one level
(`OneLevel`); that is every customer's wallet.

`PrizeTwoChannels` has two causes, and its trace needs both. `choose` tests the status in one
statement (`claims.service.ts` 117) and writes in another that does not (130). A winner's
choice is read, an agent pays, the choice is written: CASH_PAID is SELECTION_MADE again, and
the claim is checked, approved and given a code as if nobody had paid it. Then the clerk's
hand-over is guarded by `redeemedAt` alone (`redemption.service.ts` 274), and the prize is
given twice. After the same write a second agent could pay as well, since `logPayment`
tests the status only, or the sweep could forfeit the paid claim; and a choice written over
FORFEITED takes the forfeiture back. The second cause does harm without the first where
the bank takes the agent's place (`Agents = {}` shows it): neither the desk nor
`reserveAttempt` looks at the other.

The properties of `PrizePayouts` hold with the unguarded write among the actions, and so they
say in what it ends. Whatever is written: the bank pays at most once, a payout stands in
the ledger exactly while its attempt succeeded, a claim that reads CASH_PAID was paid, and
the forfeiture of a claim without a transfer is undone by such a write alone. Everything else
is promised as long as `overwritten` is zero.

The passing runs contain these further faults of the code, as actions they take. What
holds, holds with them; the stronger statement that each breaks is not made:

- an agent's ticket is issued after the close, the draw or a cancellation
  (`agent-sales.service.ts` 48-66, 97): `NoLockedSaleLeftOut` is about the other channels;
- `DrawsService.cancel` (220) and `update` (177) write what an old read allowed: a
  refunded ticket of the locked pool can win, a draw can be cancelled and have a result;
- a Paystack refund gets no accrual and its settlement throws, so that it is
  never recorded as paid (`payment-refund.service.ts` 517): `RefundRecorded` is about the others;
- an abandoned Paystack or Monnify page is a failure, and the payment made on it later is
  ignored; a checkout's failure is written whatever the status is (`payments.service.ts` 190);
  a webhook's errors are swallowed and its payment waits for a poll;
- a change of bank strands the verified check of another claim
  (`paystack-identity-webhook.service.ts` 378); a check in PREPARING or UNKNOWN holds a
  claim up until someone starts another; a grant consumed by a start that rolls back is lost;
- two first sales of a week, one count: an offer that was earned is not unlocked
  (`jackpot-accumulation.service.ts` 61);
- the announcement of a transfer is written over a settlement: the row reads
  AGENT_CONFIRMED for good (`agent-remittance.service.ts` 91), but no money moves twice;
- the sweep looks at the last closed day only: a worker that is down across two closes
  misses a day, although the comment at `remittance-sweep.service.ts` 34-35 promises otherwise;
  `RolledUp` says what remains true;
- a funding ended by the failure of a first attempt is not credited when the second one
  pays (`wallet-funding.service.ts` 639): the next reconciliation reports it.

Two known faults are kept out of a passing run of `PrizeClaim`, each by one named condition. No Monnify
among the providers: its "unknown reference" is taken for a failure while the call is
still on its way, and a retry pays twice. No clerks where there are payouts, beyond the
properties that hold of both.

Faults of the surroundings that no module has: the recovery loop of the payouts takes the 50
oldest and can be filled by attempts that never end; a returned transfer whose webhook is
lost is never asked about again; `mirrorCurrentAttempt` may leave an old summary on the
claim (in the model, without a property); a restart between approval and
`issueRedemptionCode` leaves no code (likewise); `getVerification` rebuilds the pool from
the tickets as they are now; the winner's message is enqueued after the commit; the
daily reconciliation of a process that died stays RUNNING; the sealing of the audit log
leaves out what is committed late.

### Fairness

`DrawEngine`: the loops run on `setInterval` (15 s and 30 s) and skip a tick only while the
previous one is running: weak fairness of each loop of each engine, and of the clock.
`PrizeClaim`: `PrizePayoutRecoveryService` asks about every open attempt every five
minutes and applies the answer in the same iteration: strong fairness of asking and of
applying each conclusive answer, because a restart can disable both again and again; it
says that not every iteration is interrupted and the provider does not fail for ever. No webhook is relied on.
`Purchase`: Finance refreshes a refund until it has ended, and requests end: weak
fairness of `Refresh` and of applying each answer; nothing of the customer, the provider or the webhooks.
`AgentMoney`: the recovery runs every five minutes (weak, of each day's recovery); the worker
is started again when it stops and sweeps as it starts: weak fairness of the start, strong
of the sweep, since stopping disables it.
Nothing is assumed of administrators, customers, agents, crashes and failures, and nothing at
all in `Wallet`, `Beneficiary`, `Jackpot` and `Treasury`, which promise no liveness: their
clients decide whether to try again.

## 4. What is proved

Each proof is for every value of the constants under the module's named assumption. None
of the properties below is inductive; the invariant `IInv` of each module is the strengthening.

`DrawEngineProofs` (from `SetsAssumption`, `BoundsAssumption`): `Typing`, `Invariance`, and from
it `NoSaleBeforeCommitment`, `ExecutionIsExclusive`, `EveryLockedSaleIsDrawn`,
`WinnersArePublished`, `CommitmentIsRevealed`, `SalesNeverReopen`, and the refinements
`EngineImplementsRaffle` and `EngineKeepsTicketOrders`. A ticket follows a commitment only because a lifecycle tick that
has not yet written its transition already saw it (`SeedInv`). Two engines exclude each
other because one that works on a draw implies that the draw has left the sales states for
good (`ExecInv`). A complete pool needs that the pool held in memory already misses no
live ticket (`PoolInv`). The winner is unique because a refund only expires what it
quarantined (`TicketInv`, `WinnerInv`). A gateway ticket that is not in a frozen pool is
not live, so a result that is published without it takes nothing from its owner
(`OrderPublished`). One lemma per conjunct, split by action, over two lemmas
that say what any step may do to a draw (`StatusWrite`) and to a unit (`UnitStep`).

`WalletProofs` (from `DetailsAssumption`): `WalletTyping`, `NoOverdraft`, `ClosingIsFinal`,
`HeldMoneyIsOutstanding`, `HoldsResolveOnce`, `FreezingHolds`, and `WalletIsAnAccount`, the refinement of `Account`.
A debit decides on a snapshot, so `SnapInv` says how a snapshot can differ from the
tables: the status not at all, unless the row was updated; the balance only upwards,
unless a serializable debit was missed; and, unless a serializable movement was missed,
only by agent sales, which overdraw nothing. Each exclusion is one that `MayCommit` turns
into an abort (`ViewIsCurrent`). The held balance is proved to be a sum without adding up:
it is the number of naira under hold, of which each belongs to one hold (`HeldInv`).

`PrizeClaimProofs` (from `PrizeAssumption`), all of `Spec`, in which a choice may be written at any time:
`PrizeTyping`, `AttemptsInOrder`, `PrizeCollectedOnce`, `PrizePostedOnce`, `BeneficiaryKept` and
`ForfeitsUnpaid`; without Monnify, `FailuresConclusive`; without clerks, `PrizeBooksAgree` and
`PrizeFinalStays`; without Monnify, and without clerks or without payouts,
`PrizeReachesWinnerOnce`; and without Monnify and without clerks the refinement of `Prize`,
`ClaimImplementsPrize`. What each says of the time after a choice was written over the claim's
progress is part of the property: no theorem assumes that it does not happen. `OrderInv`: every
attempt before the latest has failed or been reversed. `KnownInv`: what is recorded of a
transfer, or waits in memory to be recorded, as failed or returned is true for good. So
only the latest transfer can be paid. `StageInv`: money goes out only on a
verified check, and, as long as no choice was written over the claim's progress (`Exclusive`), an
agent pays only what no channel has touched.
`LedgerInv`, `PaidInv` and `OneOpen` tie ledger, claim and attempts together. For the
refinement, `HeardInv`: what waits to be recorded as paid was paid, though it may have come back since.

`PurchaseProofs` (from `PurchaseAssumption`): `Typed`, `TicketsArePaidFor`, `DrawSettled`,
`PurchaseBooksAgree`, `RefundsMatchTheProvider`, `PurchaseKeepsTicketOrder`. `ChargeInv`: a verification that waits to be
applied as paid in time was so, and stays so. `DecisionInv`: what is undecided has left no
trace, so a late answer finds either nothing or a decision. `RefundInv`: the answers that
wait agree with what the provider did, and a refund nobody asked for has no call.
`TicketInv`: while a draw is open a confirmed payment has its ticket, hence it is in the pool, and it is live until the result is published.

`BeneficiaryProofs` (from `BeneficiaryAssumption`): `BeneficiaryTyped`, `MoneyStays`,
`PaidOnEvidence`, `ClearedProperly`, `ChangesHaveCodes`, `ClientIsUnique`, `DestinationIsKept`. The
properties support each other: the account is not replaced under a payout because the
identity event tests again what the start tested days before; `DestinationInv` and
`ClientInv` are the rest.

`JackpotProofs` (from `JackpotAssumption`): `JackpotTyped`, `OffersEarned`, `OfferRedeemedOnce`,
`OfferOnOneRail`, `EndedOffersStay`. A sale writes a count it read earlier, in a week that may be
over. `CountInv`: if it adds to the count of the current jackpot, what it has read was
sold in it. `EarnedInv`: offers of a week are within what was sold in it. `AttemptInv`: at most one
payment of an offer is active, which is what excludes the second rail.

`AgentMoneyProofs` (from `AgentMoneyAssumption`): `RemittancesTyped`, `NothingOwedTwice`,
`DaysClearedOnce`, `AgentBooksAgree`. `RowInv`: a day without a row has no record of a settlement or a credit, and
requests hold only days that have a row. The record, and not the status an announcement may
have overwritten, is what keeps a second settlement out. `SignInv`: what is credited is
negative and what is settled is positive, so the recovery and Finance never meet at one day.
`ClearsOne` says what any step may do to the records of all days. The books are sums over days,
by the library's fold over a set, which is a choice of a recursive function: that there is only
one such function is shown by a smallest set on which two would differ (`SumsUnique`, from
the library's theorem that finite sets are well-founded under strict inclusion), and then that a sum
over a set is the sum without one element plus that element (`TotalWithout`, `TotalPlus`). `ClosedInv`:
only a day that is over has a row, so a commission is posted within the days the receivable sums over.

`TreasuryProofs` (from `FundingAssumption`): `CollectionsTyped`, `CreditsAreBacked`, `ClearingTraced`,
`CleanRunsHold`, `CreditsStay`.
`HeardInv`: a caller who heard that a funding is paid heard the truth, and a payment stays
true while the caller waits. `PageInv`: nothing is paid on a page that was never shown, so the
unguarded failure of an initiation overwrites nothing. `RunInv`: the list a run compares tells the
truth of what is paid, and what it compared without an issue is credited; both survive
all that happens to the fundings meanwhile (`Grows`). `SettledInv`: a completed settlement grows no
more and news of one tells what it contains, so what is posted is what it will always contain;
what is settled, of which amount, is counted as pairs of settlement and transaction.

Only model-checked are the four liveness properties (`SoldDrawEnds`, `PaymentRecorded`, `RefundRecorded`,
`ScheduledWorkDone`), for which TLAPS has no backend. Every other property of a run is stated by a
theorem. The hypotheses a theorem has beside its module's assumption are those of the
code's known faults: `ConclusiveProviders` and `NoDesk` or `OneChannel` in `PrizeClaim`, the conditions
of section 3, and `OneLevel` in `Wallet`. Only proved, since the run shows more than they say, are
`ForfeitsUnpaid`, `BeneficiaryKept` and `PrizePostedOnce` of a claim and the two refinements of `TicketOrder`.

## 5. Not modelled

- Draw mathematics: Merkle root and rejection sampling are pure functions of hashes.
- Sign-in and sessions: checks of one caller's credentials. What they protect is modelled
  as if every caller were allowed to call.
- Migration and rollout tooling: by far the largest files of the API (some 7 000
  lines), run by hand against a frozen system, mostly read-only comparisons.
- Web and mobile clients and the API client: more than a third of the lines; no authoritative state.
- Notifications, documents, receipts, listings and dashboards.
- Treasury: bank balances and snapshots, the resolution of issues, fees and chargebacks.
- Witmango: the inspection of withdrawals; their execution is not written in the code yet.
- Prize claims: booking and delivery of product prizes, wrong guesses of a code, tax certificates.
- The audit log's checkpoints.

## 6. Plan

1. The audit log and its seal, with sequence numbers that are committed out of order.
2. Sign-in: the rotation of refresh tokens beside their replay.
3. The books of a prize that can be collected as well as transferred (`BooksAgree` with clerks).
