------------------------------ MODULE PrizeClaim ------------------------------
(***************************************************************************)
(* One prize claim, from the notice to the winner to the payment. Three    *)
(* channels can give the prize: an agent pays cash from the till, an       *)
(* administrator orders bank transfers from a payout provider, a clerk     *)
(* hands it over at a collection point against a code.                     *)
(*                                                                         *)
(* A transaction that locks or updates the claim's row under SERIALIZABLE  *)
(* is one step. Requests that read in one statement and write in a later   *)
(* one keep what they read in a variable, and so do answers of a provider  *)
(* that have been received and not yet applied.                            *)
(***************************************************************************)
EXTENDS Integers, FiniteSets

CONSTANTS
    Agents,             \* agents who may pay the prize: each at most once
    Clerks,             \* staff of collection points
    Providers,          \* payout providers configured
    MaxAttempts,        \* bound on payout attempts
    MaxIdentityChecks,  \* identity checks a claim may have: 3 in the code
    MaxAnswers,         \* bound on provider answers received and not yet applied
    MaxOverwrites       \* bound on choices written over the claim's progress

ASSUME PrizeAssumption ==
    /\ Providers \subseteq {"MONNIFY", "FLUTTERWAVE", "PAYSTACK"}
    /\ MaxAttempts \in Nat /\ MaxIdentityChecks \in Nat /\ MaxAnswers \in Nat
    /\ MaxOverwrites \in Nat

VARIABLES
    status,     \* prize_claims.status
    option,     \* prize_claims.claimType
    window,     \* which of the claim's two deadlines have passed
    identity,   \* status of the latest identity check
    checks,     \* number of identity checks
    code,       \* a redemption code has been issued
    issuing,    \* an approval has committed and its code is still to be issued
    paidBy,     \* agents who paid: paidByAgentId is set when there is one
    handedBy,   \* clerks who handed over: redeemedAt is set when there is one
    mirror,     \* prize_claims.payoutStatus
    last,       \* number of the latest payout attempt
    attempt,    \* prize_payout_attempts.status
    provider,   \* prize_payout_attempts.provider
    posted, reversed,   \* attempts whose payout, whose reversal is in the ledger
    calls,      \* initiations that may still reach the provider
    transfer,   \* what the provider has done: the truth the attempts follow
    choosing, handing, sweeping,   \* requests that have read and not yet written
    answers, mirroring, mirrors,   \* provider answers and summaries under way
    overwritten \* history, no column: how often an option was written to a claim no longer
                \* open to a choice and took its status back; no guard but the bound reads it

claimVars   == <<status, option, window, identity, checks, code, paidBy, handedBy,
                 overwritten>>
ledgerVars  == <<posted, reversed>>
attemptVars == <<last, attempt, provider>>
bankVars    == <<calls, transfer>>
memory      == <<issuing, choosing, handing, sweeping, answers, mirroring, mirrors>>
vars == <<claimVars, mirror, ledgerVars, attemptVars, bankVars, memory>>

Attempts == 1 .. MaxAttempts
Options  == {"CASH", "PRODUCT"}
Statuses == {"NOTIFIED", "SELECTION_MADE", "KYC_PENDING", "KYC_CLEARED",
             "CASH_PAID", "DELIVERED", "FORFEITED"}

\* REQUESTED, and the three statuses the code treats alike: SUBMITTED, PROCESSING, UNKNOWN.
NonTerminal == {"REQUESTED", "PROCESSING"}
AttemptStatuses == NonTerminal \cup {"NONE", "SUCCEEDED", "FAILED", "REVERSED"}
AnswerStatuses  == {"PROCESSING", "MISMATCH", "SUCCEEDED", "FAILED", "REVERSED"}
TransferStates  == {"NONE", "PENDING", "PAID", "FAILED", "RETURNED"}

Choosable     == {"NOTIFIED", "SELECTION_MADE"}
AgentPayable  == {"NOTIFIED", "SELECTION_MADE"}

Init ==
    /\ status = "NOTIFIED" /\ option = "NONE" /\ window = "SELECTION"
    /\ identity = "NONE" /\ checks = 0 /\ code = FALSE /\ issuing = FALSE
    /\ paidBy = {} /\ handedBy = {} /\ overwritten = 0
    /\ mirror = "NONE" /\ last = 0
    /\ attempt = [n \in Attempts |-> "NONE"] /\ provider = [n \in Attempts |-> "NONE"]
    /\ posted = {} /\ reversed = {}
    /\ calls = {} /\ transfer = [n \in Attempts |-> "NONE"]
    /\ choosing = {} /\ handing = {} /\ sweeping = "NONE"
    /\ answers = {} /\ mirroring = {} /\ mirrors = {}

-----------------------------------------------------------------------------
(* Deadlines, and the sweep that forfeits abandoned claims *)

\* The selection deadline passes, then the claim deadline.
Deadline ==
    /\ \/ window = "SELECTION" /\ window' = "CLAIM"
       \/ window = "CLAIM" /\ window' = "CLOSED"
    /\ UNCHANGED <<status, option, identity, checks, code, paidBy, handedBy, mirror, overwritten,
                   ledgerVars, attemptVars, bankVars, memory>>

Expired ==
    \/ status = "NOTIFIED" /\ window # "SELECTION"
    \/ status \in {"SELECTION_MADE", "KYC_PENDING"} /\ window = "CLOSED"

\* ClaimsSweepService.tick finds the claim expired.
Sweep ==
    /\ sweeping = "NONE" /\ Expired
    /\ sweeping' = status
    /\ UNCHANGED <<claimVars, mirror, ledgerVars, attemptVars, bankVars,
                   issuing, choosing, handing, answers, mirroring, mirrors>>

\* (A sweep that trusts what it read:)
SweptOnce    == sweeping # "NONE"
StillAsSwept == status = sweeping

\* forfeit: an update guarded by the status the sweep read.
Forfeit ==
    /\ sweeping # "NONE"
    /\ sweeping' = "NONE"
    /\ status' = IF StillAsSwept THEN "FORFEITED" ELSE status
    /\ UNCHANGED <<option, window, identity, checks, code, paidBy, handedBy, mirror, overwritten,
                   ledgerVars, attemptVars, bankVars,
                   issuing, choosing, handing, answers, mirroring, mirrors>>

-----------------------------------------------------------------------------
(* The winner chooses an option and proves who they are *)

\* choose: the claim is read and tested...
ReadChoosable(t) ==
    /\ status \in Choosable /\ window = "SELECTION"
    /\ choosing' = choosing \cup {t}
    /\ UNCHANGED <<claimVars, mirror, ledgerVars, attemptVars, bankVars,
                   issuing, handing, sweeping, answers, mirroring, mirrors>>

\* ...and updated by its key alone, whatever its status is by then.
WriteChoice(t) ==
    /\ t \in choosing
    /\ choosing' = choosing \ {t}
    /\ option' = t /\ status' = "SELECTION_MADE"
    /\ IF status \in Choosable THEN UNCHANGED overwritten
       ELSE overwritten < MaxOverwrites /\ overwritten' = overwritten + 1
    /\ UNCHANGED <<window, identity, checks, code, paidBy, handedBy, mirror,
                   ledgerVars, attemptVars, bankVars,
                   issuing, handing, sweeping, answers, mirroring, mirrors>>

\* A first check or one after a failure; or, once cleared, the replacement of a
\* verified bank account nothing has been paid to.
MayStartCheck ==
    \/ status \in {"SELECTION_MADE", "KYC_PENDING"} /\ identity \in {"NONE", "FAILED"}
    \/ /\ status = "KYC_CLEARED" /\ identity = "VERIFIED"
       /\ mirror = "NONE" /\ paidBy = {} /\ last = 0

ChecksLeft   == checks < MaxIdentityChecks

StartIdentityCheck ==
    /\ option = "CASH" /\ window # "CLOSED"
    /\ MayStartCheck /\ ChecksLeft
    /\ status' = "KYC_PENDING" /\ identity' = "PENDING" /\ checks' = checks + 1
    /\ UNCHANGED <<option, window, code, paidBy, handedBy, mirror, overwritten,
                   ledgerVars, attemptVars, bankVars, memory>>

\* The identity provider's webhook: duplicates and conflicting outcomes change nothing.
IdentityOutcome(outcome) ==
    /\ option = "CASH" /\ status = "KYC_PENDING" /\ identity = "PENDING"
    /\ identity' = outcome
    /\ UNCHANGED <<status, option, window, checks, code, paidBy, handedBy, mirror, overwritten,
                   ledgerVars, attemptVars, bankVars, memory>>

AwaitsReview == status = "KYC_PENDING" /\ option # "NONE" /\ identity = "VERIFIED"

\* reviewKyc, approving; the code is issued after the commit, outside the request.
Approve ==
    /\ AwaitsReview
    /\ status' = "KYC_CLEARED"
    /\ issuing' = TRUE
    /\ UNCHANGED <<option, window, identity, checks, code, paidBy, handedBy, mirror, overwritten,
                   ledgerVars, attemptVars, bankVars,
                   choosing, handing, sweeping, answers, mirroring, mirrors>>

\* issueRedemptionCode: refused when the claim has a code already.
IssueCode ==
    /\ issuing
    /\ issuing' = FALSE /\ code' = TRUE
    /\ UNCHANGED <<status, option, window, identity, checks, paidBy, handedBy, mirror, overwritten,
                   ledgerVars, attemptVars, bankVars,
                   choosing, handing, sweeping, answers, mirroring, mirrors>>

-----------------------------------------------------------------------------
(* Cash: an agent, or a clerk at a collection point *)

\* AgentPrizesService.logPayment, after the agent has given the winner the cash.
AgentPays(a) ==
    /\ a \notin paidBy
    /\ status \in AgentPayable
    /\ status' = "CASH_PAID" /\ option' = "CASH"
    /\ paidBy' = paidBy \cup {a}
    /\ UNCHANGED <<window, identity, checks, code, handedBy, mirror, overwritten,
                   ledgerVars, attemptVars, bankVars, memory>>

\* confirmHandover first verifies: the claim's option goes with the clerk...
Verify(k) ==
    /\ \A t \in Options : <<k, t>> \notin handing
    /\ status = "KYC_CLEARED" /\ handedBy = {} /\ window # "CLOSED" /\ code
    /\ handing' = handing \cup {<<k, option>>}
    /\ UNCHANGED <<claimVars, mirror, ledgerVars, attemptVars, bankVars,
                   issuing, choosing, sweeping, answers, mirroring, mirrors>>

\* (Without the guard:)
Verified     == TRUE
NotCollected == handedBy = {}

\* ...and then marks the prize collected, guarded by redeemedAt alone.
HandOver(k, t) ==
    /\ <<k, t>> \in handing
    /\ handing' = handing \ {<<k, t>>}
    /\ IF NotCollected
       THEN /\ handedBy' = handedBy \cup {k}
            /\ status' = IF t = "PRODUCT" THEN "DELIVERED" ELSE "CASH_PAID"
       ELSE UNCHANGED <<handedBy, status>>
    /\ UNCHANGED <<option, window, identity, checks, code, paidBy, mirror, overwritten,
                   ledgerVars, attemptVars, bankVars,
                   issuing, choosing, sweeping, answers, mirroring, mirrors>>

-----------------------------------------------------------------------------
(* Bank payouts: an administrator reserves an attempt and submits it *)

\* A first attempt, or a retry of one that failed or was reversed. (Or is in doubt:)
MayReserveInDoubt ==
    IF last = 0 THEN mirror = "NONE"
    ELSE attempt[last] \in {"PROCESSING", "FAILED", "REVERSED"} /\ mirror = attempt[last]

MayReserve ==
    IF last = 0 THEN mirror = "NONE"
    ELSE attempt[last] \in {"FAILED", "REVERSED"} /\ mirror = attempt[last]

\* reserveAttempt, after which startAttempt calls the provider.
Reserve(p) ==
    /\ last < MaxAttempts
    /\ option = "CASH" /\ status = "KYC_CLEARED" /\ identity = "VERIFIED"
    /\ paidBy = {} /\ MayReserve
    /\ last' = last + 1
    /\ attempt' = [attempt EXCEPT ![last + 1] = "REQUESTED"]
    /\ provider' = [provider EXCEPT ![last + 1] = p]
    /\ mirror' = "REQUESTED"
    /\ calls' = calls \cup {last + 1}
    /\ UNCHANGED <<claimVars, ledgerVars, transfer, memory>>

\* The call reaches the provider, which accepts or rejects the transfer. A lost call
\* stays in calls.
Arrive(n, s) ==
    /\ n \in calls
    /\ calls' = calls \ {n}
    /\ transfer' = [transfer EXCEPT ![n] = s]
    /\ UNCHANGED <<claimVars, mirror, ledgerVars, attemptVars, memory>>

\* The provider's own steps: a transfer is paid or fails; a paid one may come back.
Settle(n, s) ==
    /\ \/ transfer[n] = "PENDING" /\ s \in {"PAID", "FAILED"}
       \/ transfer[n] = "PAID" /\ s = "RETURNED"
    /\ transfer' = [transfer EXCEPT ![n] = s]
    /\ UNCHANGED <<claimVars, mirror, ledgerVars, attemptVars, calls, memory>>

\* What a provider may answer about a transfer. Any question may fail or come back
\* inconclusive; Monnify answers one about a transfer it does not know with D02,
\* which the code takes for a failure. (As if every provider's code did:)
UnknownIsFailed(n) ==
    {"PROCESSING"} \cup
    CASE transfer[n] = "NONE"     -> {"FAILED"}
      [] transfer[n] = "PENDING"  -> {}
      [] transfer[n] = "PAID"     -> {"SUCCEEDED", "MISMATCH"}
      [] transfer[n] = "FAILED"   -> {"FAILED"}
      [] transfer[n] = "RETURNED" -> {"REVERSED"}

MayAnswer(n) ==
    {"PROCESSING"} \cup
    CASE transfer[n] = "NONE"     -> IF provider[n] = "MONNIFY" THEN {"FAILED"} ELSE {}
      [] transfer[n] = "PENDING"  -> {}
      [] transfer[n] = "PAID"     -> {"SUCCEEDED", "MISMATCH"}
      [] transfer[n] = "FAILED"   -> {"FAILED"}
      [] transfer[n] = "RETURNED" -> {"REVERSED"}

Ask(n, a) ==
    /\ a \in MayAnswer(n) /\ Cardinality(answers) < MaxAnswers
    /\ answers' = answers \cup {<<n, a>>}
    /\ UNCHANGED <<claimVars, mirror, ledgerVars, attemptVars, bankVars,
                   issuing, choosing, handing, sweeping, mirroring, mirrors>>

\* (Forgetting the attempts whose initiation was never answered:)
Answered(n)    == attempt[n] = "PROCESSING"
Recoverable(n) == attempt[n] \in NonTerminal

\* The recovery loop, an administrator's refresh, or the answer to the initiation.
Refresh(n, a) == Recoverable(n) /\ Ask(n, a)

\* A provider's webhook, which may come at any time: the provider is asked back.
Webhook(n, a) == n <= last /\ Ask(n, a)

-----------------------------------------------------------------------------
(* PrizePayoutAttemptFinalizationService.applyForAttempt *)

\* (Without the status of the attempt:)
MaySucceedLate(n) ==
    /\ status # "CASH_PAID"
    /\ \A m \in Attempts \ {n} : attempt[m] # "SUCCEEDED"

MaySucceed(n) ==
    /\ attempt[n] \in NonTerminal
    /\ status # "CASH_PAID"
    /\ \A m \in Attempts \ {n} : attempt[m] # "SUCCEEDED"

\* markSucceeded
Succeed(n) ==
    /\ MaySucceed(n)
    /\ attempt' = [attempt EXCEPT ![n] = "SUCCEEDED"]
    /\ posted' = posted \cup {n}
    /\ status' = "CASH_PAID" /\ mirror' = "SUCCEEDED"
    /\ UNCHANGED <<reversed, mirroring>>

MayReverse(n) == attempt[n] \in NonTerminal \cup {"SUCCEEDED"}

\* (A payment that was never booked taken back too:)
AnyReversal(n) == {n}
Reversals(n)   == {n} \cap posted

\* markReversed: the claim is cleared for payout again.
BookReversal(n) ==
    /\ MayReverse(n)
    /\ attempt' = [attempt EXCEPT ![n] = "REVERSED"]
    /\ reversed' = reversed \cup Reversals(n)
    /\ status' = "KYC_CLEARED" /\ mirror' = "REVERSED"
    /\ UNCHANGED <<posted, mirroring>>

\* markFailed, markNonTerminal: the attempt is updated, its summary on the claim later.
Record(n, s) ==
    /\ attempt[n] \in NonTerminal
    /\ attempt' = [attempt EXCEPT ![n] = s]
    /\ mirroring' = mirroring \cup {n}
    /\ UNCHANGED <<status, mirror, ledgerVars>>

\* markVerificationMismatch: summarised even when the attempt is left as it is.
RecordMismatch(n) ==
    /\ attempt' = IF attempt[n] \in NonTerminal
                  THEN [attempt EXCEPT ![n] = "PROCESSING"] ELSE attempt
    /\ mirroring' = mirroring \cup {n}
    /\ UNCHANGED <<status, mirror, ledgerVars>>

Refused(n, a) ==
    \/ a = "SUCCEEDED" /\ ~MaySucceed(n)
    \/ a = "REVERSED" /\ ~MayReverse(n)
    \/ a \in {"FAILED", "PROCESSING"} /\ attempt[n] \notin NonTerminal

Apply(n, a) ==
    /\ <<n, a>> \in answers
    /\ answers' = answers \ {<<n, a>>}
    /\ \/ a = "SUCCEEDED" /\ Succeed(n)
       \/ a = "REVERSED" /\ BookReversal(n)
       \/ a \in {"FAILED", "PROCESSING"} /\ Record(n, a)
       \/ a = "MISMATCH" /\ RecordMismatch(n)
       \/ Refused(n, a) /\ UNCHANGED <<status, mirror, ledgerVars, attempt, mirroring>>
    /\ UNCHANGED <<option, window, identity, checks, code, paidBy, handedBy, overwritten,
                   last, provider, bankVars, issuing, choosing, handing, sweeping, mirrors>>

\* mirrorCurrentAttempt reads the latest attempt...
ReadLatest(n) ==
    /\ n \in mirroring
    /\ mirroring' = mirroring \ {n}
    /\ mirrors' = IF n = last THEN mirrors \cup {attempt[n]} ELSE mirrors
    /\ UNCHANGED <<claimVars, mirror, ledgerVars, attemptVars, bankVars,
                   issuing, choosing, handing, sweeping, answers>>

\* ...and copies what it read to the claim.
WriteMirror(s) ==
    /\ s \in mirrors
    /\ mirrors' = mirrors \ {s}
    /\ mirror' = s
    /\ UNCHANGED <<claimVars, ledgerVars, attemptVars, bankVars,
                   issuing, choosing, handing, sweeping, answers, mirroring>>

-----------------------------------------------------------------------------
\* The API and the worker restart: requests under way are lost, and with them any
\* initiations not yet on the wire.
Crash ==
    /\ issuing' = FALSE /\ choosing' = {} /\ handing' = {} /\ sweeping' = "NONE"
    /\ answers' = {} /\ mirroring' = {} /\ mirrors' = {}
    /\ calls' \in SUBSET calls
    /\ UNCHANGED <<claimVars, mirror, ledgerVars, attemptVars, transfer>>

Winner ==
    \/ \E t \in Options : ReadChoosable(t) \/ WriteChoice(t)
    \/ StartIdentityCheck
    \/ \E outcome \in {"VERIFIED", "FAILED"} : IdentityOutcome(outcome)

Staff ==
    \/ Approve \/ IssueCode
    \/ \E a \in Agents : AgentPays(a)
    \/ \E k \in Clerks : Verify(k)
    \/ \E k \in Clerks, t \in Options : HandOver(k, t)
    \/ \E p \in Providers : Reserve(p)

Bank ==
    \E n \in Attempts :
        \/ \E s \in {"PENDING", "FAILED"} : Arrive(n, s)
        \/ \E s \in {"PAID", "FAILED", "RETURNED"} : Settle(n, s)
        \/ \E a \in AnswerStatuses : Refresh(n, a) \/ Webhook(n, a) \/ Apply(n, a)
        \/ ReadLatest(n)

Next ==
    \/ Deadline \/ Sweep \/ Forfeit
    \/ Winner \/ Staff \/ Bank
    \/ \E s \in AttemptStatuses : WriteMirror(s)
    \/ Crash

Spec == Init /\ [][Next]_vars

\* The recovery loop asks about every open attempt every five minutes; the provider
\* answers truly now and then, and a request of the loop now and then survives.
Recovery ==
    \A n \in Attempts :
        /\ SF_vars(Refresh(n, "SUCCEEDED")) /\ SF_vars(Apply(n, "SUCCEEDED"))
        /\ SF_vars(Refresh(n, "REVERSED"))  /\ SF_vars(Apply(n, "REVERSED"))

LiveSpec == Spec /\ Recovery

-----------------------------------------------------------------------------
\* Types. At most MaxIdentityChecks checks: the third refusal sends the winner to support.
TypeOK ==
    /\ status \in Statuses /\ option \in Options \cup {"NONE"}
    /\ window \in {"SELECTION", "CLAIM", "CLOSED"}
    /\ identity \in {"NONE", "PENDING", "VERIFIED", "FAILED"}
    /\ checks \in 0 .. MaxIdentityChecks /\ code \in BOOLEAN /\ issuing \in BOOLEAN
    /\ paidBy \subseteq Agents /\ handedBy \subseteq Clerks
    /\ mirror \in AttemptStatuses /\ last \in 0 .. MaxAttempts
    /\ attempt \in [Attempts -> AttemptStatuses]
    /\ provider \in [Attempts -> Providers \cup {"NONE"}]
    /\ posted \subseteq Attempts /\ reversed \subseteq Attempts
    /\ calls \subseteq Attempts /\ transfer \in [Attempts -> TransferStates]
    /\ choosing \subseteq Options /\ handing \subseteq Clerks \X (Options \cup {"NONE"})
    /\ sweeping \in Statuses \cup {"NONE"}
    /\ answers \subseteq Attempts \X AnswerStatuses
    /\ mirroring \subseteq Attempts /\ mirrors \subseteq AttemptStatuses
    /\ overwritten \in 0 .. MaxOverwrites

\* Everything the winner has been given and has kept.
Given ==
    {<<"BANK", n>> : n \in {m \in Attempts : transfer[m] = "PAID"}}
        \cup {<<"AGENT", a>> : a \in paidBy} \cup {<<"DESK", k>> : k \in handedBy}

\* The prize reaches the winner at most once, by whichever channel. (The code does not
\* keep this: the write of a choice looks at no status, the hand-over at no other channel.)
PrizeGivenOnce == \A g, h \in Given : g = h

\* The bank pays the prize at most once, with retries and with answers that are late or
\* lost; and all channels together do, in whatever order they are tried, unless a choice
\* was written over the claim's progress (reserveAttempt, logPayment, choose).
GivenOnceUnlessOverwritten ==
    /\ \A m, n \in Attempts : transfer[m] = "PAID" /\ transfer[n] = "PAID" => m = n
    /\ overwritten = 0 => PrizeGivenOnce

\* A transfer recorded as failed or reversed has moved no money and never will: this is
\* what allows reserveAttempt to try again under a new reference.
FailureIsConclusive ==
    \A n \in Attempts :
        /\ attempt[n] = "FAILED" => transfer[n] = "FAILED" /\ n \notin calls
        /\ attempt[n] = "REVERSED" => transfer[n] = "RETURNED"

\* The ledger settles the winner's prize at most once: of the payouts at most one stands
\* in it, and none beside an agent's payment, unless a choice was written over the claim's
\* progress (ensurePrizeAccrual credits Prize Payable once).
PayableNeverOverdrawn ==
    /\ \A m, n \in posted \ reversed : m = n
    /\ paidBy # {} => posted \subseteq reversed \/ overwritten > 0

\* Some channel paid, and was not taken back.
Paid == paidBy # {} \/ handedBy # {} \/ \E n \in Attempts : attempt[n] = "SUCCEEDED"

\* Claim, attempts and ledger tell one story: a payout stands in the ledger exactly while
\* its attempt succeeded, and the claim reads CASH_PAID only if some channel paid. A claim
\* that was paid reads so too, unless a choice was written over its progress.
BooksAgree ==
    /\ \A n \in Attempts : n \in posted \ reversed <=> attempt[n] = "SUCCEEDED"
    /\ status = "CASH_PAID" => Paid
    /\ Paid => status = "CASH_PAID" \/ overwritten > 0

\* No new identity check is open, or lost, once money may be on its way to the account the
\* last one verified (the coordinator against reserveAttempt).
BeneficiaryStands == last > 0 => identity = "VERIFIED" /\ status # "KYC_PENDING"

\* A claim is not forfeited while a channel pays it or after one did (the sweep acts on a
\* status it read earlier), unless a choice was written over its progress.
ForfeitedUnpaid ==
    status = "FORFEITED" /\ overwritten = 0 => Given = {} /\ calls = {} /\ last = 0

\* Nothing but the late write of a choice takes back the forfeiture of a claim no transfer
\* was ordered for. And unless a choice was written over the claim's progress, before or by
\* this step, forfeiture is final, and a paid claim is reopened only by the return of the
\* very payment that settled it (choose, the sweep and markReversed against each other).
FinalStep ==
    /\ status = "FORFEITED" /\ status' # "FORFEITED"
         => \/ \E t \in Options : WriteChoice(t)
            \/ overwritten > 0 /\ last > 0
    /\ status = "CASH_PAID" /\ status' # "CASH_PAID"
         => \/ overwritten' > 0
            \/ \E n \in Attempts : attempt[n] = "SUCCEEDED" /\ attempt'[n] = "REVERSED"

FinalStays == [][FinalStep]_vars

\* Clerks who verified one code at the same time do not both give the prize away
\* (confirmHandover).
CollectedOnce == \A j, k \in handedBy : j = k

\* Money the provider paid, or took back, is recorded in the end, whatever calls, answers
\* and webhooks were lost (PrizePayoutRecoveryService), unless a clerk, or after the late
\* write of a choice an agent, gave the prize to the winner as well: a payout of a claim
\* that reads CASH_PAID is not recorded.
PaymentRecorded ==
    \A n \in Attempts :
        transfer[n] \in {"PAID", "RETURNED"} ~>
            attempt[n] \in {"SUCCEEDED", "REVERSED"} \/ handedBy # {} \/ paidBy # {}

-----------------------------------------------------------------------------
(* The promise made to the winner *)

P == INSTANCE Prize WITH
        Transfers <- Attempts, ordered <- last, overwritten <- overwritten > 0,
        claim <- IF status = "FORFEITED" THEN "FORFEITED" ELSE "OPEN"

\* The winner's choice, also one written late, the checks, the sweep, the agents, the
\* payout engine and its recovery together implement the contract of module Prize, which
\* says what still holds once a choice was written over the claim's progress.
ImplementsPrize == P!Spec

=============================================================================
