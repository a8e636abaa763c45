----------------------------- MODULE Beneficiary -----------------------------
(***************************************************************************)
(* The bank account one customer is paid on: the identity checks of the    *)
(* customer's cash claims, the one account approved from them, its         *)
(* replacement under a code sent by SMS, and the two kinds of money that   *)
(* leave on it: prize payouts and withdrawals from the wallet.             *)
(*                                                                         *)
(* Every handler that writes is one Serializable transaction that locks    *)
(* the claim and the customer; what happens in Redis, at the identity      *)
(* provider and at the bank is not part of it and comes in its own steps.  *)
(***************************************************************************)
EXTENDS Integers, Sequences, FiniteSets

CONSTANTS
    Claims,     \* the customer's cash claims
    Banks,      \* bank accounts, by bank and full account number
    MaxTries,   \* identity checks of one claim (3 in the code)
    MaxCodes    \* codes for bank changes requested (3 an hour)

ASSUME BeneficiaryAssumption ==
    /\ IsFiniteSet(Claims) /\ IsFiniteSet(Banks)
    /\ MaxTries \in Nat \ {0} /\ MaxCodes \in Nat

VARIABLES
    claim,      \* prize_claims.status
    tries,      \* checks made for the claim
    check,      \* the claim's latest check, the bank the claim nominates with it
    asking,     \* claims whose request to the identity provider is running
    approved,   \* the customer's VERIFIED or LOCKED account
    pending,    \* the customer's PENDING account
    codes,      \* codes for bank changes and what became of them, in Redis
    changes,    \* bank changes authorised for the claim
    payout,     \* the claim's latest payout attempt
    destination,\* ... and the account it went to
    withdrawal, \* account of the unfinished withdrawal from the wallet
    link,       \* witmango_wallet_links.status
    clients     \* clients opened for the customer at the bank

identity == <<claim, tries, check, asking>>
accounts == <<approved, pending>>
otp      == <<codes, changes>>
payouts  == <<payout, destination>>
wallet   == <<withdrawal, link, clients>>
vars == <<identity, accounts, otp, payouts, wallet>>

\* An account is known by the check that created it.
Account   == [claim : Claims, try : 1 .. MaxTries, bank : Banks, locked : BOOLEAN]
NoAccount == [claim |-> "NONE"]
CheckRow  == [status : {"NONE", "PREPARING", "SUBMITTED", "UNKNOWN", "VERIFIED", "FAILED"},
              bank : Banks \cup {"NONE"}, sent : BOOLEAN, change : {"NO", "FRESH", "COOLED"}]
CodeRow   == [claim : Claims, bank : Banks, state : {"SENT", "GRANTED", "SPENT", "GONE"}]
NoCheck   == [status |-> "NONE", bank |-> "NONE", sent |-> FALSE, change |-> "NO"]

SameAccount(a, b) ==
    a # NoAccount /\ b # NoAccount /\ a.claim = b.claim /\ a.try = b.try

Init ==
    /\ claim = [c \in Claims |-> "SELECTION_MADE"]
    /\ tries = [c \in Claims |-> 0]
    /\ check = [c \in Claims |-> NoCheck]
    /\ asking = {}
    /\ approved = NoAccount /\ pending = NoAccount
    /\ codes = <<>> /\ changes = [c \in Claims |-> 0]
    /\ payout = [c \in Claims |-> "NONE"] /\ destination = [c \in Claims |-> NoAccount]
    /\ withdrawal = NoAccount /\ link = "NONE" /\ clients = 0

-----------------------------------------------------------------------------
(* What holds a bank change up *)

\* assertNoUnresolvedPayouts, and the same test in the coordinator and the webhook.
NoMoneyOutstanding ==
    /\ \A c \in Claims : payout[c] # "IN_FLIGHT"
    /\ withdrawal = NoAccount

\* (It was when the check began:)
AsBefore == TRUE

StillNoneOutstanding == NoMoneyOutstanding

\* A cleared claim, or one whose authorised change failed, never paid so far.
FirstChange(c) == claim[c] = "KYC_CLEARED" /\ check[c].status = "VERIFIED"
RetriedChange(c) ==
    claim[c] = "KYC_PENDING" /\ check[c].status = "FAILED" /\ check[c].change # "NO"

MayChangeBank(c) ==
    /\ FirstChange(c) \/ RetriedChange(c)
    /\ payout[c] = "NONE"
    /\ NoMoneyOutstanding

-----------------------------------------------------------------------------
(* The code for a bank change *)

Code(c, b, s) == [claim |-> c, bank |-> b, state |-> s]

Request(c, b) ==
    /\ MayChangeBank(c)
    /\ approved # NoAccount /\ approved.locked /\ approved.bank # b
    /\ pending = NoAccount
    /\ Len(codes) < MaxCodes
    /\ codes' = Append(codes, Code(c, b, "SENT"))
    /\ UNCHANGED <<identity, accounts, changes, payouts, wallet>>

\* The right digits: the code is spent and a grant for its claim and bank stored.
VerifyCode(i) ==
    /\ codes[i].state = "SENT"
    /\ codes' = [codes EXCEPT ![i].state = "GRANTED"]
    /\ UNCHANGED <<identity, accounts, changes, payouts, wallet>>

\* Five wrong digits, five minutes, an SMS or an audit line that fails; or a grant
\* taken by a start whose transaction then rolls back.
CodeGone(i) ==
    /\ codes[i].state \in {"SENT", "GRANTED"}
    /\ codes' = [codes EXCEPT ![i].state = "GONE"]
    /\ UNCHANGED <<identity, accounts, changes, payouts, wallet>>

\* (The grant is read and left where it is:)
Peek(i, c, b) == codes[i] = Code(c, b, "GRANTED") /\ UNCHANGED codes

\* consume: read and deleted at once.
Consume(i, c, b) ==
    /\ codes[i] = Code(c, b, "GRANTED")
    /\ codes' = [codes EXCEPT ![i].state = "SPENT"]

-----------------------------------------------------------------------------
(* The identity coordinator *)

NewCheck(c, b, change) ==
    check' = [check EXCEPT ![c] =
                [status |-> "PREPARING", bank |-> b, sent |-> FALSE, change |-> change]]

\* (A cleared claim stays cleared:)
KeepCleared(c) ==
    claim' = [claim EXCEPT ![c] = IF @ = "KYC_CLEARED" THEN @ ELSE "KYC_PENDING"]

Reopen(c) == claim' = [claim EXCEPT ![c] = "KYC_PENDING"]

MayTry(c) == tries[c] < MaxTries

\* The PENDING row of the claim's own failed check gives way to the new one.
Recoverable(c) ==
    /\ check[c].status = "FAILED"
    /\ pending.claim = c /\ pending.try = tries[c]

MayRegister(c) == pending = NoAccount \/ Recoverable(c)

Register(c, b) ==
    /\ MayRegister(c)
    /\ pending' = [claim |-> c, try |-> tries[c] + 1, bank |-> b, locked |-> FALSE]

\* A first check, or one after a failure.
StartFirst(c, b) ==
    /\ claim[c] \in {"SELECTION_MADE", "KYC_PENDING"}
    /\ check[c].status \in {"NONE", "FAILED"}
    /\ approved = NoAccount
    /\ Register(c, b) /\ NewCheck(c, b, "NO")
    /\ UNCHANGED <<codes, changes>>

\* The approved account, for another claim: no new row, but the PENDING one is looked at
\* all the same.
StartReuse(c, b) ==
    /\ claim[c] \in {"SELECTION_MADE", "KYC_PENDING"}
    /\ check[c].status \in {"NONE", "FAILED"}
    /\ approved # NoAccount /\ approved.bank = b
    /\ MayRegister(c) /\ pending' = NoAccount
    /\ NewCheck(c, b, "NO")
    /\ UNCHANGED <<codes, changes>>

\* Another account: with a grant only.
StartChange(c, b) ==
    /\ approved # NoAccount /\ approved.bank # b
    /\ MayChangeBank(c)
    /\ \E i \in DOMAIN codes : Consume(i, c, b)
    /\ changes' = [changes EXCEPT ![c] = @ + 1]
    /\ Register(c, b) /\ NewCheck(c, b, "FRESH")

Start(c, b) ==
    /\ MayTry(c)
    /\ StartFirst(c, b) \/ StartReuse(c, b) \/ StartChange(c, b)
    /\ Reopen(c)
    /\ tries' = [tries EXCEPT ![c] = @ + 1]
    /\ asking' = asking \cup {c}
    /\ UNCHANGED <<approved, payouts, wallet>>

\* The provider has the customer; the check is marked before it is submitted.
MarkSubmitted(c) ==
    /\ c \in asking /\ check[c].status = "PREPARING"
    /\ check' = [check EXCEPT ![c].status = "SUBMITTED", ![c].sent = TRUE]
    /\ UNCHANGED <<claim, tries, asking, accounts, otp, payouts, wallet>>

\* The provider accepts it, or the process stops anywhere on the way.
RequestEnds(c) ==
    /\ c \in asking
    /\ asking' = asking \ {c}
    /\ UNCHANGED <<claim, tries, check, accounts, otp, payouts, wallet>>

\* Either call fails; an outcome that came first stays.
OutcomeUnknown(c) ==
    /\ c \in asking
    /\ asking' = asking \ {c}
    /\ check' = [check EXCEPT ![c].status =
                    IF @ \in {"PREPARING", "SUBMITTED"} THEN "UNKNOWN" ELSE @]
    /\ UNCHANGED <<claim, tries, accounts, otp, payouts, wallet>>

-----------------------------------------------------------------------------
(* The provider's event, for the latest check of its claim: at any time once the *)
(* check was sent, repeated, or the other way round the second time               *)

Awaited(c) ==
    /\ claim[c] = "KYC_PENDING"
    /\ check[c].sent /\ check[c].status \in {"SUBMITTED", "UNKNOWN"}

Decide(c, s) == check' = [check EXCEPT ![c].status = s]

OwnAccount(c) == pending # NoAccount /\ pending.claim = c /\ pending.try = tries[c]

\* The check created an account: the account is verified, in the place of another
\* if and only if the check was authorised to replace it.
EventForNew(c) ==
    /\ OwnAccount(c)
    /\ approved = NoAccount <=> check[c].change = "NO"
    /\ approved # NoAccount => approved.bank # pending.bank /\ StillNoneOutstanding
    /\ Decide(c, "VERIFIED")
    /\ approved' = pending /\ pending' = NoAccount

\* It reuses the approved one.
EventForReuse(c) ==
    /\ ~OwnAccount(c)
    /\ check[c].change = "NO"
    /\ approved # NoAccount /\ approved.bank = check[c].bank
    /\ Decide(c, "VERIFIED")
    /\ UNCHANGED accounts

EventFailed(c) ==
    /\ \/ OwnAccount(c) /\ pending' = NoAccount
       \/ /\ ~OwnAccount(c) /\ check[c].change = "NO"
          /\ approved # NoAccount /\ approved.bank = check[c].bank
          /\ UNCHANGED pending
    /\ Decide(c, "FAILED")
    /\ UNCHANGED approved

IdentityEvent(c) ==
    /\ Awaited(c)
    /\ EventForNew(c) \/ EventForReuse(c) \/ EventFailed(c)
    /\ UNCHANGED <<claim, tries, asking, otp, payouts, wallet>>

-----------------------------------------------------------------------------
(* Compliance *)

CoolingOffEnds(c) ==
    /\ check[c].change = "FRESH"
    /\ check' = [check EXCEPT ![c].change = "COOLED"]
    /\ UNCHANGED <<claim, tries, asking, accounts, otp, payouts, wallet>>

\* (Some account is approved:)
AnyApproved(c) == approved # NoAccount

\* assertDestinationMatches, and the bank, the digits and the name.
Matches(c) == approved # NoAccount /\ approved.bank = check[c].bank

Approve(c) ==
    /\ claim[c] = "KYC_PENDING" /\ check[c].status = "VERIFIED"
    /\ check[c].change # "FRESH"
    /\ Matches(c)
    /\ approved' = [approved EXCEPT !.locked = TRUE]
    /\ claim' = [claim EXCEPT ![c] = "KYC_CLEARED"]
    /\ UNCHANGED <<tries, check, asking, pending, otp, payouts, wallet>>

-----------------------------------------------------------------------------
(* Prize payouts *)

LockedFor(c) == check[c].status = "VERIFIED" /\ Matches(c) /\ approved.locked

\* (Any account the claim's evidence allows:)
AnyAccount(c) == TRUE

SameDestination(c) == SameAccount(destination[c], approved)

MayPay(c) ==
    \/ payout[c] = "NONE"
    \/ payout[c] = "FAILED" /\ SameDestination(c)

ReservePayout(c) ==
    /\ claim[c] = "KYC_CLEARED"
    /\ LockedFor(c) /\ MayPay(c)
    /\ payout' = [payout EXCEPT ![c] = "IN_FLIGHT"]
    /\ destination' = [destination EXCEPT ![c] = approved]
    /\ UNCHANGED <<identity, accounts, otp, wallet>>

PayoutEnds(c) ==
    /\ payout[c] = "IN_FLIGHT"
    /\ \E s \in {"PAID", "FAILED"} : payout' = [payout EXCEPT ![c] = s]
    /\ UNCHANGED <<identity, accounts, otp, destination, wallet>>

-----------------------------------------------------------------------------
(* The wallet's account at the bank, and withdrawals *)

\* (As long as it does not work:)
NotActive == link # "ACTIVE"

NotLinked == link = "NONE"

Provision ==
    /\ NotLinked
    /\ link' = "PROVISIONING"
    /\ UNCHANGED <<identity, accounts, otp, payouts, withdrawal, clients>>

\* The bank opens the client; its answer is still to come.
OpenClient ==
    /\ link = "PROVISIONING"
    /\ link' = "OPENED" /\ clients' = clients + 1
    /\ UNCHANGED <<identity, accounts, otp, payouts, withdrawal>>

\* The ids are saved, the account found active and empty. A call that fails leaves the
\* link for review, a crash as it is.
FinishLink ==
    /\ \/ link = "OPENED" /\ link' = "ACTIVE"
       \/ link \in {"PROVISIONING", "OPENED"} /\ link' = "REVIEW_REQUIRED"
    /\ UNCHANGED <<identity, accounts, otp, payouts, withdrawal, clients>>

ReserveWithdrawal ==
    /\ link = "ACTIVE"
    /\ withdrawal = NoAccount
    /\ approved # NoAccount /\ approved.locked
    /\ withdrawal' = approved
    /\ UNCHANGED <<identity, accounts, otp, payouts, link, clients>>

\* cancelUnsubmitted: nothing submits a withdrawal yet.
CancelWithdrawal ==
    /\ withdrawal # NoAccount
    /\ withdrawal' = NoAccount
    /\ UNCHANGED <<identity, accounts, otp, payouts, link, clients>>

-----------------------------------------------------------------------------
OtpSteps      == \/ \E c \in Claims, b \in Banks : Request(c, b)
                 \/ \E i \in DOMAIN codes : VerifyCode(i) \/ CodeGone(i)
IdentitySteps == \/ \E c \in Claims, b \in Banks : Start(c, b)
                 \/ \E c \in Claims : MarkSubmitted(c) \/ RequestEnds(c) \/ OutcomeUnknown(c)
                 \/ \E c \in Claims : IdentityEvent(c)
ReviewSteps   == \E c \in Claims : CoolingOffEnds(c) \/ Approve(c)
PayoutSteps   == \E c \in Claims : ReservePayout(c) \/ PayoutEnds(c)
WalletSteps   == \/ Provision \/ OpenClient \/ FinishLink
                 \/ ReserveWithdrawal \/ CancelWithdrawal

Next == OtpSteps \/ IdentitySteps \/ ReviewSteps \/ PayoutSteps \/ WalletSteps

Spec == Init /\ [][Next]_vars

-----------------------------------------------------------------------------
TypeOK ==
    /\ claim \in [Claims -> {"SELECTION_MADE", "KYC_PENDING", "KYC_CLEARED"}]
    /\ tries \in [Claims -> 0 .. MaxTries]
    /\ check \in [Claims -> CheckRow]
    /\ asking \subseteq Claims
    /\ {approved, pending, withdrawal} \subseteq Account \cup {NoAccount}
    /\ codes \in Seq(CodeRow) /\ Len(codes) <= MaxCodes
    /\ changes \in [Claims -> Nat]
    /\ payout \in [Claims -> {"NONE", "IN_FLIGHT", "PAID", "FAILED"}]
    /\ destination \in [Claims -> Account \cup {NoAccount}]
    /\ link \in {"NONE", "PROVISIONING", "OPENED", "ACTIVE", "REVIEW_REQUIRED"}
    /\ clients \in Nat

\* Money on its way goes to the customer's approved, locked account: no change of
\* bank overtakes a payout or a withdrawal, whichever of them began first.
MoneyKeepsItsAccount ==
    /\ \A c \in Claims : payout[c] = "IN_FLIGHT" =>
          SameAccount(destination[c], approved) /\ approved.locked
    /\ withdrawal # NoAccount => SameAccount(withdrawal, approved) /\ approved.locked

\* "Every prize payout uses the locked, verified beneficiary": it goes to the bank
\* of the claim's latest check, and that check succeeded.
PaidToVerified ==
    \A c \in Claims : payout[c] # "NONE" =>
        /\ claim[c] = "KYC_CLEARED" /\ check[c].status = "VERIFIED"
        /\ destination[c].bank = check[c].bank

\* A claim that is cleared is cleared on its latest check.
ClearedOnEvidence ==
    \A c \in Claims : claim[c] = "KYC_CLEARED" =>
        check[c].status = "VERIFIED" /\ check[c].change # "FRESH"

\* Every change of bank a claim was allowed used up a code of its own.
ChangesAuthorised ==
    \A c \in Claims :
        changes[c] <= Cardinality({i \in DOMAIN codes :
                                      codes[i].claim = c /\ codes[i].state = "SPENT"})

\* "Payout retry cannot change the destination account", even for one of the same
\* bank and number that was approved again.
DestinationStays ==
    [][\A c \in Claims : destination[c] # NoAccount =>
          SameAccount(destination'[c], destination[c])]_vars

\* A customer has one client at the bank, though provisioning stops half-way.
OneClient == clients <= 1

-----------------------------------------------------------------------------
(* The inductive invariant behind them *)

\* A destination was chosen by an attempt, ...
DestinationInv == \A c \in Claims : destination[c] # NoAccount => payout[c] # "NONE"

\* ... and a client opened by the one provisioning there is.
ClientInv == link \in {"NONE", "PROVISIONING"} => clients = 0

IInv == /\ TypeOK /\ DestinationInv /\ ClientInv /\ OneClient
        /\ MoneyKeepsItsAccount /\ PaidToVerified /\ ClearedOnEvidence /\ ChangesAuthorised
=============================================================================
