-------------------------------- MODULE Funding --------------------------------
(***************************************************************************)
(* Money that the owner of a wallet pays in through Monnify or             *)
(* Flutterwave. The provider is asked for a checkout page; what happens    *)
(* there reaches SureWina when someone asks: a webhook, the customer's     *)
(* status page or Finance. Each of them first queries the provider and     *)
(* then confirms what it heard in a transaction that locks the funding:    *)
(* what it heard may be old by then.                                       *)
(***************************************************************************)
EXTENDS Integers, FiniteSets

CONSTANTS
    Fundings,
    Charges,   \* transactions at the providers
    ChargeOf,  \* the funding whose reference a transaction carries
    Callers,   \* webhooks, status pages and refreshes under way
    Amount, Other  \* amountNgn, and an amount that is not it

ASSUME FundingAssumption ==
    /\ IsFiniteSet(Fundings) /\ ChargeOf \in [Charges -> Fundings]
    /\ Amount \in Nat \ {0} /\ Other \in Nat \ {0} /\ Amount # Other

VARIABLES
    funding,    \* wallet_fundings.status
    gateway,    \* ... and gateway, which the owner chooses
    page,       \* the call that initialises the checkout, and its page
    charge,     \* what the provider knows of a transaction
    call,       \* what a caller has heard of which transaction, for which funding
    wallet,     \* the balance these fundings have made
    clearing,   \* the balance of the provider clearing account, a debit one
    walletOpen  \* the wallet has not been closed

heard      == <<call>>
provider   == <<gateway, page, charge>>
money      == <<wallet, clearing, walletOpen>>
fundingVars == <<funding, provider, heard, money>>

Gateways == {"MONNIFY", "FLUTTERWAVE"}

Ended == {"CREDITED", "REVIEW_REQUIRED", "FAILED"}

NoCall == [on |-> FALSE]

InitFunding ==
    /\ funding = [f \in Fundings |-> "NONE"]
    /\ gateway = [f \in Fundings |-> "NONE"] /\ page = [f \in Fundings |-> "NONE"]
    /\ charge = [c \in Charges |-> "NONE"]
    /\ call = [v \in Callers |-> NoCall]
    /\ wallet = 0 /\ clearing = 0 /\ walletOpen = TRUE

-----------------------------------------------------------------------------
(* Initiation *)

Initiate(f) ==
    /\ funding[f] = "NONE" /\ walletOpen
    /\ \E g \in Gateways : gateway' = [gateway EXCEPT ![f] = g]
    /\ funding' = [funding EXCEPT ![f] = "PENDING"]
    /\ page' = [page EXCEPT ![f] = "ASKED"]
    /\ UNCHANGED <<charge, heard, money>>

PageOpens(f) ==
    /\ page[f] = "ASKED"
    /\ page' = [page EXCEPT ![f] = "OPEN"]
    /\ UNCHANGED <<funding, gateway, charge, heard, money>>

\* The customer never sees the page. FAILED is written whatever the status is now.
InitiationFails(f) ==
    /\ page[f] = "ASKED"
    /\ page' = [page EXCEPT ![f] = "LOST"]
    /\ funding' = [funding EXCEPT ![f] = "FAILED"]
    /\ UNCHANGED <<gateway, charge, heard, money>>

-----------------------------------------------------------------------------
(* The provider *)

Attempts(f) == {c \in Charges : ChargeOf[c] = f}

\* After a failed attempt the page of Flutterwave offers another one.
BeginPayment(c) ==
    /\ page[ChargeOf[c]] = "OPEN" /\ charge[c] = "NONE"
    /\ \A d \in Attempts(ChargeOf[c]) :
          \/ charge[d] = "NONE"
          \/ charge[d] = "FAILED" /\ gateway[ChargeOf[c]] = "FLUTTERWAVE"
    /\ charge' = [charge EXCEPT ![c] = "PENDING"]
    /\ UNCHANGED <<funding, gateway, page, heard, money>>

\* Monnify calls a transaction paid when the amount is right, and no other amount
\* ends it.
PaymentEnds(c) ==
    /\ charge[c] = "PENDING"
    /\ \E s \in {"PAID", "PAID_OTHER", "FAILED"} :
          /\ s = "PAID_OTHER" => gateway[ChargeOf[c]] = "FLUTTERWAVE"
          /\ charge' = [charge EXCEPT ![c] = s]
    /\ UNCHANGED <<funding, gateway, page, heard, money>>

IsPaid(s) == s \in {"PAID", "PAID_OTHER"}

-----------------------------------------------------------------------------
(* Confirmation *)

\* Monnify is asked by the funding's reference; Flutterwave by a transaction id that
\* the status page or Finance passes on, for whatever funding.
MayAsk(f, c) ==
    /\ gateway[f] = gateway[ChargeOf[c]]
    /\ gateway[f] = "MONNIFY" => ChargeOf[c] = f

Ask(v, f, c) ==
    /\ call[v] = NoCall
    /\ MayAsk(f, c)
    /\ funding[f] \in {"PENDING", "PROCESSING"} /\ charge[c] # "NONE"
    /\ call' = [call EXCEPT ![v] =
                  [on |-> TRUE, funding |-> f, of |-> ChargeOf[c], status |-> charge[c]]]
    /\ UNCHANGED <<funding, provider, money>>

Hangs(v) ==
    /\ call[v].on
    /\ call' = [call EXCEPT ![v] = NoCall]
    /\ UNCHANGED <<funding, provider, money>>

\* (Only the amount is compared:)
SameAmount(h) == h.status = "PAID"

\* Reference, gateway, currency and amount.
Matches(h) == h.of = h.funding /\ h.status = "PAID"

\* (A credit is done again, since it is idempotent:)
NotRefused(f) == funding[f] \notin {"REVIEW_REQUIRED", "FAILED"}

MayMove(f) == funding[f] \notin Ended

MoveTo(f, s) == funding' = [funding EXCEPT ![f] = s] /\ UNCHANGED money

\* creditInTransaction refuses a closed wallet, and everything is rolled back. A second
\* credit of the funding would find the journal of the first.
Credit(f) ==
    IF walletOpen /\ funding[f] # "CREDITED"
    THEN /\ funding' = [funding EXCEPT ![f] = "CREDITED"]
         /\ wallet' = wallet + Amount /\ clearing' = clearing + Amount
         /\ UNCHANGED walletOpen
    ELSE UNCHANGED <<funding, money>>

Confirm(v) ==
    LET h == call[v]
        f == h.funding IN
    /\ h.on
    /\ \/ ~MayMove(f) /\ UNCHANGED <<funding, money>>
       \/ MayMove(f) /\ h.status = "PENDING"                 /\ MoveTo(f, "PROCESSING")
       \/ MayMove(f) /\ h.status = "FAILED"                  /\ MoveTo(f, "FAILED")
       \/ MayMove(f) /\ IsPaid(h.status) /\ ~Matches(h)      /\ MoveTo(f, "REVIEW_REQUIRED")
       \/ MayMove(f) /\ Matches(h)                           /\ Credit(f)
    /\ call' = [call EXCEPT ![v] = NoCall]
    /\ UNCHANGED provider

\* closeWallet: nothing is left in it.
CloseWallet ==
    /\ walletOpen /\ wallet = 0
    /\ walletOpen' = FALSE
    /\ UNCHANGED <<funding, provider, heard, wallet, clearing>>

-----------------------------------------------------------------------------
FundingSteps ==
    \/ \E f \in Fundings : Initiate(f) \/ PageOpens(f) \/ InitiationFails(f)
    \/ \E c \in Charges : BeginPayment(c) \/ PaymentEnds(c)
    \/ \E v \in Callers : \/ Hangs(v) \/ Confirm(v)
                          \/ \E f \in Fundings, c \in Charges : Ask(v, f, c)
    \/ CloseWallet

FundingTypes ==
    /\ funding \in [Fundings -> Ended \cup {"NONE", "PENDING", "PROCESSING"}]
    /\ gateway \in [Fundings -> Gateways \cup {"NONE"}]
    /\ page \in [Fundings -> {"NONE", "ASKED", "OPEN", "LOST"}]
    /\ charge \in [Charges -> {"NONE", "PENDING", "PAID", "PAID_OTHER", "FAILED"}]
    /\ \A v \in Callers : call[v].on => /\ call[v].funding \in Fundings
                                        /\ call[v].status \in {"PENDING", "PAID", "PAID_OTHER", "FAILED"}
    /\ wallet \in Nat /\ walletOpen \in BOOLEAN

Credited == {f \in Fundings : funding[f] = "CREDITED"}

\* The wallet holds money the provider has: one credit for each funding that one of its
\* own transactions has paid, in the right amount, whoever asked about which.
CreditIsBacked ==
    /\ wallet = Amount * Cardinality(Credited)
    /\ \A f \in Credited : \E c \in Attempts(f) : charge[c] = "PAID"

\* Why that is so: what was heard as paid is, and nothing is paid without a page.
HeardInv ==
    \A v \in Callers : call[v].on /\ Matches(call[v]) =>
        \E c \in Attempts(call[v].funding) : charge[c] = "PAID"

PageInv ==
    \A f \in Fundings :
        /\ funding[f] = "NONE" => page[f] = "NONE"
        /\ page[f] # "OPEN" => \A c \in Attempts(f) : charge[c] = "NONE"

FundingInv == FundingTypes /\ HeardInv /\ PageInv /\ CreditIsBacked
=============================================================================
