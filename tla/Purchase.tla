------------------------------- MODULE Purchase -------------------------------
(***************************************************************************)
(* One online ticket purchase, from the checkout to the refund: the row of *)
(* payment_transactions, its tickets and its three ledger journals, next   *)
(* to what the payment provider has really done with the customer's money. *)
(*                                                                         *)
(* Answers of the provider are received in one step and applied in a later *)
(* one, each in a transaction that locks the row. Until then they are      *)
(* neither lost nor in order. Refunds are in the live mode; in the 'dev'   *)
(* mode no provider is called.                                             *)
(***************************************************************************)
EXTENDS Integers, FiniteSets

CONSTANTS
    Gateways,   \* providers a purchase may use
    MaxFaults   \* bound on refund calls that time out or come back unreadable

ASSUME PurchaseAssumption ==
    /\ Gateways \subseteq {"PAYSTACK", "MONNIFY", "FLUTTERWAVE"}
    /\ MaxFaults \in Nat

VARIABLES
    gateway,    \* payment_transactions.gateway
    flaw,       \* what does not agree with the record when the money has come
    draw,       \* status of the purchase's draw
    closed,     \* the draw's cutoff has passed
    pool,       \* the engine froze the draw's pool with the ticket in it
    charge,     \* what the provider did with the customer's money
    late,       \* ... and whether it did so at or after the cutoff
    opening,    \* the checkout is being created
    status, ticket,                 \* the payment, its ticket
    collection, accrual, settled,   \* the journals: account the money is booked on
    verified,   \* verifications of the charge received and not yet applied
    refund,     \* payment_transactions.refundStatus
    calling,    \* the request that initiates the refund is running
    sent,       \* its call may still reach the provider
    money,      \* what the provider did with the refund
    answers,    \* answers about the refund received and not yet applied
    faults

fixed      == <<gateway, flaw>>
drawVars   == <<draw, closed, pool>>
chargeVars == <<charge, late, opening, verified>>
rowVars    == <<status, ticket, refund>>
books      == <<collection, accrual, settled>>
callVars   == <<calling, sent, money, answers, faults>>
vars == <<fixed, drawVars, chargeVars, rowVars, books, callVars>>

\* REQUESTED, and the four statuses the code treats alike: SUBMITTED, PROCESSING,
\* NEEDS_ATTENTION, UNKNOWN.
InProgress == {"REQUESTED", "PROCESSING"}

\* A wrong amount, currency or reference; a wrong draw in the metadata; an amount
\* that is no multiple of the tickets.
Flaws == {"NONE", "MISMATCH", "METADATA", "AMOUNT"}

Charges       == {"NONE", "OPEN", "ABANDONED", "FAILED", "PAID"}
Verifications == {"PENDING", "FAILED", "IN_TIME", "LATE", "MISMATCH"}
RefundAnswers == {"PROCESSING", "SUCCEEDED", "FAILED"}

Init ==
    /\ gateway \in Gateways /\ flaw \in Flaws
    /\ draw = "OPEN" /\ closed = FALSE /\ pool = FALSE
    /\ charge = "NONE" /\ late = FALSE /\ opening = TRUE /\ verified = {}
    /\ status = "PENDING" /\ ticket = "NONE" /\ refund = "NONE"
    /\ collection = "NONE" /\ accrual = "NONE" /\ settled = FALSE
    /\ calling = FALSE /\ sent = FALSE /\ money = "NONE" /\ answers = {} /\ faults = 0

-----------------------------------------------------------------------------
(* The draw, as far as a payment can tell *)

Cutoff ==
    /\ ~closed
    /\ closed' = TRUE
    /\ UNCHANGED <<fixed, draw, pool, chargeVars, rowVars, books, callVars>>

CancelDraw ==
    /\ draw = "OPEN"
    /\ draw' = "CANCELLED"
    /\ UNCHANGED <<fixed, closed, pool, chargeVars, rowVars, books, callVars>>

\* The engine takes the draw and freezes its pool under the draw's lock.
FreezePool ==
    /\ draw = "OPEN" /\ closed
    /\ draw' = "EXECUTING" /\ pool' = (ticket = "ACTIVE")
    /\ UNCHANGED <<fixed, closed, chargeVars, rowVars, books, callVars>>

PublishResult ==
    /\ draw = "EXECUTING"
    /\ draw' = "COMPLETED"
    /\ ticket' \in IF pool THEN {"WINNING", "DRAWN"} ELSE {ticket}
    /\ UNCHANGED <<fixed, closed, pool, chargeVars, status, refund, books, callVars>>

-----------------------------------------------------------------------------
(* The checkout *)

\* initialize answers: the customer is sent to the provider's page.
CheckoutOpens ==
    /\ opening
    /\ opening' = FALSE /\ charge' = "OPEN"
    /\ UNCHANGED <<fixed, drawVars, late, verified, rowVars, books, callVars>>

\* It fails or times out: nobody ever sees the page.
CheckoutFails ==
    /\ opening
    /\ opening' = FALSE /\ status' = "FAILED"
    /\ UNCHANGED <<fixed, drawVars, charge, late, verified, ticket, refund, books, callVars>>

\* An abandoned page can still be paid on.
CustomerActs ==
    /\ \/ /\ charge \in {"OPEN", "ABANDONED"}
          /\ charge' = "PAID" /\ late' = closed
       \/ /\ charge = "OPEN"
          /\ charge' \in {"ABANDONED", "FAILED"} /\ UNCHANGED late
    /\ UNCHANGED <<fixed, drawVars, opening, verified, rowVars, books, callVars>>

-----------------------------------------------------------------------------
(* Verification: what each provider's answer becomes *)

\* mapPaystackStatus: abandoned is a failure, and so is a charge given back.
PaystackStatus ==
    CASE charge = "PAID" /\ money # "PAID" -> "SUCCESS"
      [] charge \in {"ABANDONED", "FAILED"} \/ money = "PAID" -> "FAILED"
      [] OTHER -> "PENDING"

\* mapMonnifyStatus: the same, for PAID, ABANDONED, EXPIRED and REFUNDED.
MonnifyStatus ==
    CASE charge = "PAID" /\ money # "PAID" -> "SUCCESS"
      [] charge \in {"ABANDONED", "FAILED"} \/ money = "PAID" -> "FAILED"
      [] OTHER -> "PENDING"

\* mapFlutterwaveStatus knows neither abandoned nor refunded charges.
FlutterwaveStatus ==
    CASE charge = "PAID" -> "SUCCESS"
      [] charge = "FAILED" -> "FAILED"
      [] OTHER -> "PENDING"

\* (Never:)
TimeIgnored == FALSE

\* paidAt, or the time of the verification: Flutterwave gives no time of payment.
AtOrAfterCutoff == IF gateway = "FLUTTERWAVE" THEN closed ELSE late

Verification(s) ==
    CASE s # "SUCCESS"       -> s
      [] flaw = "MISMATCH"   -> "MISMATCH"
      [] AtOrAfterCutoff     -> "LATE"
      [] OTHER               -> "IN_TIME"

Answer(s) == verified' = verified \cup {Verification(s)}

VerifyPaystack    == gateway = "PAYSTACK"    /\ Answer(PaystackStatus)
VerifyMonnify     == gateway = "MONNIFY"     /\ Answer(MonnifyStatus)
VerifyFlutterwave == gateway = "FLUTTERWAVE" /\ Answer(FlutterwaveStatus)

Verify == VerifyPaystack \/ VerifyMonnify \/ VerifyFlutterwave

\* charge.success, charge.completed, SUCCESSFUL_TRANSACTION: a webhook, delivered
\* once, often or never, only triggers a verification.
PaystackEvent    == gateway = "PAYSTACK" /\ charge = "PAID"
FlutterwaveEvent == gateway = "FLUTTERWAVE" /\ charge \in {"PAID", "FAILED"}
MonnifyEvent     == gateway = "MONNIFY" /\ charge = "PAID"

Webhook ==
    /\ PaystackEvent \/ FlutterwaveEvent \/ MonnifyEvent
    /\ Verify
    /\ UNCHANGED <<fixed, drawVars, charge, late, opening, rowVars, books, callVars>>

\* getStatus, asked by the page the customer returns to.
Poll ==
    /\ status = "PENDING" /\ charge # "NONE"
    /\ Verify
    /\ UNCHANGED <<fixed, drawVars, charge, late, opening, rowVars, books, callVars>>

\* The process stops, or the database refuses: a webhook's errors are swallowed.
LoseVerification ==
    /\ verified # {}
    /\ verified' = {}
    /\ UNCHANGED <<fixed, drawVars, charge, late, opening, rowVars, books, callVars>>

-----------------------------------------------------------------------------
(* confirmAndCreateTickets: the row locked, the answer applied *)

\* recordProviderCollectionInTransaction: once for a payment.
Collect(account) == collection' = IF collection = "NONE" THEN account ELSE collection

Fulfillable == draw = "OPEN"

Undecided == status = "PENDING"

Ignore == ~Undecided /\ UNCHANGED <<status, ticket, collection>>

LeavePending(v) ==
    /\ Undecided /\ v = "PENDING"
    /\ UNCHANGED <<status, ticket, collection>>

Reject(v) ==
    /\ Undecided /\ v = "FAILED"
    /\ status' = "FAILED"
    /\ UNCHANGED <<ticket, collection>>

\* The answer does not fit the record: nothing is booked.
ReviewMismatch(v) ==
    /\ Undecided /\ v = "MISMATCH"
    /\ status' = "REVIEW_REQUIRED"
    /\ UNCHANGED <<ticket, collection>>

\* Late, for a draw that takes no tickets, or with another draw's code.
Unsafe(v) == v = "LATE" \/ ~Fulfillable \/ flaw = "METADATA"

\* The money is booked in suspense.
ReviewCollection(v) ==
    /\ Undecided /\ v \in {"IN_TIME", "LATE"} /\ Unsafe(v)
    /\ Collect("SUSPENSE")
    /\ status' = "REVIEW_REQUIRED"
    /\ UNCHANGED ticket

ReviewAmount(v) ==
    /\ Undecided /\ v \in {"IN_TIME", "LATE"} /\ ~Unsafe(v) /\ flaw = "AMOUNT"
    /\ Collect("SUSPENSE")
    /\ status' = "REVIEW_REQUIRED"
    /\ UNCHANGED ticket

IssueTickets(v) ==
    /\ Undecided /\ v = "IN_TIME" /\ ~Unsafe(v) /\ flaw # "AMOUNT"
    /\ Collect("REVENUE")
    /\ status' = "CONFIRMED" /\ ticket' = "ACTIVE"

Confirm(v) ==
    /\ v \in verified
    /\ verified' = verified \ {v}
    /\ \/ Ignore
       \/ LeavePending(v)
       \/ Reject(v)
       \/ ReviewMismatch(v)
       \/ ReviewCollection(v)
       \/ ReviewAmount(v)
       \/ IssueTickets(v)
    /\ UNCHANGED <<fixed, drawVars, charge, late, opening, refund, accrual, settled, callVars>>

-----------------------------------------------------------------------------
(* The refund desk: initiate *)

\* (Whatever the draw is doing:)
InAnyDraw == TRUE
OutOfDraw == status = "CONFIRMED" => draw \in {"OPEN", "CANCELLED"}

MayRefund ==
    /\ status \in {"CONFIRMED", "REVIEW_REQUIRED"}
    /\ refund = "NONE"
    /\ ticket # "WINNING"
    /\ OutOfDraw

Source == IF status = "CONFIRMED" THEN "REVENUE" ELSE "SUSPENSE"

\* Monnify and Flutterwave: a collection not booked so far is booked now, and the
\* refund becomes a debt.
Accrues == gateway \in {"MONNIFY", "FLUTTERWAVE"}

\* recordRefundAccrualInTransaction.
Accrue(account) == accrual' = account

\* (What is not booked stays so:)
AccrueOnly   == Accrue(Source) /\ UNCHANGED collection
CollectFirst == Collect(Source) /\ Accrue(Source)

RequestRefund ==
    /\ MayRefund
    /\ IF Accrues THEN CollectFirst ELSE UNCHANGED <<collection, accrual>>
    /\ status' = "REFUND_PENDING" /\ refund' = "REQUESTED"
    /\ ticket' = IF ticket = "ACTIVE" THEN "REFUND_PENDING" ELSE ticket
    /\ calling' = TRUE /\ sent' = TRUE
    /\ UNCHANGED <<fixed, drawVars, chargeVars, settled, money, answers, faults>>

-----------------------------------------------------------------------------
(* The provider *)

\* The call arrives: it is taken up or refused.
RefundArrives ==
    /\ sent
    /\ sent' = FALSE
    /\ money' \in {"PENDING", "REFUSED"}
    /\ UNCHANGED <<fixed, drawVars, chargeVars, rowVars, books, calling, answers, faults>>

RefundMoves ==
    /\ \/ money = "PENDING" /\ money' = "STARTED"
       \/ money = "STARTED" /\ money' = "PAID"
       \/ money \in {"PENDING", "STARTED"} /\ money' = "REFUSED"
    /\ UNCHANGED <<fixed, drawVars, chargeVars, rowVars, books, calling, sent, answers, faults>>

\* The call is lost on the way.
RefundLost ==
    /\ sent
    /\ sent' = FALSE
    /\ UNCHANGED <<fixed, drawVars, chargeVars, rowVars, books, calling, money, answers, faults>>

-----------------------------------------------------------------------------
(* What the providers report becomes: the answer of the initiation, and what a *)
(* refresh finds                                                              *)

\* fromMonnifyRefund: PENDING, COMPLETED, FAILED.
MonnifyReport ==
    CASE money \in {"PENDING", "STARTED"} -> "PROCESSING"
      [] money = "PAID"                   -> "SUCCEEDED"
      [] money = "REFUSED"                -> "FAILED"

\* fromPaystackRefund: pending, processing, needs-attention, processed, failed.
PaystackReport ==
    CASE money \in {"PENDING", "STARTED"} -> "PROCESSING"
      [] money = "PAID"                   -> "SUCCEEDED"
      [] money = "REFUSED"                -> "FAILED"

\* (completed taken at its word:)
CompletedIsPaid ==
    CASE money = "PENDING"            -> "PROCESSING"
      [] money \in {"STARTED", "PAID"} -> "SUCCEEDED"
      [] money = "REFUSED"            -> "FAILED"

\* fromFlutterwaveRefund: completed means started, completed-bank-transfer paid.
FlutterwaveReport ==
    CASE money \in {"PENDING", "STARTED"} -> "PROCESSING"
      [] money = "PAID"                   -> "SUCCEEDED"
      [] money = "REFUSED"                -> "FAILED"

ProviderSays ==
    CASE gateway = "MONNIFY"     -> MonnifyReport
      [] gateway = "PAYSTACK"    -> PaystackReport
      [] gateway = "FLUTTERWAVE" -> FlutterwaveReport

Unreadable == "PROCESSING"

Answered(a) == answers' = answers \cup {a}

\* A 4xx, or a code that says the refund was rejected, is a refusal.
InitiateMonnify     == gateway = "MONNIFY"     /\ Answered(MonnifyReport)
InitiatePaystack    == gateway = "PAYSTACK"    /\ Answered(PaystackReport)
InitiateFlutterwave == gateway = "FLUTTERWAVE" /\ Answered(FlutterwaveReport)

InitiationAnswers ==
    /\ calling /\ money # "NONE"
    /\ calling' = FALSE
    /\ InitiateMonnify \/ InitiatePaystack \/ InitiateFlutterwave
    /\ UNCHANGED <<fixed, drawVars, chargeVars, rowVars, books, sent, money, faults>>

InitiationThrows ==
    /\ calling /\ faults < MaxFaults
    /\ faults' = faults + 1
    /\ calling' = FALSE
    /\ Answered(Unreadable)
    /\ UNCHANGED <<fixed, drawVars, chargeVars, rowVars, books, sent, money>>

\* (Only a refund that was never answered:)
OnlyRequested == refund = "REQUESTED"

\* A refresh reads the row: SUCCEEDED and FAILED are not asked about again.
MayRefresh == refund \in InProgress

\* Monnify is asked by the key the initiation sent, the others by the transaction:
\* each finds a refund whose reference never arrived.
MonnifyRefund     == gateway = "MONNIFY"     /\ money # "NONE"
PaystackRefund    == gateway = "PAYSTACK"    /\ money # "NONE"
FlutterwaveRefund == gateway = "FLUTTERWAVE" /\ money # "NONE"

Refresh ==
    /\ MayRefresh
    /\ MonnifyRefund \/ PaystackRefund \/ FlutterwaveRefund
    /\ ProviderSays \notin answers
    /\ Answered(ProviderSays)
    /\ UNCHANGED <<fixed, drawVars, chargeVars, rowVars, books, calling, sent, money, faults>>

\* A time-out, a wrong amount or a wrong currency.
RefreshInVain ==
    /\ MayRefresh /\ faults < MaxFaults
    /\ faults' = faults + 1
    /\ Answered(Unreadable)
    /\ UNCHANGED <<fixed, drawVars, chargeVars, rowVars, books, calling, sent, money>>

Crash ==
    /\ calling \/ answers # {}
    /\ faults < MaxFaults /\ faults' = faults + 1
    /\ calling' = FALSE /\ answers' = {}
    /\ UNCHANGED <<fixed, drawVars, chargeVars, rowVars, books, sent, money>>

-----------------------------------------------------------------------------
(* applyProviderResult *)

StillRunning == refund \in InProgress

\* recordRefundSettlementInTransaction throws unless the debt is booked.
MaySettle == accrual # "NONE"
Settle    == settled' = TRUE

Complete ==
    /\ status' = "REFUNDED" /\ refund' = "SUCCEEDED" /\ Settle
    /\ ticket' = IF ticket = "REFUND_PENDING" THEN "EXPIRED" ELSE ticket

\* A refresh leaves the row as it was; the initiation writes UNKNOWN.
SettlementThrows ==
    /\ refund' \in {refund, "PROCESSING"}
    /\ UNCHANGED <<status, ticket, settled>>

MarkSucceeded ==
    IF status = "REFUND_PENDING" /\ StillRunning
    THEN IF MaySettle THEN Complete ELSE SettlementThrows
    ELSE UNCHANGED <<rowVars, settled>>

\* The tickets stay out of the draw.
MarkFailed ==
    IF StillRunning
    THEN status' = "REVIEW_REQUIRED" /\ refund' = "FAILED" /\ UNCHANGED <<ticket, settled>>
    ELSE UNCHANGED <<rowVars, settled>>

MarkPending ==
    IF StillRunning
    THEN refund' = "PROCESSING" /\ UNCHANGED <<status, ticket, settled>>
    ELSE UNCHANGED <<rowVars, settled>>

Apply(a) ==
    /\ a \in answers
    /\ answers' = answers \ {a}
    /\ \/ a = "SUCCEEDED" /\ MarkSucceeded
       \/ a = "FAILED" /\ MarkFailed
       \/ a = "PROCESSING" /\ MarkPending
    /\ UNCHANGED <<fixed, drawVars, chargeVars, collection, accrual, calling, sent, money, faults>>

-----------------------------------------------------------------------------
DrawSteps     == Cutoff \/ CancelDraw \/ FreezePool \/ PublishResult
CheckoutSteps == CheckoutOpens \/ CheckoutFails \/ CustomerActs
VerifySteps   == Webhook \/ Poll \/ LoseVerification
ProviderSteps == RefundArrives \/ RefundMoves \/ RefundLost
RefundSteps   == \/ RequestRefund \/ InitiationAnswers \/ InitiationThrows
                 \/ Refresh \/ RefreshInVain \/ Crash

Next ==
    \/ DrawSteps \/ CheckoutSteps \/ VerifySteps \/ ProviderSteps \/ RefundSteps
    \/ \E v \in Verifications : Confirm(v)
    \/ \E a \in RefundAnswers : Apply(a)

Spec == Init /\ [][Next]_vars

\* Finance refreshes a refund until it has ended, and requests come to an end.
RefreshedSpec ==
    /\ Spec
    /\ WF_vars(Refresh)
    /\ \A a \in RefundAnswers : WF_vars(Apply(a))

-----------------------------------------------------------------------------
TypeOK ==
    /\ gateway \in Gateways /\ flaw \in Flaws
    /\ draw \in {"OPEN", "EXECUTING", "COMPLETED", "CANCELLED"}
    /\ closed \in BOOLEAN /\ pool \in BOOLEAN
    /\ charge \in Charges /\ late \in BOOLEAN /\ opening \in BOOLEAN
    /\ verified \subseteq Verifications
    /\ status \in {"PENDING", "CONFIRMED", "FAILED", "REVIEW_REQUIRED",
                   "REFUND_PENDING", "REFUNDED"}
    /\ ticket \in {"NONE", "ACTIVE", "REFUND_PENDING", "EXPIRED", "WINNING", "DRAWN"}
    /\ refund \in InProgress \cup {"NONE", "SUCCEEDED", "FAILED"}
    /\ collection \in {"NONE", "REVENUE", "SUSPENSE"}
    /\ accrual \in {"NONE", "REVENUE", "SUSPENSE"} /\ settled \in BOOLEAN
    /\ calling \in BOOLEAN /\ sent \in BOOLEAN
    /\ money \in {"NONE", "PENDING", "STARTED", "PAID", "REFUSED"}
    /\ answers \subseteq RefundAnswers /\ faults \in 0 .. MaxFaults

\* There is a ticket only for money the provider has, received before the cutoff,
\* and booked as revenue: verifications arrive late, repeatedly and in any order.
TicketPaidFor ==
    ticket # "NONE" => charge = "PAID" /\ ~late /\ collection = "REVENUE"

\* The ticket of a confirmed payment takes part in its draw, and money goes back to
\* nobody whose ticket took part.
DrawIsSettled ==
    /\ draw \in {"EXECUTING", "COMPLETED"} /\ status = "CONFIRMED" => pool
    /\ pool => status = "CONFIRMED" /\ refund = "NONE" /\ money = "NONE"

\* What a refund takes from an account was booked there, a refund recorded as paid
\* was a debt, and an online payment is booked once it is confirmed.
BooksAgree ==
    /\ accrual # "NONE" => collection = accrual
    /\ settled => accrual # "NONE" /\ status = "REFUNDED"
    /\ status = "CONFIRMED" => collection = "REVENUE" /\ accrual = "NONE"

\* "FAILED is conclusive": no money returns for a refund recorded as failed, and
\* it has returned for one recorded as paid.
RefundMatchesProvider ==
    /\ refund = "FAILED"    => money = "REFUSED"
    /\ refund = "SUCCEEDED" => money = "PAID"

\* Money that went back through Monnify or Flutterwave is recorded in the end,
\* though calls time out and processes stop.
RefundRecorded == money = "PAID" /\ gateway # "PAYSTACK" ~> status = "REFUNDED"

-----------------------------------------------------------------------------
(* The inductive invariant behind the safety properties *)

\* Nothing has happened to a payment whose checkout is being created.
OpeningInv == opening => charge = "NONE" /\ verified = {} /\ status = "PENDING"

\* What was verified as paid in time was.
ChargeInv ==
    /\ late => closed
    /\ "IN_TIME" \in verified => charge = "PAID" /\ ~late

\* What has not been decided has left no trace, ...
DecisionInv ==
    /\ status = "PENDING" => ticket = "NONE" /\ collection = "NONE" /\ refund = "NONE"
    /\ status = "REVIEW_REQUIRED" /\ refund = "NONE" => collection # "REVENUE"
    /\ status = "CONFIRMED" => refund = "NONE"
    /\ status = "REFUNDED" => refund = "SUCCEEDED"

\* ... nor has a refund nobody asked for.
RefundInv ==
    /\ refund = "NONE" => money = "NONE" /\ ~sent /\ ~calling /\ answers = {} /\ accrual = "NONE"
    /\ refund \in InProgress => status = "REFUND_PENDING"
    /\ sent => money = "NONE"
    /\ "FAILED" \in answers => money = "REFUSED"
    /\ "SUCCEEDED" \in answers => money = "PAID"

\* A confirmed payment has its ticket in the pool, or ready for it; it is played
\* when the result is published.
TicketInv ==
    /\ ticket = "ACTIVE" => status = "CONFIRMED"
    /\ status = "CONFIRMED" /\ draw \in {"OPEN", "CANCELLED"} => ticket = "ACTIVE"
    /\ pool => draw \in {"EXECUTING", "COMPLETED"} /\ ticket # "NONE"
    /\ pool /\ draw = "EXECUTING" => ticket = "ACTIVE"
    /\ ticket \in {"WINNING", "DRAWN"} => draw = "COMPLETED"

IInv == /\ TypeOK /\ OpeningInv /\ ChargeInv /\ DecisionInv /\ RefundInv /\ TicketInv
        /\ TicketPaidFor /\ DrawIsSettled /\ BooksAgree /\ RefundMatchesProvider

-----------------------------------------------------------------------------
(* The contract with the draw *)

\* A payment whose refund failed is under review as one that was never refunded.
OrderState ==
    CASE status = "PENDING"         -> "OPEN"
      [] status = "CONFIRMED"       -> "BOUGHT"
      [] status = "FAILED"          -> "REFUSED"
      [] status = "REVIEW_REQUIRED" -> IF refund = "FAILED" THEN "KEPT" ELSE "HELD"
      [] status = "REFUND_PENDING"  -> "RETURNING"
      [] status = "REFUNDED"        -> "RETURNED"

TicketState ==
    CASE ticket = "NONE"                           -> "NONE"
      [] ticket \in {"ACTIVE", "DRAWN"}            -> "IN"
      [] ticket \in {"REFUND_PENDING", "EXPIRED"}  -> "OUT"
      [] ticket = "WINNING"                        -> "WON"

DrawState ==
    CASE draw = "EXECUTING" -> "RUNNING"
      [] draw = "COMPLETED" -> "DRAWN"
      [] OTHER              -> draw

Result == IF draw # "COMPLETED" THEN "NONE" ELSE IF pool THEN "WITH" ELSE "WITHOUT"

O == INSTANCE TicketOrder WITH
        order <- OrderState, ticket <- TicketState, draw <- DrawState, result <- Result

\* The checkout, the confirmation and the refund desk keep the contract with the draw.
ImplementsTicketOrder == O!Spec
=============================================================================
