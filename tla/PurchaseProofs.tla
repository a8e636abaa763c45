---------------------------- MODULE PurchaseProofs ----------------------------
(***************************************************************************)
(* The safety properties of one online purchase, for any providers and any *)
(* number of refund calls that fail.                                       *)
(***************************************************************************)
EXTENDS Purchase, TLAPS

\* A payment begins with nothing charged, booked or asked for.
LEMMA Initially == Init => IInv
<1> SUFFICES ASSUME Init PROVE IInv
  OBVIOUS
<1>1. TypeOK
  <2>1. verified \subseteq Verifications /\ answers \subseteq RefundAnswers
    BY DEF Init
  <2>2. faults \in 0 .. MaxFaults
    BY PurchaseAssumption DEF Init
  <2>3. charge \in Charges /\ refund \in InProgress \cup {"NONE", "SUCCEEDED", "FAILED"}
    BY DEF Init, Charges
  <2> QED
    BY <2>1, <2>2, <2>3 DEF Init, TypeOK
<1>2. OpeningInv /\ ChargeInv /\ DecisionInv /\ RefundInv
  BY DEF Init, OpeningInv, ChargeInv, DecisionInv, RefundInv, InProgress
<1>3. TicketInv /\ TicketPaidFor /\ DrawIsSettled /\ BooksAgree /\ RefundMatchesProvider
  BY DEF Init, TicketInv, TicketPaidFor, DrawIsSettled, BooksAgree, RefundMatchesProvider
<1> QED
  BY <1>1, <1>2, <1>3 DEF IInv

\* What the engine and an administrator do to the draw.
LEMMA DrawKeeps ==
  ASSUME IInv, DrawSteps
  PROVE  IInv'
<1> USE DEF IInv, TypeOK, OpeningInv, ChargeInv, DecisionInv, RefundInv, TicketInv, TicketPaidFor,
            DrawIsSettled, BooksAgree, RefundMatchesProvider,
            fixed, drawVars, chargeVars, rowVars, books, callVars
<1>1. ASSUME Cutoff PROVE IInv'
  BY <1>1 DEF Cutoff
<1>2. ASSUME CancelDraw PROVE IInv'
  BY <1>2 DEF CancelDraw
<1>3. ASSUME FreezePool, ticket = "ACTIVE" PROVE IInv'
  <2>1. pool' = TRUE
    BY <1>3 DEF FreezePool
  <2> QED
    BY <1>3, <2>1 DEF FreezePool
<1>4. ASSUME FreezePool, ticket # "ACTIVE" PROVE IInv'
  <2>1. pool' = FALSE
    BY <1>4 DEF FreezePool
  <2> QED
    BY <1>4, <2>1 DEF FreezePool
<1>5. ASSUME PublishResult PROVE IInv'
  BY <1>5 DEF PublishResult
<1> QED
  BY <1>1, <1>2, <1>3, <1>4, <1>5 DEF DrawSteps

\* The checkout and the customer at the provider's page.
LEMMA CheckoutKeeps ==
  ASSUME IInv, CheckoutSteps
  PROVE  IInv'
<1> USE DEF IInv, TypeOK, OpeningInv, ChargeInv, DecisionInv, RefundInv, TicketInv, TicketPaidFor,
            DrawIsSettled, BooksAgree, RefundMatchesProvider,
            fixed, drawVars, chargeVars, rowVars, books, callVars, Charges
<1>1. ASSUME CheckoutOpens PROVE IInv'
  BY <1>1 DEF CheckoutOpens
<1>2. ASSUME CheckoutFails PROVE IInv'
  BY <1>2 DEF CheckoutFails
<1>3. ASSUME CustomerActs PROVE IInv'
  BY <1>3 DEF CustomerActs
<1> QED
  BY <1>1, <1>2, <1>3 DEF CheckoutSteps

\* Every provider's answer is one the code distinguishes, and says that the money
\* came in time only when it did: where no time of payment is given, the clock of the
\* verification is later than the payment.
LEMMA AnswerIsTrue ==
  ASSUME TypeOK, ChargeInv, Verify
  PROVE  \E v \in Verifications :
           /\ verified' = verified \cup {v}
           /\ v = "IN_TIME" => charge = "PAID" /\ ~late
<1> DEFINE True(v) == v \in Verifications /\ (v = "IN_TIME" => charge = "PAID" /\ ~late)
<1>1. ASSUME NEW s \in {"SUCCESS", "FAILED", "PENDING"}, s = "SUCCESS" => charge = "PAID"
      PROVE  True(Verification(s))
  BY <1>1 DEF Verification, Verifications, AtOrAfterCutoff, ChargeInv
<1>2. /\ PaystackStatus \in {"SUCCESS", "FAILED", "PENDING"}
      /\ PaystackStatus = "SUCCESS" => charge = "PAID"
  BY DEF PaystackStatus
<1>3. /\ MonnifyStatus \in {"SUCCESS", "FAILED", "PENDING"}
      /\ MonnifyStatus = "SUCCESS" => charge = "PAID"
  BY DEF MonnifyStatus
<1>4. /\ FlutterwaveStatus \in {"SUCCESS", "FAILED", "PENDING"}
      /\ FlutterwaveStatus = "SUCCESS" => charge = "PAID"
  BY DEF FlutterwaveStatus
<1> QED
  BY <1>1, <1>2, <1>3, <1>4 DEF Verify, VerifyPaystack, VerifyMonnify, VerifyFlutterwave, Answer

\* Verifications asked for by webhooks and by the customer's page.
LEMMA VerifyKeeps ==
  ASSUME IInv, VerifySteps
  PROVE  IInv'
<1> USE DEF IInv, TypeOK, OpeningInv, ChargeInv, DecisionInv, RefundInv, TicketInv, TicketPaidFor,
            DrawIsSettled, BooksAgree, RefundMatchesProvider,
            fixed, drawVars, chargeVars, rowVars, books, callVars
<1>1. ASSUME Webhook \/ Poll PROVE IInv'
  <2>1. PICK v \in Verifications :
          verified' = verified \cup {v} /\ (v = "IN_TIME" => charge = "PAID" /\ ~late)
    BY <1>1, AnswerIsTrue DEF Webhook, Poll
  <2>2. UNCHANGED <<gateway, flaw, draw, closed, pool, charge, late, opening, status, ticket, refund,
                    collection, accrual, settled, calling, sent, money, answers, faults>>
    BY <1>1 DEF Webhook, Poll
  <2>3. ~opening
    BY <1>1 DEF Webhook, Poll, PaystackEvent, FlutterwaveEvent, MonnifyEvent
  <2> QED
    BY <2>1, <2>2, <2>3
<1>2. ASSUME LoseVerification PROVE IInv'
  BY <1>2 DEF LoseVerification
<1> QED
  BY <1>1, <1>2 DEF VerifySteps

\* A verification applied to the locked row.
LEMMA ConfirmKeeps ==
  ASSUME IInv, NEW v \in Verifications, Confirm(v)
  PROVE  IInv'
<1> USE DEF IInv, TypeOK, OpeningInv, ChargeInv, DecisionInv, RefundInv, TicketInv, TicketPaidFor,
            DrawIsSettled, BooksAgree, RefundMatchesProvider
<1>1. /\ v \in verified /\ verified' = verified \ {v}
      /\ UNCHANGED <<gateway, flaw, draw, closed, pool, charge, late, opening, refund, accrual,
                     settled, calling, sent, money, answers, faults>>
  BY DEF Confirm, fixed, drawVars, callVars
<1>2. ~opening
  BY <1>1
<1>3. ASSUME Ignore \/ LeavePending(v) PROVE IInv'
  BY <1>1, <1>3 DEF Ignore, LeavePending
<1>4. ASSUME Reject(v) \/ ReviewMismatch(v) PROVE IInv'
  BY <1>1, <1>2, <1>4 DEF Reject, ReviewMismatch, Undecided
<1>5. ASSUME ReviewCollection(v) \/ ReviewAmount(v) PROVE IInv'
  BY <1>1, <1>2, <1>5 DEF ReviewCollection, ReviewAmount, Undecided, Collect
<1>6. ASSUME IssueTickets(v) PROVE IInv'
  BY <1>1, <1>2, <1>6 DEF IssueTickets, Undecided, Collect, Unsafe, Fulfillable
<1> QED
  BY <1>3, <1>4, <1>5, <1>6 DEF Confirm

\* The refund at the provider.
LEMMA ProviderKeeps ==
  ASSUME IInv, ProviderSteps
  PROVE  IInv'
<1> USE DEF IInv, TypeOK, OpeningInv, ChargeInv, DecisionInv, RefundInv, TicketInv, TicketPaidFor,
            DrawIsSettled, BooksAgree, RefundMatchesProvider,
            fixed, drawVars, chargeVars, rowVars, books, callVars
<1>1. ASSUME RefundArrives PROVE IInv'
  <2>1. /\ sent /\ sent' = FALSE /\ money' \in {"PENDING", "REFUSED"}
        /\ UNCHANGED <<gateway, flaw, draw, closed, pool, charge, late, opening, verified, status,
                       ticket, refund, collection, accrual, settled, calling, answers, faults>>
    BY <1>1 DEF RefundArrives
  <2>2. money = "NONE" /\ refund \notin {"NONE", "FAILED", "SUCCEEDED"} /\ ~pool
    BY <2>1
  <2>3. TypeOK' /\ RefundInv'
    BY <2>1, <2>2
  <2>4. DrawIsSettled' /\ RefundMatchesProvider'
    BY <2>1, <2>2
  <2>5. OpeningInv' /\ ChargeInv' /\ DecisionInv' /\ TicketInv' /\ TicketPaidFor' /\ BooksAgree'
    BY <2>1
  <2> QED
    BY <2>3, <2>4, <2>5
<1>2. ASSUME RefundMoves PROVE IInv'
  <2>1. /\ money \in {"PENDING", "STARTED"} /\ money' \in {"STARTED", "PAID", "REFUSED"}
        /\ UNCHANGED <<gateway, flaw, draw, closed, pool, charge, late, opening, verified, status,
                       ticket, refund, collection, accrual, settled, calling, sent, answers, faults>>
    BY <1>2 DEF RefundMoves
  <2>2. ~sent /\ refund \notin {"NONE", "FAILED", "SUCCEEDED"}
    BY <2>1
  <2> QED
    BY <2>1, <2>2
<1>3. ASSUME RefundLost PROVE IInv'
  <2>1. /\ sent' = FALSE
        /\ UNCHANGED <<gateway, flaw, draw, closed, pool, charge, late, opening, verified, status,
                       ticket, refund, collection, accrual, settled, calling, money, answers, faults>>
    BY <1>3 DEF RefundLost
  <2>2. TypeOK'
    <3>1. sent' \in BOOLEAN
      BY <2>1
    <3>2. calling' \in BOOLEAN /\ settled' \in BOOLEAN
      BY <2>1
    <3>3. opening' \in BOOLEAN /\ closed' \in BOOLEAN /\ pool' \in BOOLEAN /\ late' \in BOOLEAN
      BY <2>1
    <3> QED
      BY <2>1, <3>1, <3>2, <3>3
  <2>4. RefundInv'
    BY <2>1
  <2>3. /\ OpeningInv' /\ ChargeInv' /\ DecisionInv' /\ TicketInv' /\ TicketPaidFor' /\ BooksAgree'
        /\ DrawIsSettled' /\ RefundMatchesProvider'
    BY <2>1
  <2> QED
    BY <2>2, <2>3, <2>4
<1> QED
  BY <1>1, <1>2, <1>3 DEF ProviderSteps

\* What each provider reports of a refund becomes an answer that is conclusive only
\* when the money is where the answer says.
LEMMA ReportIsTrue ==
  ASSUME TypeOK, money # "NONE"
  PROVE  \A a \in {MonnifyReport, PaystackReport, FlutterwaveReport} :
           /\ a \in RefundAnswers
           /\ a = "FAILED" => money = "REFUSED"
           /\ a = "SUCCEEDED" => money = "PAID"
BY DEF TypeOK, MonnifyReport, PaystackReport, FlutterwaveReport, RefundAnswers

\* The refund desk's requests: nothing but answers and the call itself.
LEMMA AskKeeps ==
  ASSUME IInv, InitiationAnswers \/ InitiationThrows \/ Refresh \/ RefreshInVain
  PROVE  IInv'
<1> USE DEF IInv, TypeOK, OpeningInv, ChargeInv, DecisionInv, RefundInv, TicketInv, TicketPaidFor,
            DrawIsSettled, BooksAgree, RefundMatchesProvider
<1> DEFINE True(a) == /\ a \in RefundAnswers
                      /\ a = "FAILED" => money = "REFUSED"
                      /\ a = "SUCCEEDED" => money = "PAID"
<1>1. \E a : True(a) /\ answers' = answers \cup {a}
  <2>1. True(Unreadable)
    BY DEF Unreadable, RefundAnswers
  <2>2. gateway \in {"PAYSTACK", "MONNIFY", "FLUTTERWAVE"}
    BY PurchaseAssumption
  <2>3. money # "NONE" => True(MonnifyReport) /\ True(PaystackReport) /\ True(FlutterwaveReport)
    BY ReportIsTrue
  <2>4. money # "NONE" => True(ProviderSays)
    BY <2>2, <2>3 DEF ProviderSays
  <2>5. ASSUME InitiationAnswers
        PROVE  \/ answers' = answers \cup {MonnifyReport} /\ money # "NONE"
               \/ answers' = answers \cup {PaystackReport} /\ money # "NONE"
               \/ answers' = answers \cup {FlutterwaveReport} /\ money # "NONE"
    BY <2>5 DEF InitiationAnswers, InitiateMonnify, InitiatePaystack, InitiateFlutterwave, Answered
  <2>6. ASSUME InitiationThrows \/ RefreshInVain
        PROVE  answers' = answers \cup {Unreadable}
    BY <2>6 DEF InitiationThrows, RefreshInVain, Answered
  <2>7. ASSUME Refresh
        PROVE  answers' = answers \cup {ProviderSays} /\ money # "NONE"
    BY <2>7 DEF Refresh, MonnifyRefund, PaystackRefund, FlutterwaveRefund, Answered
  <2> HIDE DEF True
  <2> QED
    BY <2>1, <2>3, <2>4, <2>5, <2>6, <2>7
<1>2. refund # "NONE"
  BY DEF InitiationAnswers, InitiationThrows, Refresh, RefreshInVain, MayRefresh, InProgress
<1>3. UNCHANGED <<gateway, flaw, draw, closed, pool, charge, late, opening, verified, status,
                  ticket, refund, collection, accrual, settled, sent, money>>
  BY DEF InitiationAnswers, InitiationThrows, Refresh, RefreshInVain,
         fixed, drawVars, chargeVars, rowVars, books
<1>4. calling' \in BOOLEAN /\ faults' \in 0 .. MaxFaults
  <2>1. ASSUME InitiationAnswers \/ Refresh
        PROVE  (calling' = FALSE \/ calling' = calling) /\ faults' = faults
    BY <2>1 DEF InitiationAnswers, Refresh
  <2>2. ASSUME InitiationThrows \/ RefreshInVain
        PROVE  (calling' = FALSE \/ calling' = calling) /\ faults < MaxFaults /\ faults' = faults + 1
    BY <2>2 DEF InitiationThrows, RefreshInVain
  <2>3. calling' \in BOOLEAN
    BY <2>1, <2>2
  <2>4. faults \in 0 .. MaxFaults /\ MaxFaults \in Nat
    BY PurchaseAssumption
  <2>5. ASSUME faults' = faults \/ (faults < MaxFaults /\ faults' = faults + 1)
        PROVE  faults' \in 0 .. MaxFaults
    BY <2>4, <2>5
  <2> QED
    BY <2>1, <2>2, <2>3, <2>5
<1>5. PICK a : True(a) /\ answers' = answers \cup {a}
  BY <1>1
<1>6. TypeOK'
  BY <1>3, <1>4, <1>5
<1>7. RefundInv'
  BY <1>2, <1>3, <1>5
<1> QED
  BY <1>3, <1>6, <1>7

\* A refund is requested, asked about, or forgotten in a crash.
LEMMA RefundKeeps ==
  ASSUME IInv, RefundSteps
  PROVE  IInv'
<1> USE DEF IInv, TypeOK, OpeningInv, ChargeInv, DecisionInv, RefundInv, TicketInv, TicketPaidFor,
            DrawIsSettled, BooksAgree, RefundMatchesProvider,
            fixed, drawVars, chargeVars, rowVars, books
<1>1. ASSUME RequestRefund PROVE IInv'
  <2>1. /\ collection' \in {collection, Source}
        /\ collection # "NONE" => collection' = collection
        /\ accrual' = accrual \/ (accrual' = Source /\ collection' # "NONE")
    BY <1>1 DEF RequestRefund, CollectFirst, Collect, Accrue, Source
  <2>2. /\ status \in {"CONFIRMED", "REVIEW_REQUIRED"} /\ refund = "NONE" /\ ticket # "WINNING"
        /\ status = "CONFIRMED" => draw \in {"OPEN", "CANCELLED"}
        /\ status' = "REFUND_PENDING" /\ refund' = "REQUESTED"
        /\ ticket' = IF ticket = "ACTIVE" THEN "REFUND_PENDING" ELSE ticket
        /\ calling' = TRUE /\ sent' = TRUE
        /\ UNCHANGED <<gateway, flaw, draw, closed, pool, charge, late, opening, verified, settled,
                       money, answers, faults>>
    BY <1>1 DEF RequestRefund, MayRefund, OutOfDraw
  <2> QED
    BY <2>1, <2>2 DEF Source, InProgress
<1>2. ASSUME InitiationAnswers \/ InitiationThrows \/ Refresh \/ RefreshInVain PROVE IInv'
  BY <1>2, AskKeeps
<1>3. ASSUME Crash PROVE IInv'
  <2>1. /\ calling' = FALSE /\ answers' = {}
        /\ UNCHANGED <<gateway, flaw, draw, closed, pool, charge, late, opening, verified, status,
                       ticket, refund, collection, accrual, settled, sent, money>>
    BY <1>3 DEF Crash
  <2>2. faults' \in 0 .. MaxFaults
    BY <1>3, PurchaseAssumption DEF Crash
  <2>3. TypeOK'
    <3>1. calling' \in BOOLEAN /\ answers' \subseteq RefundAnswers
      BY <2>1
    <3>2. sent' \in BOOLEAN /\ settled' \in BOOLEAN
      BY <2>1
    <3>3. opening' \in BOOLEAN /\ closed' \in BOOLEAN /\ pool' \in BOOLEAN /\ late' \in BOOLEAN
      BY <2>1
    <3> QED
      BY <2>1, <2>2, <3>1, <3>2, <3>3
  <2>4. RefundInv'
    BY <2>1
  <2>5. /\ OpeningInv' /\ ChargeInv' /\ DecisionInv' /\ TicketInv' /\ TicketPaidFor' /\ BooksAgree'
        /\ DrawIsSettled' /\ RefundMatchesProvider'
    BY <2>1
  <2> QED
    BY <2>3, <2>4, <2>5
<1> QED
  BY <1>1, <1>2, <1>3 DEF RefundSteps

\* An answer about the refund applied to the locked row.
LEMMA ApplyKeeps ==
  ASSUME IInv, NEW a \in RefundAnswers, Apply(a)
  PROVE  IInv'
<1> USE DEF IInv, TypeOK, OpeningInv, ChargeInv, DecisionInv, RefundInv, TicketInv, TicketPaidFor,
            DrawIsSettled, BooksAgree, RefundMatchesProvider
<1>1. /\ a \in answers /\ answers' = answers \ {a}
      /\ UNCHANGED <<gateway, flaw, draw, closed, pool, charge, late, opening, verified, collection,
                     accrual, calling, sent, money, faults>>
  BY DEF Apply, fixed, drawVars, chargeVars
<1>2. refund # "NONE"
  BY <1>1
<1>3. ASSUME a = "SUCCEEDED", MarkSucceeded PROVE IInv'
  <2>1. money = "PAID" /\ ~pool /\ ~sent
    BY <1>1, <1>2, <1>3
  <2>2. CASE UNCHANGED <<rowVars, settled>>
    BY <1>1, <2>2 DEF rowVars
  <2>3. CASE status = "REFUND_PENDING" /\ accrual # "NONE" /\ Complete
    <3>1. /\ status' = "REFUNDED" /\ refund' = "SUCCEEDED" /\ settled' = TRUE
          /\ ticket' = IF ticket = "REFUND_PENDING" THEN "EXPIRED" ELSE ticket
      BY <2>3 DEF Complete, Settle
    <3>2. RefundInv'
      BY <1>1, <2>1, <3>1 DEF InProgress
    <3>4. TypeOK' /\ RefundMatchesProvider' /\ DrawIsSettled'
      BY <1>1, <2>1, <3>1
    <3>3. OpeningInv' /\ ChargeInv' /\ DecisionInv' /\ TicketInv' /\ TicketPaidFor' /\ BooksAgree'
      BY <1>1, <2>3, <3>1
    <3> QED
      BY <3>2, <3>3, <3>4
  <2>4. CASE StillRunning /\ SettlementThrows
    BY <1>1, <2>1, <2>4 DEF StillRunning, InProgress, SettlementThrows
  <2> QED
    BY <1>3, <2>2, <2>3, <2>4 DEF MarkSucceeded, MaySettle
<1>4. ASSUME a = "FAILED", MarkFailed PROVE IInv'
  BY <1>1, <1>2, <1>4 DEF MarkFailed, StillRunning, InProgress, rowVars
<1>5. ASSUME MarkPending PROVE IInv'
  BY <1>1, <1>2, <1>5 DEF MarkPending, StillRunning, InProgress, rowVars
<1> QED
  BY <1>3, <1>4, <1>5 DEF Apply

\* Every step keeps the invariant.
LEMMA StepKeeps == IInv /\ [Next]_vars => IInv'
<1> SUFFICES ASSUME IInv, [Next]_vars PROVE IInv'
  OBVIOUS
<1>1. ASSUME UNCHANGED vars PROVE IInv'
  BY <1>1 DEF vars, fixed, drawVars, chargeVars, rowVars, books, callVars, IInv, TypeOK, OpeningInv,
              ChargeInv, DecisionInv, RefundInv, TicketInv, TicketPaidFor, DrawIsSettled, BooksAgree,
              RefundMatchesProvider
<1> QED
  BY <1>1, DrawKeeps, CheckoutKeeps, VerifyKeeps, ProviderKeeps, RefundKeeps, ConfirmKeeps, ApplyKeeps
  DEF Next

\* The whole invariant, of which each property below is a part.
LEMMA Invariant == Spec => []IInv
BY Initially, StepKeeps, PTL DEF Spec

\* The row, the provider and the requests stay in the states the code distinguishes.
THEOREM Typed == Spec => []TypeOK
<1>1. IInv => TypeOK
  BY DEF IInv
<1> QED
  BY <1>1, Invariant, PTL

\* No ticket without money that came before the cutoff and is booked as revenue, in
\* whatever order and however often webhooks, polls and confirmations meet.
THEOREM TicketsArePaidFor == Spec => []TicketPaidFor
<1>1. IInv => TicketPaidFor
  BY DEF IInv
<1> QED
  BY <1>1, Invariant, PTL

\* The ticket of a confirmed payment is in the frozen pool, and no ticket of that pool
\* is ever refunded.
THEOREM DrawSettled == Spec => []DrawIsSettled
<1>1. IInv => DrawIsSettled
  BY DEF IInv
<1> QED
  BY <1>1, Invariant, PTL

\* A refund leaves the account its money was booked on.
THEOREM PurchaseBooksAgree == Spec => []BooksAgree
<1>1. IInv => BooksAgree
  BY DEF IInv
<1> QED
  BY <1>1, Invariant, PTL

\* A refund recorded as failed returned nothing, one recorded as paid did.
THEOREM RefundsMatchTheProvider == Spec => []RefundMatchesProvider
<1>1. IInv => RefundMatchesProvider
  BY DEF IInv
<1> QED
  BY <1>1, Invariant, PTL
-----------------------------------------------------------------------------
(* The payment keeps the contract of TicketOrder with its draw: the        *)
(* inductive invariant tells which step of the contract a step is.         *)

\* A payment that has been charged to nobody is an open order in an open draw.
LEMMA OrderInit == Init => O!Init
BY DEF Init, O!Init, OrderState, TicketState, DrawState, Result

\* The contract sees the decision, the ticket, the draw and its pool; of the refund
\* only whether it failed.
LEMMA OrderUnseen ==
  ASSUME UNCHANGED <<status, ticket, draw, pool>>,
         refund' # refund => refund # "FAILED" /\ refund' # "FAILED"
  PROVE  UNCHANGED O!vars
BY DEF O!vars, OrderState, TicketState, DrawState, Result

\* The draw is cancelled, started with the tickets that are in it, and published.
LEMMA OrderOfDraw ==
  ASSUME IInv, CancelDraw \/ FreezePool \/ PublishResult
  PROVE  O!Next
<1> USE DEF IInv, TypeOK, TicketInv, DrawIsSettled, fixed, chargeVars, rowVars, books, callVars
<1>1. OrderState' = OrderState
  BY DEF CancelDraw, FreezePool, PublishResult, OrderState
<1>2. ASSUME CancelDraw PROVE O!Cancel
  BY <1>1, <1>2 DEF CancelDraw, O!Cancel, DrawState, TicketState, Result
<1>3. ASSUME FreezePool PROVE O!Start
  BY <1>1, <1>3 DEF FreezePool, O!Start, DrawState, TicketState, Result
<1>4. ASSUME PublishResult PROVE O!Publish
  <2>1. /\ DrawState = "RUNNING" /\ DrawState' = "DRAWN" /\ Result = "NONE"
        /\ Result' = IF pool THEN "WITH" ELSE "WITHOUT"
    BY <1>4 DEF PublishResult, DrawState, Result
  <2>2. CASE pool
    <3>1. TicketState = "IN" /\ TicketState' \in {"IN", "WON"}
      BY <1>4, <2>2 DEF PublishResult, TicketState
    <3> QED
      BY <1>1, <2>1, <2>2, <3>1 DEF O!Publish
  <2>3. CASE ~pool
    <3>1. TicketState # "IN" /\ TicketState' = TicketState
      BY <1>4, <2>3 DEF PublishResult, TicketState
    <3> QED
      BY <1>1, <2>1, <2>3, <3>1 DEF O!Publish
  <2> QED
    BY <2>2, <2>3
<1> QED
  BY <1>2, <1>3, <1>4 DEF O!Next

\* The draw, its result and what the contract sees of them.
LEMMA DrawUnseen ==
  ASSUME UNCHANGED <<draw, pool>>
  PROVE  UNCHANGED <<DrawState, Result>>
BY DEF DrawState, Result

\* A payment is decided once: with a ticket in an open draw, or without one.
LEMMA OrderOfDecision ==
  ASSUME IInv, CheckoutFails \/ \E v \in Verifications : Confirm(v)
  PROVE  O!Next \/ UNCHANGED O!vars
<1> USE DEF IInv, OpeningInv, DecisionInv, fixed, drawVars, callVars
<1>1. UNCHANGED <<draw, pool, refund>>
  BY DEF CheckoutFails, Confirm
<1>2. UNCHANGED <<DrawState, Result>>
  BY <1>1, DrawUnseen
<1>3. ASSUME status = "PENDING", status' \in {"FAILED", "REVIEW_REQUIRED"}, ticket' = ticket
      PROVE  O!Next
  <2>1. OrderState = "OPEN" /\ OrderState' \in {"REFUSED", "HELD"} /\ TicketState' = TicketState
    BY <1>1, <1>3 DEF OrderState, TicketState
  <2> QED
    BY <1>2, <2>1 DEF O!Next, O!Refuse, O!Hold, O!Decide
<1>4. ASSUME CheckoutFails PROVE O!Next
  BY <1>3, <1>4 DEF CheckoutFails
<1>5. ASSUME NEW v \in Verifications, Confirm(v) PROVE O!Next \/ UNCHANGED O!vars
  <2>1. CASE Ignore \/ LeavePending(v)
    BY <1>1, <2>1, OrderUnseen DEF Ignore, LeavePending
  <2>2. CASE Reject(v) \/ ReviewMismatch(v) \/ ReviewCollection(v) \/ ReviewAmount(v)
    BY <1>3, <2>2 DEF Reject, ReviewMismatch, ReviewCollection, ReviewAmount, Undecided
  <2>3. CASE IssueTickets(v)
    <3>1. /\ OrderState = "OPEN" /\ OrderState' = "BOUGHT" /\ DrawState = "OPEN"
          /\ TicketState = "NONE" /\ TicketState' = "IN"
      BY <2>3 DEF IssueTickets, Undecided, Unsafe, Fulfillable, OrderState, TicketState, DrawState
    <3> QED
      BY <1>2, <3>1 DEF O!Next, O!Buy, O!Decide
  <2> QED
    BY <1>5, <2>1, <2>2, <2>3 DEF Confirm
<1> QED
  BY <1>4, <1>5

\* The money goes back only while the draw is open or cancelled, or for a payment that
\* never became a ticket; a refund that failed is not tried again.
LEMMA OrderOfRefund ==
  ASSUME IInv, RequestRefund \/ \E a \in RefundAnswers : Apply(a)
  PROVE  O!Next \/ UNCHANGED O!vars
<1> USE DEF IInv, TypeOK, DecisionInv, RefundInv, TicketInv, TicketPaidFor, fixed, drawVars, chargeVars
<1>1. UNCHANGED <<draw, pool>>
  BY DEF RequestRefund, Apply
<1>2. UNCHANGED <<DrawState, Result>>
  BY <1>1, DrawUnseen
<1>3. ASSUME RequestRefund PROVE O!Next
  <2>1. /\ status \in {"CONFIRMED", "REVIEW_REQUIRED"} /\ refund = "NONE"
        /\ status = "CONFIRMED" => draw \in {"OPEN", "CANCELLED"}
        /\ status' = "REFUND_PENDING"
        /\ ticket' = IF ticket = "ACTIVE" THEN "REFUND_PENDING" ELSE ticket
    BY <1>3 DEF RequestRefund, MayRefund, OutOfDraw
  <2>2. /\ OrderState = "HELD" \/ (OrderState = "BOUGHT" /\ DrawState \in {"OPEN", "CANCELLED"})
        /\ OrderState' = "RETURNING"
    BY <2>1 DEF OrderState, DrawState
  <2>3. ticket = "DRAWN" => FALSE
    BY <2>1
  <2>4. TicketState' = IF TicketState = "IN" THEN "OUT" ELSE TicketState
    BY <2>1, <2>3 DEF TicketState
  <2> QED
    BY <1>2, <2>2, <2>4 DEF O!Next, O!Reserve
<1>4. ASSUME refund \in InProgress, status' \in {"REFUNDED", "REVIEW_REQUIRED"},
             status' = "REVIEW_REQUIRED" => refund' = "FAILED",
             ticket' = ticket \/ (ticket = "REFUND_PENDING" /\ ticket' = "EXPIRED")
      PROVE  O!Next
  <2>1. OrderState = "RETURNING" /\ OrderState' \in {"RETURNED", "KEPT"}
    BY <1>4 DEF OrderState
  <2>2. TicketState' = TicketState
    BY <1>4 DEF TicketState
  <2> QED
    BY <1>2, <2>1, <2>2 DEF O!Next, O!Settle
<1>5. ASSUME NEW a \in RefundAnswers, Apply(a) PROVE O!Next \/ UNCHANGED O!vars
  <2>1. CASE UNCHANGED rowVars
    BY <1>1, <2>1, OrderUnseen DEF rowVars
  <2>2. CASE StillRunning /\ Complete
    BY <1>4, <2>2 DEF StillRunning, Complete
  <2>3. CASE StillRunning /\ (SettlementThrows \/ MarkPending)
    BY <1>1, <2>3, OrderUnseen DEF StillRunning, SettlementThrows, MarkPending, InProgress
  <2>4. CASE StillRunning /\ MarkFailed
    BY <1>4, <2>4 DEF StillRunning, MarkFailed
  <2> QED
    BY <1>5, <2>1, <2>2, <2>3, <2>4 DEF Apply, MarkSucceeded, MarkFailed, MarkPending
<1> QED
  BY <1>3, <1>5

\* Every step is a step of the contract, or nothing the draw could see.
LEMMA OrderStep == IInv /\ [Next]_vars => [O!Next]_(O!vars)
<1> SUFFICES ASSUME IInv, [Next]_vars PROVE O!Next \/ UNCHANGED O!vars
  OBVIOUS
<1> USE DEF fixed, drawVars, chargeVars, rowVars, books, callVars
<1>1. CASE Cutoff \/ CheckoutOpens \/ CustomerActs
  BY <1>1, OrderUnseen DEF Cutoff, CheckoutOpens, CustomerActs
<1>2. CASE VerifySteps \/ ProviderSteps
  BY <1>2, OrderUnseen DEF VerifySteps, Webhook, Poll, LoseVerification,
                           ProviderSteps, RefundArrives, RefundMoves, RefundLost
<1>3. CASE InitiationAnswers \/ InitiationThrows \/ Refresh \/ RefreshInVain \/ Crash
  BY <1>3, OrderUnseen DEF InitiationAnswers, InitiationThrows, Refresh, RefreshInVain, Crash
<1>4. CASE UNCHANGED vars
  BY <1>4, OrderUnseen DEF vars
<1> QED
  BY <1>1, <1>2, <1>3, <1>4, OrderOfDraw, OrderOfDecision, OrderOfRefund
  DEF Next, DrawSteps, CheckoutSteps, RefundSteps

\* However late, often or out of order the providers answer, the payment buys a ticket
\* only in an open draw, and takes it back only out of one that is open or cancelled:
\* what DrawEngine assumes of each of its gateway tickets.
THEOREM PurchaseKeepsTicketOrder == Spec => ImplementsTicketOrder
<1>1. Spec => O!Init
  BY OrderInit DEF Spec
<1>2. Spec => [][O!Next]_(O!vars)
  BY OrderStep, Invariant, PTL DEF Spec
<1> QED
  BY <1>1, <1>2 DEF ImplementsTicketOrder, O!Spec
=============================================================================
