------------------------------- MODULE Jackpot -------------------------------
(***************************************************************************)
(* The jackpot promotion for one phone number: every PerOffer tickets      *)
(* bought in the weekly cycle of a Saturday jackpot unlock an offer, and   *)
(* an offer buys one ticket of that jackpot at a lower price, over the     *)
(* payment provider or from the wallet.                                    *)
(*                                                                         *)
(* Sales of agents and confirmations of payments are transactions at READ  *)
(* COMMITTED: what they read may be old when they write. Purchases from    *)
(* the wallet are Serializable and take place in one step.                 *)
(***************************************************************************)
EXTENDS Integers, FiniteSets

CONSTANTS
    Sales,      \* sales of daily tickets to the phone number
    Online,     \* those paid through the provider
    Quantities, \* tickets of one sale
    PerOffer,   \* TICKETS_PER_DISCOUNT_OFFER (10)
    MaxThreshold, \* a threshold the sales do not go beyond
    Weeks,      \* jackpots held one after the other
    Attempts    \* checkouts of offers at the provider

ASSUME JackpotAssumption ==
    /\ Online \subseteq Sales /\ IsFiniteSet(Sales)
    /\ Quantities \subseteq Nat \ {0} /\ IsFiniteSet(Quantities)
    /\ PerOffer \in Nat \ {0} /\ Weeks \in Nat /\ MaxThreshold \in Nat
    /\ \A q \in Quantities : (Cardinality(Sales) * q) \div PerOffer <= MaxThreshold

VARIABLES
    week, open, \* the latest jackpot, and whether it is ACTIVE before its cutoff
    accum,      \* jackpot_accumulations: cycleDrawId and cumulativeCount
    sale,       \* what became of a sale
    seen,       \* ... and what its transaction has read
    sold,       \* tickets of the sales that began or ended in a week
    offer,      \* jackpot_discount_offers.status
    fresh,      \* claimingAt is less than 15 minutes old
    counted,    \* offers whose release has found no active attempt
    tickets,    \* tickets bought with the offer
    pay, payFor,\* payment_transactions.status, its offer
    charge      \* when the customer paid, if at all

clock    == <<week, open>>
progress == <<accum, sale, seen, sold>>
offers   == <<offer, fresh, counted, tickets>>
payments == <<pay, payFor, charge>>
vars == <<clock, progress, offers, payments>>

\* An offer is unique for a phone number, a jackpot and a threshold.
Offers  == (1 .. Weeks) \X (1 .. MaxThreshold)
NoOffer == <<0, 0>>

Final == {"CLAIMED", "DECLINED", "EXPIRED"}

Unread == [week |-> 0, quantity |-> 0, same |-> FALSE, count |-> 0]

\* ACTIVE_PAYMENT_STATUSES.
Active == {"PENDING", "CONFIRMED", "REVIEW_REQUIRED", "REFUND_PENDING"}

Init ==
    /\ week = 0 /\ open = FALSE
    /\ accum = [cycle |-> 0, count |-> 0]
    /\ sale = [s \in Sales |-> "NONE"]
    /\ seen = [s \in Sales |-> Unread]
    /\ sold = [w \in 0 .. Weeks |-> 0]
    /\ offer = [o \in Offers |-> "NONE"] /\ fresh = [o \in Offers |-> FALSE]
    /\ counted = {} /\ tickets = [o \in Offers |-> 0]
    /\ pay = [a \in Attempts |-> "NONE"] /\ payFor = [a \in Attempts |-> NoOffer]
    /\ charge = [a \in Attempts |-> "NO"]

-----------------------------------------------------------------------------
(* The jackpot of the week *)

OpenJackpot ==
    /\ ~open /\ week < Weeks
    /\ open' = TRUE /\ week' = week + 1
    /\ UNCHANGED <<progress, offers, payments>>

Cutoff ==
    /\ open
    /\ open' = FALSE
    /\ UNCHANGED <<week, progress, offers, payments>>

Current == IF open THEN week ELSE 0

-----------------------------------------------------------------------------
(* recordDailyPurchase, inside the transaction of each sale *)

\* (The phone number has a count:)
AnyCycle == accum.cycle # 0

SameCycle == accum.cycle = Current

Read(q) ==
    [week |-> Current, quantity |-> q, same |-> SameCycle,
     count |-> IF SameCycle THEN accum.count ELSE 0]

\* The row's own count is increased; another cycle's is replaced.
NewCount(r) == IF r.same THEN accum.count + r.quantity ELSE r.quantity

Threshold(n) == n \div PerOffer

Unlocked(r) ==
    {o \in Offers : o[1] = r.week /\ o[2] > Threshold(r.count) /\ o[2] <= Threshold(NewCount(r))}

\* Without an open jackpot nothing is banked. Offers that exist are skipped.
Record(r) ==
    IF r.week = 0
    THEN UNCHANGED <<accum, offer, sold>>
    ELSE /\ accum' = [cycle |-> IF r.same THEN accum.cycle ELSE r.week,
                      count |-> NewCount(r)]
         /\ offer' = [o \in Offers |->
                        IF o \in Unlocked(r) /\ offer[o] = "NONE" THEN "AVAILABLE" ELSE offer[o]]
         /\ sold' = [w \in 0 .. Weeks |->
                     sold[w] + IF w \in {r.week, week} THEN r.quantity ELSE 0]

\* The confirmation of a payment locks the daily draw until it commits; an agent's
\* sale locks nothing.
DrawLocked == \E s \in Online : sale[s] = "READ"

BeginSale(s, q) ==
    /\ sale[s] = "NONE"
    /\ s \in Online => ~DrawLocked
    /\ sale' = [sale EXCEPT ![s] = "READ"]
    /\ seen' = [seen EXCEPT ![s] = Read(q)]
    /\ UNCHANGED <<clock, accum, sold, offers, payments>>

CommitSale(s) ==
    /\ sale[s] = "READ"
    /\ sale' = [sale EXCEPT ![s] = "DONE"] /\ seen' = [seen EXCEPT ![s] = Unread]
    /\ Record(seen[s])
    /\ UNCHANGED <<clock, fresh, counted, tickets, payments>>

RollBackSale(s) ==
    /\ sale[s] = "READ"
    /\ sale' = [sale EXCEPT ![s] = "NONE"] /\ seen' = [seen EXCEPT ![s] = Unread]
    /\ UNCHANGED <<clock, accum, sold, offers, payments>>

\* From the wallet, under the lock of the same draw.
WalletSale(s, q) ==
    /\ sale[s] = "NONE" /\ ~DrawLocked
    /\ sale' = [sale EXCEPT ![s] = "DONE"]
    /\ Record(Read(q))
    /\ UNCHANGED <<clock, seen, fresh, counted, tickets, payments>>

-----------------------------------------------------------------------------
(* Requests of the customer about an offer *)

\* ensureNotExpired.
Expired(o) == o[1] # Current

ActivePayment(o) == \E a \in Attempts : payFor[a] = o /\ pay[a] \in Active

\* A wallet purchase is only seen once it is complete, and the offer then claimed.
ActiveAttempt(o) == ActivePayment(o) \/ tickets[o] > 0

\* normalizeCustomerOffers: the first thing each request does.
Normal(o) ==
    CASE offer[o] \in {"AVAILABLE", "CLAIMING"} /\ Expired(o) /\ ~ActiveAttempt(o)  -> "EXPIRED"
      [] offer[o] = "CLAIMING" /\ ~Expired(o) /\ ~fresh[o] /\ ~ActiveAttempt(o)     -> "AVAILABLE"
      [] OTHER                                                                      -> offer[o]

\* What is no longer CLAIMING has no claimingAt.
NormalOffers == offer' = [o \in Offers |-> Normal(o)]
Become(o, s) == offer' = [p \in Offers |-> IF p = o THEN s ELSE Normal(p)]
StillFresh   == [o \in Offers |-> fresh[o] /\ Normal(o) = "CLAIMING"]

\* current, get.
Look ==
    /\ NormalOffers /\ fresh' = StillFresh
    /\ UNCHANGED <<clock, progress, counted, tickets, payments>>

Reserve(o) ==
    /\ ~Expired(o) /\ Normal(o) = "AVAILABLE"
    /\ Become(o, "CLAIMING") /\ fresh' = [StillFresh EXCEPT ![o] = TRUE]
    /\ UNCHANGED <<clock, progress, counted, tickets, payments>>

Decline(o) ==
    /\ ~Expired(o) /\ Normal(o) = "AVAILABLE"
    /\ Become(o, "DECLINED") /\ fresh' = StillFresh
    /\ UNCHANGED <<clock, progress, counted, tickets, payments>>

\* With the reference of the confirmed purchase that unlocked it, and no account.
DeclineAsGuest(o) ==
    /\ ~Expired(o) /\ offer[o] = "AVAILABLE"
    /\ offer' = [offer EXCEPT ![o] = "DECLINED"]
    /\ UNCHANGED <<clock, progress, fresh, counted, tickets, payments>>

\* release counts the active attempts, and writes in a later statement.
BeginRelease(o) ==
    /\ ~Expired(o) /\ Normal(o) = "CLAIMING" /\ ~ActiveAttempt(o)
    /\ counted' = counted \cup {o}
    /\ UNCHANGED <<clock, progress, offer, fresh, tickets, payments>>

Release(o) ==
    /\ o \in counted
    /\ counted' = counted \ {o}
    /\ offer' = [offer EXCEPT ![o] = IF @ = "CLAIMING" THEN "AVAILABLE" ELSE @]
    /\ fresh' = [fresh EXCEPT ![o] = FALSE]
    /\ UNCHANGED <<clock, progress, tickets, payments>>

GoesStale(o) ==
    /\ fresh[o]
    /\ fresh' = [fresh EXCEPT ![o] = FALSE]
    /\ UNCHANGED <<clock, progress, offer, counted, tickets, payments>>

-----------------------------------------------------------------------------
(* Buying: reserveForPurchaseInTransaction locks the offer, then the draw *)

\* (In any state:)
Unexpired(o) == ~Expired(o) /\ offer[o] # "NONE"

MayBuy(o) == ~Expired(o) /\ offer[o] \in {"AVAILABLE", "CLAIMING"}

Renewed(o) ==
    offer[o] = "AVAILABLE" \/ (~fresh[o] /\ ~ActiveAttempt(o))

\* (One of the two:)
EitherRail(o) == TRUE

\* The wallet does not begin while a payment for the offer is active.
NoPayment(o) == ~ActivePayment(o)

Checkout(a, o) ==
    /\ pay[a] = "NONE"
    /\ MayBuy(o) /\ ~ActivePayment(o)
    /\ offer' = [offer EXCEPT ![o] = "CLAIMING"]
    /\ fresh' = [fresh EXCEPT ![o] = @ \/ Renewed(o)]
    /\ pay' = [pay EXCEPT ![a] = "PENDING"] /\ payFor' = [payFor EXCEPT ![a] = o]
    /\ UNCHANGED <<clock, progress, counted, tickets, charge>>

\* The provider is not reached, or says that the payment failed. After the first, a
\* release follows in a transaction of its own whose failure is ignored.
PaymentFails(a) ==
    /\ pay[a] = "PENDING" /\ charge[a] = "NO"
    /\ pay' = [pay EXCEPT ![a] = "FAILED"]
    /\ UNCHANGED <<clock, progress, offers, payFor, charge>>

\* A page that was given up can still be paid on.
CustomerPays(a) ==
    /\ pay[a] \in {"PENDING", "FAILED"} /\ charge[a] = "NO"
    /\ charge' = [charge EXCEPT ![a] = IF Expired(payFor[a]) THEN "LATE" ELSE "IN_TIME"]
    /\ UNCHANGED <<clock, progress, offers, pay, payFor>>

\* validatePromotionalPaymentInTransaction.
Valid(a) ==
    /\ offer[payFor[a]] = "CLAIMING"
    /\ tickets[payFor[a]] = 0
    /\ charge[a] = "IN_TIME"

\* (The offer stays reserved:)
TicketOnly(o) ==
    /\ tickets' = [tickets EXCEPT ![o] = @ + 1]
    /\ UNCHANGED <<offer, fresh>>

\* markClaimedInTransaction, and the ticket.
Redeem(o) ==
    /\ offer' = [offer EXCEPT ![o] = "CLAIMED"] /\ fresh' = [fresh EXCEPT ![o] = FALSE]
    /\ tickets' = [tickets EXCEPT ![o] = @ + 1]

ConfirmPayment(a) ==
    /\ pay[a] = "PENDING" /\ charge[a] # "NO" /\ Valid(a)
    /\ Redeem(payFor[a])
    /\ pay' = [pay EXCEPT ![a] = "CONFIRMED"]
    /\ UNCHANGED <<clock, progress, counted, payFor, charge>>

\* The offer, or after its cutoff the draw, does not allow it.
ReviewPayment(a) ==
    /\ pay[a] = "PENDING" /\ charge[a] # "NO"
    /\ ~Valid(a) \/ Expired(payFor[a])
    /\ pay' = [pay EXCEPT ![a] = "REVIEW_REQUIRED"]
    /\ UNCHANGED <<clock, progress, offers, payFor, charge>>

\* The refund desk (module Purchase has the whole of it): initiate, markSucceeded, markFailed.
RefundMoves(a) ==
    /\ \/ pay[a] \in {"CONFIRMED", "REVIEW_REQUIRED"}
          /\ pay' = [pay EXCEPT ![a] = "REFUND_PENDING"]
       \/ pay[a] = "REFUND_PENDING"
          /\ \E s \in {"REFUNDED", "REVIEW_REQUIRED"} : pay' = [pay EXCEPT ![a] = s]
    /\ UNCHANGED <<clock, progress, offers, payFor, charge>>

BuyFromWallet(o) ==
    /\ MayBuy(o) /\ NoPayment(o)
    /\ Redeem(o)
    /\ UNCHANGED <<clock, progress, counted, payments>>

-----------------------------------------------------------------------------
SaleSteps    == \E s \in Sales :
                    \/ \E q \in Quantities : BeginSale(s, q) \/ WalletSale(s, q)
                    \/ CommitSale(s) \/ RollBackSale(s)
OfferSteps   == \E o \in Offers :
                    \/ Reserve(o) \/ Decline(o) \/ DeclineAsGuest(o)
                    \/ BeginRelease(o) \/ Release(o) \/ GoesStale(o)
                    \/ BuyFromWallet(o)
                    \/ \E a \in Attempts : Checkout(a, o)
PaymentSteps == \E a \in Attempts :
                    \/ PaymentFails(a) \/ CustomerPays(a)
                    \/ ConfirmPayment(a) \/ ReviewPayment(a) \/ RefundMoves(a)

Next == OpenJackpot \/ Cutoff \/ SaleSteps \/ Look \/ OfferSteps \/ PaymentSteps

Spec == Init /\ [][Next]_vars

-----------------------------------------------------------------------------
TypeOK ==
    /\ week \in 0 .. Weeks /\ open \in BOOLEAN
    /\ accum.cycle \in 0 .. Weeks /\ accum.count \in Nat
    /\ sale \in [Sales -> {"NONE", "READ", "DONE"}]
    /\ \A s \in Sales : seen[s].week \in 0 .. Weeks /\ seen[s].count \in Nat
    /\ offer \in [Offers -> {"NONE", "AVAILABLE", "CLAIMING"} \cup Final]
    /\ fresh \in [Offers -> BOOLEAN] /\ counted \subseteq Offers
    /\ tickets \in [Offers -> 0 .. 1]
    /\ pay \in [Attempts -> Active \cup {"NONE", "FAILED", "REFUNDED"}]
    /\ payFor \in [Attempts -> Offers \cup {NoOffer}]
    /\ charge \in [Attempts -> {"NO", "IN_TIME", "LATE"}]

Issued(w) == {o \in Offers : o[1] = w /\ offer[o] # "NONE"}

\* No offer of the current jackpot without its tickets: a new week starts from
\* nothing, whatever sales overlap its beginning.
OffersAreEarned == open => Cardinality(Issued(week)) <= Threshold(sold[week])

\* "Second redemption rejected": the offer is claimed with its one ticket.
OneTicketPerOffer == \A o \in Offers : offer[o] = "CLAIMED" <=> tickets[o] = 1

\* Competing rails: nobody has paid, or may still pay with success, for an offer
\* that bought a ticket another way.
OneRail ==
    \A o \in Offers, a \in Attempts :
        tickets[o] = 1 /\ payFor[a] = o => pay[a] # "PENDING"

\* "Never reverts to AVAILABLE."
FinalStays == [][\A o \in Offers : offer[o] \in Final => offer'[o] = offer[o]]_vars

-----------------------------------------------------------------------------
(* The inductive invariant behind them *)

\* The count and what was read of it belong to weeks that have begun.
RecordInv ==
    /\ accum \in [cycle : 0 .. week, count : Nat]
    /\ seen \in [Sales -> [week : 0 .. week, quantity : Nat, same : BOOLEAN, count : Nat]]
    /\ sold \in [0 .. Weeks -> Nat]

\* No more is counted for the current jackpot, now or by a sale that adds to it, than
\* was sold, ...
CountInv ==
    accum.cycle = week \/ (\E s \in Sales : seen[s].same /\ seen[s].week = week)
        => accum.count <= sold[week]

\* ... and no offer is beyond that; none is there for a jackpot to come.
EarnedInv ==
    \A o \in Offers : offer[o] # "NONE" => o[1] <= week /\ (o[1] = week => o[2] <= Threshold(sold[week]))

\* A payment for an offer is the only active one.
AttemptInv ==
    /\ \A a \in Attempts : pay[a] # "NONE" => payFor[a] \in Offers
    /\ \A a, b \in Attempts : payFor[a] = payFor[b] /\ pay[a] \in Active /\ pay[b] \in Active => a = b

IInv == /\ TypeOK /\ RecordInv /\ CountInv /\ EarnedInv /\ AttemptInv
        /\ OneTicketPerOffer /\ OneRail
=============================================================================
