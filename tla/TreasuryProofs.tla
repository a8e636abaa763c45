----------------------------- MODULE TreasuryProofs -----------------------------
(***************************************************************************)
(* What the collections promise, for any fundings, transactions, callers,  *)
(* settlements and reconciliations.                                        *)
(***************************************************************************)
EXTENDS Treasury, FiniteSetTheorems, TLAPS

-----------------------------------------------------------------------------
(* Payments, as the provider and the callers know them *)

\* A transaction that is paid stays so, and a caller's news of it stays true.
Grows ==
    /\ \A c \in Charges : IsPaid(charge[c]) => charge'[c] = charge[c]
    /\ \A f \in Fundings : funding[f] = "CREDITED" => funding'[f] = "CREDITED"

\* The steps in which nobody is credited keep the credits backed.
LEMMA BackingKept ==
  ASSUME FundingInv, Grows, wallet' = wallet,
         \A f \in Fundings : funding'[f] = "CREDITED" => funding[f] = "CREDITED"
  PROVE  CreditIsBacked'
<1>1. Credited' = Credited
  BY DEF Credited, Grows
<1>2. \A f \in Credited : \E c \in Attempts(f) : charge'[c] = "PAID"
  BY DEF FundingInv, CreditIsBacked, Attempts, Grows, IsPaid
<1> QED
  BY <1>1, <1>2 DEF FundingInv, CreditIsBacked, Attempts

\* The checkout: a page that is lost was never paid on.
LEMMA CheckoutKeeps ==
  ASSUME FundingInv, NEW f \in Fundings, Initiate(f) \/ PageOpens(f) \/ InitiationFails(f)
  PROVE  FundingInv' /\ Grows
<1>1. /\ funding \in [Fundings -> Ended \cup {"NONE", "PENDING", "PROCESSING"}]
      /\ gateway \in [Fundings -> Gateways \cup {"NONE"}]
      /\ page \in [Fundings -> {"NONE", "ASKED", "OPEN", "LOST"}]
  BY DEF FundingInv, FundingTypes
<1>2. UNCHANGED <<charge, call, wallet, clearing, walletOpen>>
  BY DEF Initiate, PageOpens, InitiationFails, heard, money
<1>3. /\ funding[f] = "CREDITED" => page[f] = "OPEN"
      /\ page[f] \in {"NONE", "ASKED"} => \A c \in Attempts(f) : charge[c] = "NONE"
  BY DEF FundingInv, CreditIsBacked, Credited, PageInv
<1>4. /\ funding[f] # "CREDITED"
      /\ funding' \in [Fundings -> Ended \cup {"NONE", "PENDING", "PROCESSING"}]
      /\ \A g \in Fundings : g # f => funding'[g] = funding[g]
      /\ funding'[f] # "CREDITED" /\ (funding'[f] = "NONE" => funding[f] = "NONE" /\ page[f] = "ASKED")
  BY <1>1, <1>3 DEF Initiate, PageOpens, InitiationFails, Ended
<1>5. /\ page' \in [Fundings -> {"NONE", "ASKED", "OPEN", "LOST"}]
      /\ \A g \in Fundings : g # f => page'[g] = page[g]
      /\ page'[f] # "OPEN" => \A c \in Attempts(f) : charge[c] = "NONE"
  <2>1. CASE Initiate(f)
    <3>1. page[f] = "NONE"
      BY <2>1 DEF Initiate, FundingInv, PageInv
    <3> QED
      BY <1>1, <1>3, <2>1, <3>1 DEF Initiate
  <2>2. CASE PageOpens(f)
    BY <1>1, <2>2 DEF PageOpens
  <2>3. CASE InitiationFails(f)
    BY <1>1, <1>3, <2>3 DEF InitiationFails
  <2> QED
    BY <2>1, <2>2, <2>3
<1>6. gateway' \in [Fundings -> Gateways \cup {"NONE"}]
  BY <1>1 DEF Initiate, PageOpens, InitiationFails
<1>7. FundingTypes'
  BY <1>2, <1>4, <1>5, <1>6 DEF FundingInv, FundingTypes
<1>8. Grows /\ HeardInv'
  BY <1>2, <1>4 DEF FundingInv, HeardInv, Attempts, Matches, Grows
<1>9. funding[f] = "NONE" => page[f] = "NONE"
  BY DEF FundingInv, PageInv
<1>10. PageInv'
  BY <1>2, <1>4, <1>5, <1>9 DEF FundingInv, PageInv, Attempts
<1>11. CreditIsBacked'
  BY <1>2, <1>4, <1>8, BackingKept
<1> QED
  BY <1>7, <1>8, <1>10, <1>11 DEF FundingInv

\* The customer pays: a transaction ends once.
LEMMA PaymentKeeps ==
  ASSUME FundingInv, NEW c \in Charges, BeginPayment(c) \/ PaymentEnds(c)
  PROVE  FundingInv' /\ Grows
<1>1. /\ charge \in [Charges -> {"NONE", "PENDING", "PAID", "PAID_OTHER", "FAILED"}]
      /\ UNCHANGED <<funding, gateway, page, call, wallet, clearing, walletOpen>>
  BY DEF FundingInv, FundingTypes, BeginPayment, PaymentEnds, heard, money
<1>2. /\ charge[c] \in {"NONE", "PENDING"} /\ charge' \in [Charges -> {"NONE", "PENDING", "PAID", "PAID_OTHER", "FAILED"}]
      /\ \A d \in Charges : d # c => charge'[d] = charge[d]
  BY <1>1 DEF BeginPayment, PaymentEnds
<1>3. Grows
  BY <1>1, <1>2 DEF Grows, IsPaid
<1>4. page[ChargeOf[c]] = "OPEN"
  BY FundingAssumption DEF BeginPayment, PaymentEnds, FundingInv, PageInv, Attempts
<1>5. FundingTypes'
  BY <1>1, <1>2 DEF FundingInv, FundingTypes
<1>6. HeardInv'
  BY <1>1, <1>3 DEF FundingInv, HeardInv, Attempts, Matches, Grows, IsPaid
<1>7. PageInv'
  BY <1>1, <1>2, <1>4 DEF FundingInv, PageInv, Attempts
<1>8. CreditIsBacked'
  BY <1>1, <1>3, BackingKept
<1> QED
  BY <1>3, <1>5, <1>6, <1>7, <1>8 DEF FundingInv

\* What a caller hears is what the provider knows, for the funding it names.
LEMMA AskKeeps ==
  ASSUME FundingInv, NEW v \in Callers, Hangs(v) \/ \E f \in Fundings, c \in Charges : Ask(v, f, c)
  PROVE  FundingInv' /\ Grows
<1>1. UNCHANGED <<funding, gateway, page, charge, wallet, clearing, walletOpen>>
  BY DEF Hangs, Ask, provider, money
<1>2. CASE Hangs(v)
  <2>1. \A w \in Callers : call'[w].on => call[w].on /\ call'[w] = call[w]
    BY <1>2 DEF Hangs, NoCall
  <2> QED
    BY <1>1, <2>1 DEF FundingInv, FundingTypes, HeardInv, PageInv, CreditIsBacked, Credited, Attempts, Matches, Grows
<1>3. ASSUME NEW f \in Fundings, NEW c \in Charges, Ask(v, f, c)
      PROVE  FundingInv' /\ Grows
  <2> DEFINE h == [on |-> TRUE, funding |-> f, of |-> ChargeOf[c], status |-> charge[c]]
  <2>1. charge[c] \in {"PENDING", "PAID", "PAID_OTHER", "FAILED"}
    BY <1>3 DEF Ask, FundingInv, FundingTypes
  <2>2. h.funding = f /\ h.of = ChargeOf[c] /\ h.status = charge[c]
    OBVIOUS
  <2>3. Matches(h) => \E d \in Attempts(f) : charge[d] = "PAID"
    BY <2>2 DEF Matches, Attempts
  <2>4. call' = [call EXCEPT ![v] = h]
    BY <1>3 DEF Ask
  <2> HIDE DEF h
  <2>5. \A w \in Callers : call'[w] = call[w] \/ call'[w] = h
    BY <2>4
  <2>6. FundingTypes'
    BY <1>1, <2>1, <2>2, <2>5 DEF FundingInv, FundingTypes
  <2>7. HeardInv'
    BY <1>1, <2>2, <2>3, <2>5 DEF FundingInv, HeardInv, Attempts, Matches
  <2> QED
    BY <1>1, <2>6, <2>7 DEF FundingInv, PageInv, CreditIsBacked, Credited, Attempts, Grows
<1> QED
  BY <1>2, <1>3

\* A confirmation credits what is paid, once; otherwise it moves the status at most.
LEMMA ConfirmKeeps ==
  ASSUME FundingInv, NEW v \in Callers, Confirm(v)
  PROVE  FundingInv' /\ Grows
<1> DEFINE f == call[v].funding
<1>1. /\ call[v].on /\ f \in Fundings /\ call' = [call EXCEPT ![v] = NoCall]
      /\ UNCHANGED <<gateway, page, charge>>
      /\ funding \in [Fundings -> Ended \cup {"NONE", "PENDING", "PROCESSING"}]
  BY DEF Confirm, FundingInv, FundingTypes, provider
<1>2. \A w \in Callers : call'[w].on => call[w].on /\ call'[w] = call[w]
  BY <1>1 DEF NoCall
<1>3. HeardInv'
  BY <1>1, <1>2 DEF FundingInv, HeardInv, Attempts, Matches
<1>4. \/ UNCHANGED <<funding, money>>
      \/ /\ funding[f] \notin Ended /\ UNCHANGED money
         /\ \E s \in {"PROCESSING", "FAILED", "REVIEW_REQUIRED"} : funding' = [funding EXCEPT ![f] = s]
      \/ /\ funding[f] \notin Ended /\ Matches(call[v])
         /\ funding' = [funding EXCEPT ![f] = "CREDITED"]
         /\ wallet' = wallet + Amount /\ clearing' = clearing + Amount /\ UNCHANGED walletOpen
  BY DEF Confirm, MoveTo, MayMove, Credit
<1> HIDE DEF f
<1>5. CASE UNCHANGED <<funding, money>>
  <2>1. UNCHANGED <<funding, wallet, clearing, walletOpen>>
    BY <1>5 DEF money
  <2>2. FundingTypes'
    BY <1>1, <1>2, <2>1 DEF FundingInv, FundingTypes
  <2> QED
    BY <1>1, <1>3, <2>1, <2>2 DEF FundingInv, PageInv, CreditIsBacked, Credited, Attempts, Grows
<1>6. ASSUME NEW s \in {"PROCESSING", "FAILED", "REVIEW_REQUIRED"}, funding[f] \notin Ended, UNCHANGED money,
             funding' = [funding EXCEPT ![f] = s]
      PROVE  FundingInv' /\ Grows
  <2>1. UNCHANGED <<wallet, clearing, walletOpen>>
    BY <1>6 DEF money
  <2>2. /\ funding' \in [Fundings -> Ended \cup {"NONE", "PENDING", "PROCESSING"}]
        /\ funding[f] # "CREDITED" /\ funding'[f] \notin {"CREDITED", "NONE"}
        /\ \A g \in Fundings : g # f => funding'[g] = funding[g]
    BY <1>1, <1>6 DEF Ended
  <2>3. FundingTypes'
    BY <1>1, <1>2, <2>1, <2>2 DEF FundingInv, FundingTypes
  <2>4. Grows
    BY <1>1, <2>2 DEF Grows
  <2>5. PageInv'
    BY <1>1, <2>2 DEF FundingInv, PageInv, Attempts
  <2>6. CreditIsBacked'
    BY <2>1, <2>2, <2>4, BackingKept
  <2> QED
    BY <1>3, <2>3, <2>4, <2>5, <2>6 DEF FundingInv
<1>7. ASSUME funding[f] \notin Ended, Matches(call[v]), funding' = [funding EXCEPT ![f] = "CREDITED"],
             wallet' = wallet + Amount, clearing' = clearing + Amount, UNCHANGED walletOpen
      PROVE  FundingInv' /\ Grows
  <2>1. /\ funding' \in [Fundings -> Ended \cup {"NONE", "PENDING", "PROCESSING"}]
        /\ funding[f] # "CREDITED" /\ funding'[f] = "CREDITED"
        /\ \A g \in Fundings : g # f => funding'[g] = funding[g]
    BY <1>1, <1>7 DEF Ended
  <2>2. Amount \in Nat /\ wallet \in Nat /\ IsFiniteSet(Fundings)
    BY FundingAssumption DEF FundingInv, FundingTypes
  <2>3. wallet' \in Nat
    BY <1>7, <2>2
  <2>4. FundingTypes'
    BY <1>1, <1>2, <1>7, <2>1, <2>3 DEF FundingInv, FundingTypes
  <2>5. Grows
    BY <1>1, <2>1 DEF Grows
  <2>6. PageInv'
    BY <1>1, <2>1 DEF FundingInv, PageInv, Attempts
  <2>7. Credited' = Credited \cup {f} /\ f \notin Credited
    BY <1>1, <2>1 DEF Credited
  <2>8. IsFiniteSet(Credited) /\ Cardinality(Credited) \in Nat
    BY <2>2, FS_Subset, FS_CardinalityType DEF Credited
  <2>9. Cardinality(Credited') = Cardinality(Credited) + 1
    BY <2>7, <2>8, FS_AddElement
  <2>10. wallet' = Amount * Cardinality(Credited')
    <3>1. wallet = Amount * Cardinality(Credited)
      BY DEF FundingInv, CreditIsBacked
    <3>2. Amount * (Cardinality(Credited) + 1) = Amount * Cardinality(Credited) + Amount
      BY <2>2, <2>8
    <3> QED
      BY <1>7, <2>9, <3>1, <3>2
  <2>11. \E c \in Attempts(f) : charge[c] = "PAID"
    BY <1>1, <1>7 DEF FundingInv, HeardInv, f
  <2>12. CreditIsBacked'
    BY <1>1, <2>7, <2>10, <2>11 DEF FundingInv, CreditIsBacked, Attempts
  <2> QED
    BY <1>3, <2>4, <2>5, <2>6, <2>12 DEF FundingInv
<1> QED
  BY <1>4, <1>5, <1>6, <1>7

\* The steps of the fundings, together.
LEMMA FundingKeeps ==
  ASSUME FundingInv, FundingSteps
  PROVE  FundingInv' /\ Grows
<1>1. ASSUME CloseWallet PROVE FundingInv' /\ Grows
  <2>1. UNCHANGED <<funding, gateway, page, charge, call, wallet, clearing>> /\ walletOpen' = FALSE
    BY <1>1 DEF CloseWallet, provider, heard
  <2>2. FundingTypes'
    <3>1. walletOpen' \in BOOLEAN
      BY <2>1
    <3> QED
      BY <2>1, <3>1 DEF FundingInv, FundingTypes
  <2> QED
    BY <2>1, <2>2 DEF FundingInv, HeardInv, PageInv, CreditIsBacked, Credited, Attempts, Matches, Grows
<1> QED
  BY <1>1, CheckoutKeeps, PaymentKeeps, AskKeeps, ConfirmKeeps DEF FundingSteps

\* Settlements and reconciliations touch neither fundings nor wallet.
LEMMA OthersKeep ==
  ASSUME FundingInv, UNCHANGED <<funding, provider, heard, wallet, walletOpen>>
  PROVE  FundingInv' /\ Grows
<1>1. UNCHANGED <<funding, gateway, page, charge, call, wallet, walletOpen>>
  BY DEF provider, heard
<1>2. FundingTypes'
  BY <1>1 DEF FundingInv, FundingTypes
<1> QED
  BY <1>1, <1>2 DEF FundingInv, HeardInv, PageInv, CreditIsBacked, Credited, Attempts, Matches, Grows

-----------------------------------------------------------------------------
(* Settlement *)

\* Whatever the fundings do, they do to the wallet and to the clearing account alike.
LEMMA PaidInTogether ==
  ASSUME FundingSteps
  PROVE  \/ wallet' = wallet /\ clearing' = clearing
         \/ wallet' = wallet + Amount /\ clearing' = clearing + Amount
<1>1. ASSUME NEW v \in Callers, Confirm(v)
      PROVE  \/ wallet' = wallet /\ clearing' = clearing
             \/ wallet' = wallet + Amount /\ clearing' = clearing + Amount
  BY <1>1 DEF Confirm, MoveTo, Credit, money
<1> QED
  BY <1>1 DEF FundingSteps, Initiate, PageOpens, InitiationFails, BeginPayment, PaymentEnds, Hangs, Ask, CloseWallet, money

\* What is settled is worth something, unless it is nothing.
LEMMA TotalIs ==
  ASSUME SettlingTypes, SettledInv, NEW b \in Batches
  PROVE  /\ \A s \in {"PAID", "PAID_OTHER"} : IsFiniteSet(Ending(b, s)) /\ Cardinality(Ending(b, s)) \in Nat
         /\ Total(b) \in Nat /\ (batch[b].status # "NONE" => Total(b) # 0)
<1> DEFINE p == Ending(b, "PAID")
           o == Ending(b, "PAID_OTHER")
<1>1. /\ IsFiniteSet(batch[b].of) /\ \A c \in batch[b].of : IsPaid(charge[c])
      /\ batch[b].status # "NONE" => batch[b].of # {}
  BY DEF SettledInv
<1>2. \A s : Ending(b, s) \subseteq batch[b].of
  BY DEF Ending
<1>3. \A s : IsFiniteSet(Ending(b, s)) /\ Cardinality(Ending(b, s)) \in Nat
  BY <1>1, <1>2, FS_Subset, FS_CardinalityType
<1>4. batch[b].status # "NONE" => Cardinality(p) # 0 \/ Cardinality(o) # 0
  <2>1. batch[b].status # "NONE" => p # {} \/ o # {}
    BY <1>1 DEF Ending, IsPaid
  <2> QED
    BY <1>3, <2>1, FS_EmptySet
<1>5. Amount \in Nat /\ Amount # 0 /\ Other \in Nat /\ Other # 0
  BY FundingAssumption
<1>6. Cardinality(p) \in Nat /\ Cardinality(o) \in Nat
  BY <1>3
<1>7. Total(b) = Amount * Cardinality(p) + Other * Cardinality(o)
  BY DEF Total, Worth
<1> HIDE DEF p, o
<1>8. ASSUME NEW k \in Nat, NEW m \in Nat, k # 0, m # 0 PROVE k * m \in Nat /\ k * m # 0
  BY <1>8
<1>9. ASSUME NEW k \in Nat, NEW m \in Nat PROVE k * m \in Nat
  BY <1>9
<1>10. /\ Amount * Cardinality(p) \in Nat /\ (Cardinality(p) # 0 => Amount * Cardinality(p) # 0)
       /\ Other * Cardinality(o) \in Nat /\ (Cardinality(o) # 0 => Other * Cardinality(o) # 0)
  BY <1>5, <1>6, <1>8, <1>9
<1> QED
  BY <1>3, <1>4, <1>7, <1>10

\* A settlement keeps its worth: what is paid stays paid.
LEMMA TotalKept ==
  ASSUME SettlingTypes, SettledInv, Grows, NEW b \in Batches, batch'[b].of = batch[b].of
  PROVE  /\ \A s : Ending(b, s)' = Ending(b, s)
         /\ Total(b)' = Total(b) /\ \A c \in batch[b].of : IsPaid(charge'[c])
<1>1. \A c \in batch[b].of : c \in Charges /\ IsPaid(charge[c])
  BY DEF SettlingTypes, Batch, SettledInv
<1>2. \A c \in batch[b].of : charge'[c] = charge[c]
  BY <1>1 DEF Grows
<1>3. \A s : Ending(b, s)' = Ending(b, s)
  BY <1>2 DEF Ending
<1> QED
  BY <1>1, <1>2, <1>3 DEF Total, Worth

\* While nothing is posted, the clearing account moves with the wallet.
LEMMA NothingPosted ==
  ASSUME FundingInv, FundingInv', SettlingTypes, SettledInv, ClearingTraceable, Grows,
         UNCHANGED settlement, \A b \in Posted : batch'[b] = batch[b],
         \/ wallet' = wallet /\ clearing' = clearing
         \/ wallet' = wallet + Amount /\ clearing' = clearing + Amount
  PROVE  /\ ClearingTraceable' /\ clearing' \in Int
         /\ \A s \in {"PAID", "PAID_OTHER"} : IsFiniteSet(Settled(s)')
<1>1. Posted' = Posted
  BY DEF Posted
<1>2. \A b \in Posted : \A s : Ending(b, s)' = Ending(b, s)
  BY TotalKept DEF Posted
<1>3. \A s : Settled(s)' = Settled(s)
  BY <1>1, <1>2 DEF Settled
<1> DEFINE worth == Worth(Settled("PAID"), Settled("PAID_OTHER"))
<1>4. worth' = worth
  BY <1>3 DEF Worth
<1>5. clearing = wallet - worth /\ clearing \in Int /\ wallet \in Nat /\ wallet' \in Nat /\ Amount \in Nat
  BY FundingAssumption DEF ClearingTraceable, FundingInv, CreditIsBacked, FundingTypes, SettlingTypes
<1>6. worth \in Int
  <2>1. \A s \in {"PAID", "PAID_OTHER"} : Cardinality(Settled(s)) \in Nat
    BY FS_CardinalityType DEF SettledInv
  <2> QED
    BY <2>1, FundingAssumption DEF Worth
<1>7. wallet' = Amount * Cardinality(Credited')
  BY DEF FundingInv, CreditIsBacked
<1> HIDE DEF worth
<1>8. clearing' = wallet' - worth' /\ clearing' \in Int
  BY <1>4, <1>5, <1>6
<1>9. \A b \in Posted' : batch'[b].status = "COMPLETED"
  BY <1>1 DEF ClearingTraceable
<1> QED
  BY <1>3, <1>7, <1>8, <1>9 DEF ClearingTraceable, SettledInv, worth

\* What is posted of a settlement is all it contains.
LEMMA StoreKeeps ==
  ASSUME FundingInv, FundingInv', SettlingTypes, SettledInv, ClearingTraceable,
         UNCHANGED <<charge, wallet, batch>>, NEW b \in Batches,
         NEW status \in {"PROCESSING", "COMPLETED", "FLAGGED"}, NEW gross \in Nat, Store(b, status, gross),
         status = "COMPLETED" => batch[b].status = "COMPLETED" /\ gross = Total(b)
  PROVE  /\ ClearingTraceable' /\ clearing' \in Int /\ settlement' \in [Batches -> Settlement]
         /\ \A s \in {"PAID", "PAID_OTHER"} : IsFiniteSet(Settled(s)')
<1>1. settlement \in [Batches -> Settlement] /\ settlement[b] \in Settlement
  BY DEF SettlingTypes
<1>3. \A d \in Batches : \A s : Ending(d, s)' = Ending(d, s)
  BY DEF Ending
<1>4. CASE ~(settlement[b].posted = 0 /\ status = "COMPLETED")
  <2>1. /\ settlement' = [settlement EXCEPT ![b] = [settlement[b] EXCEPT !.status = status, !.gross = gross]]
        /\ clearing' = clearing
    BY <1>1, <1>4 DEF Store, MayPost, Settlement
  <2>2. settlement' \in [Batches -> Settlement] /\ \A d \in Batches : settlement'[d].posted = settlement[d].posted
    BY <1>1, <2>1 DEF Settlement
  <2>3. Posted' = Posted
    BY <2>2 DEF Posted
  <2>4. \A s : Settled(s)' = Settled(s)
    BY <1>3, <2>3 DEF Settled, Posted
  <2>5. clearing = wallet - Worth(Settled("PAID"), Settled("PAID_OTHER"))
    BY DEF ClearingTraceable, FundingInv, CreditIsBacked
  <2>6. wallet' = Amount * Cardinality(Credited')
    BY DEF FundingInv, CreditIsBacked
  <2> QED
    BY <2>1, <2>2, <2>3, <2>4, <2>5, <2>6 DEF ClearingTraceable, SettlingTypes, SettledInv, Worth
<1>5. CASE settlement[b].posted = 0 /\ status = "COMPLETED"
  <2>1. /\ settlement' = [settlement EXCEPT ![b] =
                            [settlement[b] EXCEPT !.status = status, !.gross = gross, !.posted = gross]]
        /\ clearing' = clearing - gross
    BY <1>1, <1>5 DEF Store, MayPost, Settlement
  <2>2. /\ settlement' \in [Batches -> Settlement] /\ settlement'[b].posted = gross
        /\ \A d \in Batches : d # b => settlement'[d].posted = settlement[d].posted
    BY <1>1, <2>1 DEF Settlement
  <2>3. batch[b].status = "COMPLETED" /\ gross = Total(b) /\ gross # 0
    BY <1>5, TotalIs
  <2>4. b \notin Posted /\ Posted' = Posted \cup {b}
    BY <1>5, <2>2, <2>3 DEF Posted
  <2>5. ASSUME NEW s \in {"PAID", "PAID_OTHER"}
        PROVE  /\ IsFiniteSet(Settled(s)') /\ Cardinality(Settled(s)) \in Nat
               /\ Cardinality(Settled(s)') = Cardinality(Settled(s)) + Cardinality(Ending(b, s))
    <3> DEFINE new == {b} \X Ending(b, s)
    <3>1. Settled(s)' = Settled(s) \cup new
      BY <1>3, <2>4 DEF Settled, Posted
    <3>2. Settled(s) \cap new = {}
      BY <2>4 DEF Settled
    <3>3. IsFiniteSet(Ending(b, s)) /\ Cardinality(Ending(b, s)) \in Nat
      BY TotalIs
    <3>4. IsFiniteSet({b}) /\ Cardinality({b}) = 1
      BY FS_Singleton
    <3>5. IsFiniteSet(new) /\ Cardinality(new) = 1 * Cardinality(Ending(b, s))
      BY <3>3, <3>4, FS_Product
    <3>6. IsFiniteSet(Settled(s)) /\ Cardinality(Settled(s)) \in Nat
      BY FS_CardinalityType DEF SettledInv
    <3> HIDE DEF new
    <3>7. IsFiniteSet(Settled(s)') /\ Cardinality(Settled(s)') = Cardinality(Settled(s)) + Cardinality(new) - Cardinality({})
      BY <3>1, <3>2, <3>5, <3>6, FS_Union
    <3> QED
      BY <3>3, <3>5, <3>6, <3>7, FS_EmptySet
  <2> DEFINE p == Cardinality(Settled("PAID"))
             o == Cardinality(Settled("PAID_OTHER"))
             np == Cardinality(Ending(b, "PAID"))
             no == Cardinality(Ending(b, "PAID_OTHER"))
  <2>6. p \in Nat /\ o \in Nat /\ np \in Nat /\ no \in Nat /\ p' = p + np /\ o' = o + no
    BY <2>5, TotalIs
  <2>7. /\ clearing = wallet - (Amount * p + Other * o) /\ gross = Amount * np + Other * no
        /\ wallet = Amount * Cardinality(Credited') /\ Amount \in Nat /\ Other \in Nat
        /\ clearing \in Int /\ wallet \in Nat
    BY <2>3, FundingAssumption DEF ClearingTraceable, FundingInv, CreditIsBacked, Worth, Total, SettlingTypes, FundingTypes
  <2> HIDE DEF p, o, np, no
  <2>8. Amount * (p + np) = Amount * p + Amount * np /\ Other * (o + no) = Other * o + Other * no
    BY <2>6, <2>7
  <2>9. Amount * p \in Int /\ Other * o \in Int /\ Amount * np \in Int /\ Other * no \in Int
    BY <2>6, <2>7
  <2>10. clearing' = wallet - (Amount * p' + Other * o')
    BY <2>1, <2>6, <2>7, <2>8, <2>9
  <2>11. \A d \in Posted' : batch'[d].status = "COMPLETED"
    BY <2>3, <2>4 DEF ClearingTraceable
  <2>12. clearing' \in Int
    BY <2>1, <2>7
  <2> QED
    BY <2>2, <2>5, <2>7, <2>10, <2>11, <2>12 DEF ClearingTraceable, Worth, p, o
<1> QED
  BY <1>4, <1>5

\* What a synchronisation holds is a list of one settlement.
LEMMA FetchedIs ==
  ASSUME SettlingTypes, NEW y \in Syncs, fetched[y].on
  PROVE  fetched[y] \in Fetched /\ fetched[y].batch \in Batches
<1>1. fetched[y] \in Fetched
  BY DEF SettlingTypes, NoFetch
<1> QED
  BY <1>1 DEF Fetched

\* The fundings go on, and nothing of a settlement changes.
LEMMA SettlingStands ==
  ASSUME FundingInv, FundingInv', SettlingInv, Grows, UNCHANGED settling,
         \/ wallet' = wallet /\ clearing' = clearing
         \/ wallet' = wallet + Amount /\ clearing' = clearing + Amount
  PROVE  SettlingInv'
<1>1. UNCHANGED <<batch, settlement, fetched>> /\ SettlingTypes /\ SettledInv /\ ClearingTraceable
  BY DEF settling, SettlingInv
<1>2. /\ ClearingTraceable' /\ clearing' \in Int
      /\ \A s \in {"PAID", "PAID_OTHER"} : IsFiniteSet(Settled(s)')
  BY <1>1, NothingPosted
<1>3. \A b \in Batches : Total(b)' = Total(b) /\ \A c \in batch[b].of : IsPaid(charge'[c])
  BY <1>1, TotalKept
<1>4. \A y \in Syncs : fetched[y].on => fetched[y].batch \in Batches
  BY <1>1, FetchedIs
<1>5. SettlingTypes'
  BY <1>1, <1>2 DEF SettlingTypes
<1>6. SettledInv'
  BY <1>1, <1>2, <1>3, <1>4 DEF SettledInv, IsPaid
<1> QED
  BY <1>2, <1>5, <1>6 DEF SettlingInv

\* A settlement grows and is completed; what was heard of it as completed stays true.
LEMMA ProviderKeeps ==
  ASSUME FundingInv, FundingInv', SettlingInv, NEW b \in Batches,
         ProviderCompletes(b) \/ \E c \in Charges : ProviderAdds(b, c)
  PROVE  SettlingInv'
<1>1. /\ SettlingTypes /\ SettledInv /\ ClearingTraceable
      /\ UNCHANGED <<funding, charge, wallet, clearing, settlement, fetched>>
  BY DEF SettlingInv, ProviderCompletes, ProviderAdds, fundingVars, provider, money
<1>2. batch \in [Batches -> Batch] /\ batch[b] \in Batch
  BY <1>1 DEF SettlingTypes
<1>3. PICK new \in Batch :
        /\ batch' = [batch EXCEPT ![b] = new] /\ batch[b].status # "COMPLETED"
        /\ new.status \in {"PROCESSING", "COMPLETED"} /\ new.of # {}
        /\ IsFiniteSet(new.of) /\ \A c \in new.of : IsPaid(charge[c])
  <2>1. CASE ProviderCompletes(b)
    <3> DEFINE m == [batch[b] EXCEPT !.status = "COMPLETED"]
    <3>1. m \in Batch /\ m.of = batch[b].of /\ m.status = "COMPLETED"
      BY <1>2 DEF Batch
    <3>2. batch' = [batch EXCEPT ![b] = m] /\ batch[b].status = "PROCESSING"
      BY <2>1 DEF ProviderCompletes
    <3> HIDE DEF m
    <3> QED
      BY <1>1, <3>1, <3>2 DEF SettledInv
  <2>2. ASSUME NEW c \in Charges, ProviderAdds(b, c)
        PROVE  \E m \in Batch :
                 /\ batch' = [batch EXCEPT ![b] = m] /\ batch[b].status # "COMPLETED"
                 /\ m.status \in {"PROCESSING", "COMPLETED"} /\ m.of # {}
                 /\ IsFiniteSet(m.of) /\ \A d \in m.of : IsPaid(charge[d])
    <3> DEFINE m == [status |-> "PROCESSING", of |-> batch[b].of \cup {c}]
    <3>1. m \in Batch /\ m.of = batch[b].of \cup {c} /\ m.status = "PROCESSING"
      BY <1>2 DEF Batch
    <3>2. batch' = [batch EXCEPT ![b] = m] /\ batch[b].status # "COMPLETED" /\ IsPaid(charge[c])
      BY <2>2 DEF ProviderAdds
    <3>3. IsFiniteSet(m.of)
      BY <1>1, <3>1, FS_AddElement DEF SettledInv
    <3> HIDE DEF m
    <3> QED
      BY <1>1, <3>1, <3>2, <3>3 DEF SettledInv
  <2> QED
    BY <2>1, <2>2
<1>4. /\ batch' \in [Batches -> Batch] /\ batch'[b] = new
      /\ \A d \in Batches : d # b => batch'[d] = batch[d]
  BY <1>2, <1>3
<1>5. b \notin Posted
  BY <1>1, <1>3 DEF ClearingTraceable
<1>6. Grows
  BY <1>1 DEF Grows
<1>7. \A d \in Posted : d \in Batches /\ batch'[d] = batch[d]
  BY <1>4, <1>5 DEF Posted
<1>8. /\ ClearingTraceable' /\ clearing' \in Int
      /\ \A s \in {"PAID", "PAID_OTHER"} : IsFiniteSet(Settled(s)')
  BY <1>1, <1>6, <1>7, NothingPosted
<1>9. SettlingTypes'
  BY <1>1, <1>4, <1>8 DEF SettlingTypes
<1>10. ASSUME NEW y \in Syncs, fetched[y].on, fetched[y].status = "COMPLETED"
       PROVE  /\ batch'[fetched[y].batch].status = "COMPLETED"
              /\ fetched[y].gross = Total(fetched[y].batch)'
  <2>1. /\ fetched[y].batch \in Batches /\ batch[fetched[y].batch].status = "COMPLETED"
        /\ fetched[y].gross = Total(fetched[y].batch)
    BY <1>1, <1>10, FetchedIs DEF SettledInv
  <2>2. batch'[fetched[y].batch] = batch[fetched[y].batch]
    BY <1>3, <1>4, <2>1
  <2> QED
    BY <1>1, <2>1, <2>2 DEF Total, Ending
<1>11. SettledInv'
  BY <1>1, <1>3, <1>4, <1>8, <1>10 DEF SettledInv
<1> QED
  BY <1>8, <1>9, <1>11 DEF SettlingInv

\* A synchronisation hears of a settlement, or ends, or stores what it heard.
LEMMA SettlingKeeps ==
  ASSUME FundingInv, FundingInv', SettlingInv, Settling
  PROVE  SettlingInv'
<1>1. SettlingTypes /\ SettledInv /\ ClearingTraceable
  BY DEF SettlingInv
<1>2. ASSUME NEW y \in Syncs, SyncFails(y) \/ \E b \in Batches : Fetch(y, b)
      PROVE  SettlingInv'
  <2>1. UNCHANGED <<funding, charge, wallet, clearing, batch, settlement>> /\ fetched \in [Syncs -> {NoFetch} \cup Fetched]
    BY <1>1, <1>2 DEF SyncFails, Fetch, fundingVars, provider, money, SettlingTypes
  <2>2. PICK new \in {NoFetch} \cup Fetched :
          /\ fetched' = [fetched EXCEPT ![y] = new]
          /\ new.on /\ new.status = "COMPLETED" =>
                batch[new.batch].status = "COMPLETED" /\ new.gross = Total(new.batch)
    <3>1. CASE SyncFails(y)
      <4>1. NoFetch.on = FALSE
        BY DEF NoFetch
      <4> QED
        BY <3>1, <4>1 DEF SyncFails
    <3>2. ASSUME NEW b \in Batches, Fetch(y, b)
          PROVE  \E m \in Fetched :
                   /\ fetched' = [fetched EXCEPT ![y] = m]
                   /\ m.on /\ m.status = "COMPLETED" => batch[m.batch].status = "COMPLETED" /\ m.gross = Total(m.batch)
      <4> DEFINE m == [on |-> TRUE, batch |-> b, status |-> batch[b].status, gross |-> Total(b)]
      <4>1. batch[b].status \in {"PROCESSING", "COMPLETED"} /\ Total(b) \in Nat
        BY <1>1, <3>2, TotalIs DEF Fetch, SettlingTypes, Batch
      <4>2. m \in Fetched /\ m.batch = b /\ m.status = batch[b].status /\ m.gross = Total(b)
        BY <4>1 DEF Fetched
      <4>3. fetched' = [fetched EXCEPT ![y] = m]
        BY <3>2 DEF Fetch
      <4> HIDE DEF m
      <4> QED
        BY <4>2, <4>3
    <3> QED
      BY <1>2, <3>1, <3>2
  <2>3. fetched' \in [Syncs -> {NoFetch} \cup Fetched] /\ \A z \in Syncs : fetched'[z] = fetched[z] \/ fetched'[z] = new
    BY <2>1, <2>2
  <2>4. SettlingTypes'
    BY <1>1, <2>1, <2>3 DEF SettlingTypes
  <2>5. \A b : Total(b)' = Total(b)
    BY <2>1 DEF Total, Ending
  <2>6. /\ Posted' = Posted /\ Credited' = Credited /\ \A s : Settled(s)' = Settled(s)
    BY <2>1 DEF Posted, Credited, Settled, Ending
  <2>7. SettledInv'
    BY <1>1, <2>1, <2>2, <2>3, <2>5, <2>6 DEF SettledInv
  <2>8. ClearingTraceable'
    BY <1>1, <2>1, <2>6 DEF ClearingTraceable, Worth
  <2> QED
    BY <2>4, <2>7, <2>8 DEF SettlingInv
<1>3. ASSUME NEW b \in Batches, NEW status \in {"PROCESSING", "COMPLETED", "FLAGGED"}, NEW gross \in Nat,
             Store(b, status, gross), status = "COMPLETED" => batch[b].status = "COMPLETED" /\ gross = Total(b),
             UNCHANGED <<charge, wallet, batch>>,
             fetched' \in [Syncs -> {NoFetch} \cup Fetched], \A z \in Syncs : fetched'[z].on => fetched'[z] = fetched[z]
      PROVE  SettlingInv'
  <2>1. /\ ClearingTraceable' /\ clearing' \in Int /\ settlement' \in [Batches -> Settlement]
        /\ \A s \in {"PAID", "PAID_OTHER"} : IsFiniteSet(Settled(s)')
    BY <1>1, <1>3, StoreKeeps
  <2>2. SettlingTypes'
    BY <1>1, <1>3, <2>1 DEF SettlingTypes
  <2>3. \A d : Total(d)' = Total(d)
    BY <1>3 DEF Total, Ending
  <2>4. SettledInv'
    BY <1>1, <1>3, <2>1, <2>3 DEF SettledInv
  <2> QED
    BY <2>1, <2>2, <2>4 DEF SettlingInv
<1>4. ASSUME NEW y \in Syncs, StoreFlutterwave(y) PROVE SettlingInv'
  <2>1. fetched[y] \in Fetched /\ fetched[y].on
    BY <1>1, <1>4 DEF StoreFlutterwave, SettlingTypes, NoFetch
  <2>2. /\ fetched[y].batch \in Batches /\ fetched[y].status \in {"PROCESSING", "COMPLETED", "FLAGGED"}
        /\ fetched[y].gross \in Nat
    BY <2>1 DEF Fetched
  <2>3. /\ Store(fetched[y].batch, fetched[y].status, fetched[y].gross) /\ UNCHANGED <<charge, wallet, batch>>
        /\ fetched' = [fetched EXCEPT ![y] = NoFetch]
    BY <1>4 DEF StoreFlutterwave, provider
  <2>4. /\ fetched' \in [Syncs -> {NoFetch} \cup Fetched]
        /\ \A z \in Syncs : fetched'[z].on => fetched'[z] = fetched[z]
    BY <1>1, <2>3 DEF SettlingTypes, NoFetch
  <2>5. fetched[y].status = "COMPLETED" =>
          batch[fetched[y].batch].status = "COMPLETED" /\ fetched[y].gross = Total(fetched[y].batch)
    BY <1>1, <2>1 DEF SettledInv
  <2> QED
    BY <1>3, <2>2, <2>3, <2>4, <2>5
<1>5. ASSUME NEW b \in Batches, IngestMonnify(b) PROVE SettlingInv'
  <2>1. PICK status \in {"COMPLETED", "FLAGGED"} : Store(b, status, Total(b))
    BY <1>5 DEF IngestMonnify
  <2>2. Total(b) \in Nat /\ batch[b].status = "COMPLETED" /\ UNCHANGED <<charge, wallet, batch, fetched>>
    BY <1>1, <1>5, TotalIs DEF IngestMonnify, provider
  <2>3. fetched' \in [Syncs -> {NoFetch} \cup Fetched] /\ \A z \in Syncs : fetched'[z].on => fetched'[z] = fetched[z]
    BY <1>1, <2>2 DEF SettlingTypes
  <2> QED
    BY <1>3, <2>1, <2>2, <2>3
<1> QED
  BY <1>2, <1>4, <1>5, ProviderKeeps DEF Settling

-----------------------------------------------------------------------------
(* Reconciliation *)

\* What a run has noted stays true while customers pay and fundings move on.
LEMMA NotesStand ==
  ASSUME FundingInv, RunInv, CertifiedInv, CleanRunHolds, Grows, UNCHANGED reconciling
  PROVE  RunInv' /\ CertifiedInv' /\ CleanRunHolds'
<1>1. UNCHANGED <<run, certified>>
  BY DEF reconciling
<1>2. CleanRunHolds'
  <2>1. \A c \in certified : ChargeOf[c] \in Fundings /\ funding[ChargeOf[c]] = "CREDITED"
    BY DEF CleanRunHolds, Credited
  <2>2. \A c \in certified : charge'[c] = "PAID"
    BY DEF CertifiedInv, CleanRunHolds, Grows, IsPaid
  <2> QED
    BY <1>1, <2>1, <2>2 DEF CleanRunHolds, Credited, Grows
<1>3. RunInv'
  <2> SUFFICES ASSUME run # NoRun
               PROVE  /\ \A x \in run.list : IsPaid(x.status) => charge'[x.charge] = x.status
                      /\ run.step = "COMPARE" /\ ~run.issues =>
                            \A x \in run.list \ run.todo :
                              IsPaid(x.status) => x.status = "PAID" /\ funding'[x.of] = "CREDITED"
    BY <1>1 DEF RunInv, IsPaid
  <2>1. \A x \in run.list : x.charge \in Charges /\ x.of \in Fundings
    BY DEF RunInv, Run, Entry
  <2>2. \A x \in run.list : IsPaid(x.status) => charge[x.charge] = x.status
    BY DEF RunInv
  <2>3. \A x \in run.list : IsPaid(x.status) => charge'[x.charge] = x.status
    BY <2>1, <2>2 DEF Grows
  <2>4. run.step = "COMPARE" /\ ~run.issues =>
          \A x \in run.list \ run.todo :
              IsPaid(x.status) => x.status = "PAID" /\ funding[x.of] = "CREDITED"
    BY DEF RunInv
  <2> QED
    BY <2>1, <2>3, <2>4 DEF Grows
<1>4. CertifiedInv'
  BY <1>1 DEF CertifiedInv
<1> QED
  BY <1>2, <1>3, <1>4

\* The provider lists its transactions as they are.
LEMMA ListIsTrue ==
  ASSUME FundingInv, NEW S \in SUBSET {"PENDING", "PAID", "PAID_OTHER", "FAILED"}
  PROVE  /\ Listed(S) \subseteq Entry
         /\ \A x \in Listed(S) : /\ x.of = ChargeOf[x.charge] /\ x.charge \in Charges
                                 /\ IsPaid(x.status) => charge[x.charge] = x.status
<1> SUFFICES ASSUME NEW x \in Listed(S)
             PROVE  /\ x \in Entry /\ x.of = ChargeOf[x.charge] /\ x.charge \in Charges
                    /\ charge[x.charge] = x.status
  OBVIOUS
<1>1. PICK c \in Charges : charge[c] \in S /\ x = [of |-> ChargeOf[c], charge |-> c, status |-> charge[c]]
  BY DEF Listed
<1>2. x.of = ChargeOf[c] /\ x.charge = c /\ x.status = charge[c]
  BY <1>1
<1>3. x \in Entry
  BY <1>1, FundingAssumption DEF Entry
<1> QED
  BY <1>2, <1>3

\* A transaction that does not differ and is paid is in the owner's wallet.
LEMMA NoDifference ==
  ASSUME NEW x, ~Differs(x), IsPaid(x.status)
  PROVE  x.status = "PAID" /\ funding[x.of] = "CREDITED"
BY DEF Differs, IsPaid, Recognized

\* Only transactions are vouched for.
LEMMA CertifiedKept ==
  ASSUME RunInv, CertifiedInv, Reconciling
  PROVE  CertifiedInv'
<1>1. CASE EndRun
  <2>1. /\ run # NoRun
        /\ certified' \subseteq certified \cup {x.charge : x \in run.list}
    BY <1>1 DEF EndRun, NoRun
  <2>2. \A x \in run.list : x.charge \in Charges
    BY <2>1 DEF RunInv, Run, Entry
  <2> QED
    BY <2>1, <2>2 DEF CertifiedInv
<1>2. CASE ~EndRun
  <2>1. certified' = certified
    BY <1>2 DEF Reconciling, StartRun, FetchList, FetchFailed, RunEnds, Compare
  <2> QED
    BY <2>1 DEF CertifiedInv
<1> QED
  BY <1>1, <1>2

\* The steps of a run.
LEMMA RunKeeps ==
  ASSUME FundingInv, RunInv, CleanRunHolds, Reconciling
  PROVE  RunInv' /\ CleanRunHolds'
<1>1. UNCHANGED <<funding, charge>>
  BY DEF Reconciling, StartRun, FetchList, FetchFailed, EndRun, RunEnds, Compare, fundingVars, provider
<1>2. ASSUME NEW g \in Gateways, StartRun(g) PROVE RunInv' /\ CleanRunHolds'
  <2>1. /\ run' = [step |-> "FETCH", gateway |-> g, list |-> {}, todo |-> {}, issues |-> FALSE]
        /\ certified' = certified
    BY <1>2 DEF StartRun
  <2>2. run' \in Run /\ run'.list = {} /\ run'.step = "FETCH"
    BY <2>1 DEF Run
  <2> QED
    BY <1>1, <2>1, <2>2 DEF RunInv, CleanRunHolds, Credited
<1>3. ASSUME FetchList PROVE RunInv' /\ CleanRunHolds'
  <2>1. run.step = "FETCH" /\ certified' = certified
    BY <1>3 DEF FetchList
  <2>2. run \in Run
    BY <2>1 DEF RunInv, NoRun
  <2>3. PICK S \in SUBSET {"PENDING", "PAID", "PAID_OTHER", "FAILED"} :
          \/ run' = [run EXCEPT !.step = "FETCH_FAILED", !.list = Listed(S)]
          \/ run' = [run EXCEPT !.step = "COMPARE", !.list = Listed(S), !.todo = Listed(S)]
    BY <1>3 DEF FetchList
  <2> DEFINE l == Listed(S)
  <2>4. /\ l \subseteq Entry
        /\ \A x \in l : x.of = ChargeOf[x.charge] /\ (IsPaid(x.status) => charge[x.charge] = x.status)
    BY ListIsTrue
  <2>5. \/ run' = [run EXCEPT !.step = "FETCH_FAILED", !.list = l]
        \/ run' = [run EXCEPT !.step = "COMPARE", !.list = l, !.todo = l]
    BY <2>3
  <2> HIDE DEF l
  <2>6. run' \in Run /\ run'.list = l /\ (run'.step = "COMPARE" => run'.todo = l)
    BY <2>2, <2>4, <2>5 DEF Run
  <2> QED
    BY <1>1, <2>1, <2>4, <2>6 DEF RunInv, CleanRunHolds, Credited, IsPaid
<1>4. ASSUME FetchFailed PROVE RunInv' /\ CleanRunHolds'
  <2>1. run.step = "FETCH_FAILED" /\ certified' = certified
    BY <1>4 DEF FetchFailed
  <2>2. run \in Run /\ \A x \in run.list : /\ x.of = ChargeOf[x.charge]
                                           /\ IsPaid(x.status) => charge[x.charge] = x.status
    BY <2>1 DEF RunInv, NoRun
  <2> DEFINE failed == Listed({"FAILED"})
             l == run.list \cup failed
  <2>3. run' = [run EXCEPT !.step = "COMPARE", !.list = l, !.todo = l]
    BY <1>4 DEF FetchFailed
  <2>4. /\ failed \subseteq Entry
        /\ \A x \in failed : x.of = ChargeOf[x.charge] /\ (IsPaid(x.status) => charge[x.charge] = x.status)
    BY ListIsTrue
  <2> HIDE DEF failed
  <2>5. run.list \subseteq Entry
    BY <2>2 DEF Run
  <2>6. /\ l \subseteq Entry
        /\ \A x \in l : x.of = ChargeOf[x.charge] /\ (IsPaid(x.status) => charge[x.charge] = x.status)
    BY <2>2, <2>4, <2>5
  <2> HIDE DEF l
  <2>7. run' \in Run /\ run'.list = l /\ run'.todo = l
    BY <2>2, <2>3, <2>6 DEF Run
  <2> QED
    BY <1>1, <2>1, <2>6, <2>7 DEF RunInv, CleanRunHolds, Credited, IsPaid
<1>5. ASSUME run # NoRun, NEW x \in run.todo, Compare(x) PROVE RunInv' /\ CleanRunHolds'
  <2>1. /\ run.step = "COMPARE" /\ run \in Run /\ certified' = certified
        /\ run' = [run EXCEPT !.todo = run.todo \ {x}, !.issues = run.issues \/ Differs(x)]
    BY <1>5 DEF Compare, RunInv
  <2>2. (run.issues \/ Differs(x)) \in BOOLEAN
    OBVIOUS
  <2>3. /\ run' \in Run /\ run'.list = run.list /\ run'.todo = run.todo \ {x} /\ run'.step = "COMPARE"
        /\ run'.issues = (run.issues \/ Differs(x))
    BY <2>1, <2>2 DEF Run
  <2>4. ~run'.issues => ~run.issues /\ ~Differs(x)
    BY <2>3
  <2>5. ASSUME ~run'.issues, NEW y \in run'.list \ run'.todo, IsPaid(y.status)
        PROVE  y.status = "PAID" /\ funding[y.of] = "CREDITED"
    <3>1. CASE y = x
      BY <2>4, <2>5, <3>1, NoDifference
    <3>2. CASE y # x
      BY <1>5, <2>1, <2>3, <2>4, <2>5, <3>2 DEF RunInv
    <3> QED
      BY <3>1, <3>2
  <2>6. \A y \in run.list : y.of = ChargeOf[y.charge] /\ (IsPaid(y.status) => charge[y.charge] = y.status)
    BY <1>5 DEF RunInv
  <2>7. RunInv'
    BY <1>1, <2>3, <2>5, <2>6 DEF RunInv, IsPaid
  <2> QED
    BY <1>1, <2>1, <2>7 DEF CleanRunHolds, Credited
<1>6. ASSUME EndRun PROVE RunInv' /\ CleanRunHolds'
  <2>1. /\ run' = NoRun /\ run.step = "COMPARE" /\ run.todo = {}
        /\ \/ certified' = certified
           \/ ~run.issues /\ certified' = certified \cup {x.charge : x \in {y \in run.list : IsPaid(y.status)}}
    BY <1>6 DEF EndRun
  <2>2. run # NoRun /\ run \in Run
    BY <2>1 DEF RunInv, NoRun
  <2>3. ASSUME ~run.issues, NEW x \in run.list, IsPaid(x.status)
        PROVE  charge[x.charge] = "PAID" /\ ChargeOf[x.charge] \in Credited
    <3>1. x.status = "PAID" /\ funding[x.of] = "CREDITED" /\ x.of = ChargeOf[x.charge] /\ charge[x.charge] = x.status
      BY <2>1, <2>2, <2>3 DEF RunInv
    <3>2. x.of \in Fundings
      BY <2>2, <2>3 DEF Run, Entry
    <3> QED
      BY <3>1, <3>2 DEF Credited
  <2>4. RunInv'
    BY <2>1 DEF RunInv
  <2>5. CleanRunHolds'
    BY <1>1, <2>1, <2>3 DEF CleanRunHolds, Credited
  <2> QED
    BY <2>4, <2>5
<1>7. ASSUME RunEnds PROVE RunInv' /\ CleanRunHolds'
  BY <1>1, <1>7 DEF RunEnds, RunInv, CleanRunHolds, Credited
<1> QED
  BY <1>2, <1>3, <1>4, <1>5, <1>6, <1>7 DEF Reconciling

-----------------------------------------------------------------------------
(* The theorems *)

\* Nothing has been paid in.
LEMMA Initially == Init => IInv
<1> SUFFICES ASSUME Init PROVE IInv
  OBVIOUS
<1>1. FundingTypes
  BY DEF Init, InitFunding, FundingTypes, NoCall
<1>2. HeardInv /\ PageInv
  BY DEF Init, InitFunding, HeardInv, PageInv, NoCall, Attempts
<1>3. Credited = {}
  BY DEF Init, InitFunding, Credited
<1>4. CreditIsBacked
  BY <1>3, FS_EmptySet, FundingAssumption DEF Init, InitFunding, CreditIsBacked
<1>5. RunInv /\ CertifiedInv /\ CleanRunHolds /\ started \in 0 .. MaxRuns
  BY TreasuryAssumption DEF Init, RunInv, CertifiedInv, CleanRunHolds
<1>6. SettlingTypes
  BY DEF Init, InitFunding, SettlingTypes, Batch, Settlement
<1>7. Posted = {} /\ \A s : Settled(s) = {}
  BY DEF Init, Posted, Settled
<1>8. SettledInv
  BY <1>7, FS_EmptySet DEF Init, SettledInv, NoFetch
<1>9. ClearingTraceable
  <2>1. Worth({}, {}) = 0 /\ Amount * Cardinality({}) = 0
    BY FS_EmptySet, FundingAssumption DEF Worth
  <2>2. clearing = 0
    BY DEF Init, InitFunding
  <2> QED
    BY <1>3, <1>7, <2>1, <2>2 DEF ClearingTraceable
<1> QED
  BY <1>1, <1>2, <1>4, <1>5, <1>6, <1>8, <1>9 DEF IInv, FundingInv, SettlingInv

\* Every step keeps the invariant.
LEMMA StepKeeps == IInv /\ [Next]_vars => IInv'
<1> SUFFICES ASSUME IInv, [Next]_vars PROVE IInv'
  OBVIOUS
<1>1. CASE Collecting
  <2>1. FundingInv' /\ Grows /\ UNCHANGED <<settling, reconciling>>
    BY <1>1, FundingKeeps DEF Collecting, IInv
  <2>2. SettlingInv'
    BY <1>1, <2>1, PaidInTogether, SettlingStands DEF Collecting, IInv
  <2> QED
    BY <2>1, <2>2, NotesStand DEF IInv, reconciling
<1>2. CASE Settling
  <2>1. UNCHANGED <<funding, provider, heard, wallet, walletOpen>> /\ UNCHANGED reconciling
    BY <1>2 DEF Settling, ProviderCompletes, IngestMonnify, ProviderAdds, StoreFlutterwave, SyncFails, Fetch,
                fundingVars, money
  <2>2. FundingInv' /\ Grows
    BY <2>1, OthersKeep DEF IInv
  <2> QED
    BY <1>2, <2>1, <2>2, SettlingKeeps, NotesStand DEF IInv, reconciling
<1>3. CASE Reconciling
  <2>1. UNCHANGED <<funding, provider, heard, wallet, walletOpen, clearing, settling>>
    BY <1>3 DEF Reconciling, StartRun, FetchList, FetchFailed, EndRun, RunEnds, Compare, fundingVars, money
  <2>2. FundingInv' /\ Grows
    BY <2>1, OthersKeep DEF IInv
  <2>3. SettlingInv'
    BY <2>1, <2>2, SettlingStands DEF IInv
  <2>4. started' = started \/ (started < MaxRuns /\ started' = started + 1)
    <3>1. CASE \E g \in Gateways : StartRun(g)
      BY <3>1 DEF StartRun
    <3>2. CASE ~\E g \in Gateways : StartRun(g)
      BY <1>3, <3>2 DEF Reconciling, FetchList, FetchFailed, EndRun, RunEnds, Compare
    <3> QED
      BY <3>1, <3>2
  <2>5. started' \in 0 .. MaxRuns
    BY <2>4, TreasuryAssumption DEF IInv
  <2> QED
    BY <1>3, <2>1, <2>2, <2>3, <2>5, CertifiedKept, RunKeeps DEF IInv
<1>4. CASE UNCHANGED vars
  <2>1. UNCHANGED <<funding, provider, heard, wallet, walletOpen, clearing, settling>> /\ UNCHANGED reconciling
    BY <1>4 DEF vars, fundingVars, money
  <2>2. FundingInv' /\ Grows
    BY <2>1, OthersKeep DEF IInv
  <2> QED
    BY <2>1, <2>2, SettlingStands, NotesStand DEF IInv, reconciling
<1> QED
  BY <1>1, <1>2, <1>3, <1>4 DEF Next

\* The whole invariant, of which each property below is a part.
LEMMA Invariant == Spec => []IInv
BY Initially, StepKeeps, PTL DEF Spec

\* Fundings, pages, transactions, settlements and reconciliations stay in the states the
\* code distinguishes.
THEOREM CollectionsTyped == Spec => []TypeOK
<1>1. IInv => TypeOK
  BY DEF IInv, FundingInv, SettlingInv, RunInv, CertifiedInv, TypeOK
<1> QED
  BY <1>1, Invariant, PTL

\* One credit for each funding one of its own transactions has paid in full, however
\* many callers ask about which transaction, and however late they are heard.
THEOREM CreditsAreBacked == Spec => []CreditIsBacked
<1>1. IInv => CreditIsBacked
  BY DEF IInv, FundingInv
<1> QED
  BY <1>1, Invariant, PTL

\* The clearing account holds what was credited, less what the posted settlements really
\* contain, although their figures are upserted while they grow and several synchronisations
\* store what they heard earlier.
THEOREM ClearingTraced == Spec => []ClearingTraceable
<1>1. IInv => ClearingTraceable
  BY DEF IInv, SettlingInv
<1> QED
  BY <1>1, Invariant, PTL

\* A reconciliation that ends without an issue vouches for wallets that were credited,
\* though it compares what it was told earlier with what is there now.
THEOREM CleanRunsHold == Spec => []CleanRunHolds
<1>1. IInv => CleanRunHolds
  BY DEF IInv
<1> QED
  BY <1>1, Invariant, PTL

\* No credit is taken back: not by an old answer, not by the failure of an initiation, which
\* is written without a guard, and not by settlements and reconciliations.
THEOREM CreditsStay == Spec => CreditStays
<1>1. ASSUME IInv, [Next]_vars
      PROVE  \A f \in Fundings : funding[f] = "CREDITED" => funding'[f] = "CREDITED"
  <2>1. CASE Collecting
    BY <1>1, <2>1, FundingKeeps DEF Collecting, IInv, Grows
  <2>2. CASE ~Collecting
    <3>1. funding' = funding
      BY <1>1, <2>2 DEF Next, Settling, ProviderCompletes, IngestMonnify, ProviderAdds, StoreFlutterwave,
                        SyncFails, Fetch, Reconciling, StartRun, FetchList, FetchFailed, EndRun, RunEnds,
                        Compare, vars, fundingVars
    <3> QED
      BY <3>1
  <2> QED
    BY <2>1, <2>2
<1> QED
  BY <1>1, Invariant, PTL DEF Spec, CreditStays
=============================================================================
