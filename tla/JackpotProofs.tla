----------------------------- MODULE JackpotProofs -----------------------------
(***************************************************************************)
(* The safety properties of the offers, for any sales, quantities, weeks,  *)
(* thresholds and checkouts.                                               *)
(***************************************************************************)
EXTENDS Jackpot, FiniteSetTheorems, Functions, TLAPS

-----------------------------------------------------------------------------
(* Thresholds *)

\* More tickets never reach fewer thresholds.
LEMMA ThresholdGrows ==
  ASSUME NEW m \in Nat, NEW n \in Nat, m <= n
  PROVE  /\ Threshold(m) \in Nat /\ Threshold(n) \in Nat
         /\ Threshold(m) <= Threshold(n)
<1> DEFINE a == m \div PerOffer
           b == n \div PerOffer
<1>1. PerOffer \in Nat /\ PerOffer > 0
  BY JackpotAssumption
<1>2. a \in Nat /\ b \in Nat
  BY <1>1
<1>3. PerOffer * a <= m /\ n < PerOffer * (b + 1)
  BY <1>1
<1>4. ASSUME b < a PROVE FALSE
  <2>1. b + 1 <= a
    BY <1>2, <1>4
  <2>2. PerOffer * (b + 1) <= PerOffer * a
    BY <1>1, <1>2, <2>1
  <2>3. PerOffer * (b + 1) \in Int /\ PerOffer * a \in Int
    BY <1>1, <1>2
  <2> HIDE DEF a, b
  <2> QED
    BY <1>3, <2>2, <2>3
<1> QED
  BY <1>2, <1>4 DEF Threshold

\* An offer is a week and a threshold.
LEMMA OfferFields ==
  ASSUME NEW o \in Offers
  PROVE  o[1] \in Int /\ o[1] >= 1 /\ o[2] \in Int /\ o[2] >= 1 /\ o = <<o[1], o[2]>>
BY JackpotAssumption DEF Offers

\* The offers of a week within a threshold are no more than it.
LEMMA IssuedAreFew ==
  ASSUME TypeOK, RecordInv, EarnedInv
  PROVE  OffersAreEarned
<1> DEFINE n == Threshold(sold[week])
           f == [o \in Issued(week) |-> o[2]]
<1>1. sold[week] \in Nat
  BY JackpotAssumption DEF TypeOK, RecordInv
<1>2. n \in Nat
  BY <1>1, ThresholdGrows
<1>3. \A o \in Issued(week) : o[2] \in 1 .. n
  BY <1>2, OfferFields DEF Issued, EarnedInv
<1>4. ASSUME NEW o \in Issued(week), NEW p \in Issued(week), o[2] = p[2] PROVE o = p
  <2>1. o[1] = p[1] /\ o \in Offers /\ p \in Offers
    BY DEF Issued
  <2>2. o = <<o[1], o[2]>> /\ p = <<p[1], p[2]>>
    BY <2>1, OfferFields
  <2> QED
    BY <1>4, <2>1, <2>2
<1>5. f \in Injection(Issued(week), 1 .. n)
  BY <1>3, <1>4 DEF Injection, IsInjective
<1>6. IsFiniteSet(1 .. n) /\ Cardinality(1 .. n) = n
  BY <1>2, FS_Interval
<1>7. Cardinality(Issued(week)) <= n
  BY <1>5, <1>6, FS_Injection
<1> QED
  BY <1>7 DEF OffersAreEarned

-----------------------------------------------------------------------------
(* Sales and the weeks *)

Rows == [week : 0 .. week, quantity : Nat, same : BOOLEAN, count : Nat]

\* Offers only appear, within what was sold.
Grown ==
    \A o \in Offers :
        \/ offer'[o] = offer[o]
        \/ /\ offer[o] = "NONE" /\ offer'[o] = "AVAILABLE" /\ o[1] <= week
           /\ o[1] = week => o[2] <= Threshold(sold'[week])

\* What a sale reads.
LEMMA ReadIs ==
  ASSUME IInv, NEW q \in Quantities
  PROVE  /\ Read(q) \in Rows
         /\ Read(q).same /\ Read(q).week = week => accum.count <= sold[week]
<1>1. Current \in 0 .. week /\ q \in Nat /\ week \in 0 .. Weeks /\ Weeks \in Nat
  BY JackpotAssumption DEF IInv, TypeOK, Current
<1>2. accum.cycle \in 0 .. week /\ accum.count \in Nat
  BY DEF IInv, RecordInv
<1>3. CASE SameCycle
  <2>1. Read(q) = [week |-> Current, quantity |-> q, same |-> TRUE, count |-> accum.count]
    BY <1>3 DEF Read
  <2>2. Current = week => accum.count <= sold[week]
    BY <1>3 DEF IInv, CountInv, SameCycle
  <2> QED
    BY <1>1, <1>2, <2>1, <2>2 DEF Rows
<1>4. CASE ~SameCycle
  <2>1. Read(q) = [week |-> Current, quantity |-> q, same |-> FALSE, count |-> 0]
    <3>1. SameCycle = FALSE
      BY <1>4 DEF SameCycle
    <3> QED
      BY <3>1 DEF Read
  <2>2. Read(q) \in Rows
    BY <1>1, <2>1 DEF Rows
  <2>3. ~Read(q).same
    BY <2>1
  <2> QED
    BY <2>2, <2>3
<1> QED
  BY <1>3, <1>4

\* What a sale writes.
LEMMA RecordWrite ==
  ASSUME IInv, NEW r \in Rows, r.same /\ r.week = week => accum.count <= sold[week], Record(r)
  PROVE  /\ accum' \in [cycle : 0 .. week, count : Nat] /\ sold' \in [0 .. Weeks -> Nat]
         /\ offer' \in [Offers -> {"NONE", "AVAILABLE", "CLAIMING"} \cup Final]
         /\ accum.count <= sold[week] => accum'.count <= sold'[week]
         /\ accum'.cycle = accum.cycle \/ accum'.count <= sold'[week]
         /\ sold[week] <= sold'[week] /\ Grown
<1>1. /\ week \in 0 .. Weeks /\ Weeks \in Nat /\ r.week \in 0 .. week /\ r.quantity \in Nat
      /\ accum \in [cycle : 0 .. week, count : Nat] /\ sold \in [0 .. Weeks -> Nat]
      /\ offer \in [Offers -> {"NONE", "AVAILABLE", "CLAIMING"} \cup Final]
  BY JackpotAssumption DEF IInv, TypeOK, RecordInv, Rows
<1>2. CASE r.week = 0
  <2>1. UNCHANGED <<accum, offer, sold>>
    BY <1>2 DEF Record
  <2> QED
    BY <1>1, <2>1 DEF Grown
<1>3. CASE r.week # 0
  <2>1. /\ accum' = [cycle |-> IF r.same THEN accum.cycle ELSE r.week, count |-> NewCount(r)]
        /\ offer' = [o \in Offers |->
                        IF o \in Unlocked(r) /\ offer[o] = "NONE" THEN "AVAILABLE" ELSE offer[o]]
        /\ sold' = [w \in 0 .. Weeks |-> sold[w] + IF w \in {r.week, week} THEN r.quantity ELSE 0]
    BY <1>3 DEF Record
  <2>2. sold'[week] = sold[week] + r.quantity /\ sold[week] \in Nat
    BY <1>1, <2>1
  <2>3. sold' \in [0 .. Weeks -> Nat]
    BY <1>1, <2>1
  <2>4. NewCount(r) \in Nat
    BY <1>1 DEF NewCount
  <2>5. accum' \in [cycle : 0 .. week, count : Nat]
    BY <1>1, <2>1, <2>4
  <2>6. /\ accum.count <= sold[week] => NewCount(r) <= sold'[week]
        /\ ~r.same => NewCount(r) <= sold'[week]
        /\ r.week = week => NewCount(r) <= sold'[week]
    BY <1>1, <2>2 DEF NewCount
  <2>7. accum'.count = NewCount(r) /\ (r.same => accum'.cycle = accum.cycle)
    BY <2>1
  <2>8. offer' \in [Offers -> {"NONE", "AVAILABLE", "CLAIMING"} \cup Final]
    BY <1>1, <2>1
  <2>9. ASSUME NEW o \in Offers, offer'[o] # offer[o]
        PROVE  /\ offer[o] = "NONE" /\ offer'[o] = "AVAILABLE" /\ o[1] <= week
               /\ o[1] = week => o[2] <= Threshold(sold'[week])
    <3>1. offer[o] = "NONE" /\ offer'[o] = "AVAILABLE" /\ o \in Unlocked(r)
      BY <2>1, <2>9
    <3>2. o[1] = r.week /\ o[2] <= Threshold(NewCount(r))
      BY <3>1 DEF Unlocked
    <3>3. ASSUME o[1] = week PROVE o[2] <= Threshold(sold'[week])
      <4>1. /\ Threshold(NewCount(r)) <= Threshold(sold'[week])
            /\ Threshold(NewCount(r)) \in Nat /\ Threshold(sold'[week]) \in Nat
        <5>1. NewCount(r) <= sold'[week]
          BY <2>6, <3>2, <3>3
        <5>2. sold'[week] \in Nat
          BY <1>1, <2>2
        <5> QED
          BY <2>4, <5>1, <5>2, ThresholdGrows
      <4> QED
        BY <3>2, <4>1, OfferFields
    <3> QED
      BY <1>1, <3>1, <3>2, <3>3
  <2>10. Grown
    BY <2>9 DEF Grown
  <2>11. sold[week] <= sold'[week]
    BY <1>1, <2>2
  <2> QED
    BY <2>3, <2>5, <2>6, <2>7, <2>8, <2>10, <2>11
<1> QED
  BY <1>2, <1>3

\* Offers that appear are earned, and buy nothing yet.
LEMMA GrownKeeps ==
  ASSUME IInv, Grown, week' = week, sold[week] <= sold'[week],
         sold'[week] \in Nat, UNCHANGED <<tickets, pay, payFor>>
  PROVE  EarnedInv' /\ AttemptInv' /\ OneTicketPerOffer' /\ OneRail'
<1>1. sold[week] \in Nat
  BY JackpotAssumption DEF IInv, TypeOK, RecordInv
<1>2. EarnedInv'
  <2> SUFFICES ASSUME NEW o \in Offers, offer'[o] # "NONE"
               PROVE  o[1] <= week' /\ (o[1] = week' => o[2] <= Threshold(sold'[week']))
    BY DEF EarnedInv, Threshold
  <2>1. CASE offer'[o] # offer[o]
    BY <2>1 DEF Grown
  <2>2. CASE offer'[o] = offer[o]
    <3>1. o[1] <= week /\ (o[1] = week => o[2] <= Threshold(sold[week]))
      BY <2>2 DEF IInv, EarnedInv
    <3>2. /\ Threshold(sold[week]) <= Threshold(sold'[week])
          /\ Threshold(sold[week]) \in Nat /\ Threshold(sold'[week]) \in Nat
      BY <1>1, ThresholdGrows
    <3> QED
      BY <3>1, <3>2, OfferFields
  <2> QED
    BY <2>1, <2>2
<1>3. AttemptInv' /\ OneTicketPerOffer' /\ OneRail'
  BY DEF IInv, AttemptInv, OneTicketPerOffer, OneRail, Grown
<1> QED
  BY <1>2, <1>3

\* Sales keep the invariant, in whatever order they read and write.
LEMMA SaleKeeps ==
  ASSUME IInv, SaleSteps
  PROVE  IInv'
<1>1. /\ UNCHANGED <<week, open, fresh, counted, tickets, pay, payFor, charge>>
      /\ sale' \in [Sales -> {"NONE", "READ", "DONE"}]
  BY DEF SaleSteps, BeginSale, WalletSale, CommitSale, RollBackSale, clock, offers, payments, IInv, TypeOK
<1>2. /\ week \in 0 .. Weeks /\ Weeks \in Nat /\ seen \in [Sales -> Rows]
      /\ accum \in [cycle : 0 .. week, count : Nat] /\ sold \in [0 .. Weeks -> Nat]
      /\ offer \in [Offers -> {"NONE", "AVAILABLE", "CLAIMING"} \cup Final]
  BY JackpotAssumption DEF IInv, TypeOK, RecordInv, Rows
<1>3. Unread \in Rows /\ Unread.same = FALSE
  BY <1>2 DEF Unread, Rows
<1>4. ASSUME /\ accum' \in [cycle : 0 .. week, count : Nat] /\ sold' \in [0 .. Weeks -> Nat]
             /\ offer' \in [Offers -> {"NONE", "AVAILABLE", "CLAIMING"} \cup Final]
             /\ accum.count <= sold[week] => accum'.count <= sold'[week]
             /\ accum'.cycle = accum.cycle \/ accum'.count <= sold'[week]
             /\ sold[week] <= sold'[week] /\ Grown
             /\ seen' \in [Sales -> Rows]
             /\ \A s \in Sales : \/ seen'[s] \in {seen[s], Unread}
                                 \/ seen'[s].same /\ seen'[s].week = week => accum.count <= sold[week]
      PROVE  IInv'
  <2>1. RecordInv'
    BY <1>1, <1>4 DEF RecordInv, Rows
  <2>2. TypeOK'
    <3>1. accum'.cycle \in 0 .. Weeks /\ accum'.count \in Nat
      BY <1>2, <1>4
    <3>2. \A s \in Sales : seen'[s].week \in 0 .. Weeks /\ seen'[s].count \in Nat
      <4>1. ASSUME NEW s \in Sales PROVE seen'[s] \in Rows
        BY <1>4
      <4> QED
        BY <1>2, <4>1 DEF Rows
    <3> QED
      BY <1>1, <1>4, <3>1, <3>2 DEF IInv, TypeOK
  <2>3. CountInv'
    <3>1. CASE accum'.count <= sold'[week]
      BY <1>1, <3>1 DEF CountInv
    <3>2. CASE ~(accum'.count <= sold'[week])
      <4>1. ~(accum.count <= sold[week]) /\ accum'.cycle = accum.cycle
        BY <1>4, <3>2
      <4>2. accum.cycle # week /\ \A s \in Sales : ~(seen[s].same /\ seen[s].week = week)
        BY <4>1 DEF IInv, CountInv
      <4>3. \A s \in Sales : ~(seen'[s].same /\ seen'[s].week = week)
        BY <1>3, <1>4, <4>1, <4>2
      <4> QED
        BY <1>1, <4>1, <4>2, <4>3 DEF CountInv
    <3> QED
      BY <3>1, <3>2
  <2>4. EarnedInv' /\ AttemptInv' /\ OneTicketPerOffer' /\ OneRail'
    BY <1>1, <1>2, <1>4, GrownKeeps
  <2> QED
    BY <2>1, <2>2, <2>3, <2>4 DEF IInv
<1>5. ASSUME NEW s \in Sales, NEW q \in Quantities, BeginSale(s, q) PROVE IInv'
  <2>1. /\ UNCHANGED <<accum, sold, offer>> /\ seen' = [seen EXCEPT ![s] = Read(q)]
    BY <1>5 DEF BeginSale, offers
  <2>2. /\ seen' \in [Sales -> Rows]
        /\ \A t \in Sales : \/ seen'[t] \in {seen[t], Unread}
                            \/ seen'[t].same /\ seen'[t].week = week => accum.count <= sold[week]
    BY <1>2, <2>1, ReadIs
  <2>3. Grown /\ sold[week] <= sold'[week]
    BY <1>2, <2>1 DEF Grown
  <2> QED
    BY <1>2, <1>4, <2>1, <2>2, <2>3
<1>6. ASSUME NEW s \in Sales, RollBackSale(s) PROVE IInv'
  <2>1. /\ UNCHANGED <<accum, sold, offer>> /\ seen' = [seen EXCEPT ![s] = Unread]
    BY <1>6 DEF RollBackSale, offers
  <2>2. seen' \in [Sales -> Rows] /\ \A t \in Sales : seen'[t] \in {seen[t], Unread}
    BY <1>2, <1>3, <2>1
  <2>3. Grown /\ sold[week] <= sold'[week]
    BY <1>2, <2>1 DEF Grown
  <2> QED
    BY <1>2, <1>4, <2>1, <2>2, <2>3
<1>7. ASSUME NEW s \in Sales, CommitSale(s) PROVE IInv'
  <2>1. Record(seen[s]) /\ seen' = [seen EXCEPT ![s] = Unread]
    BY <1>7 DEF CommitSale
  <2>2. seen' \in [Sales -> Rows] /\ \A t \in Sales : seen'[t] \in {seen[t], Unread}
    BY <1>2, <1>3, <2>1
  <2>3. seen[s] \in Rows /\ (seen[s].same /\ seen[s].week = week => accum.count <= sold[week])
    BY <1>2 DEF IInv, CountInv
  <2> QED
    BY <1>4, <2>1, <2>2, <2>3, RecordWrite
<1>8. ASSUME NEW s \in Sales, NEW q \in Quantities, WalletSale(s, q) PROVE IInv'
  <2>1. Record(Read(q)) /\ seen' = seen
    BY <1>8 DEF WalletSale
  <2> QED
    BY <1>2, <1>4, <2>1, ReadIs, RecordWrite
<1> QED
  BY <1>5, <1>6, <1>7, <1>8 DEF SaleSteps

\* A new jackpot starts from nothing.
LEMMA WeekKeeps ==
  ASSUME IInv, OpenJackpot \/ Cutoff
  PROVE  IInv'
<1>1. UNCHANGED <<accum, sale, seen, sold, offer, fresh, counted, tickets, pay, payFor, charge>>
  BY DEF OpenJackpot, Cutoff, progress, offers, payments
<1>2. open' \in BOOLEAN /\ week' \in 0 .. Weeks /\ (week' = week \/ week' = week + 1)
  <2>1. week \in 0 .. Weeks /\ Weeks \in Nat
    BY JackpotAssumption DEF IInv, TypeOK
  <2>2. CASE OpenJackpot
    BY <2>1, <2>2 DEF OpenJackpot
  <2>3. CASE Cutoff
    BY <2>1, <2>3 DEF Cutoff
  <2> QED
    BY <2>2, <2>3
<1>3. TypeOK'
  BY <1>1, <1>2 DEF IInv, TypeOK
<1>4. week \in Nat /\ week' \in Nat
  BY <1>2, JackpotAssumption DEF IInv, TypeOK
<1>5. 0 .. week \subseteq 0 .. week'
  BY <1>2, <1>4
<1>6. RecordInv'
  <2>1. accum \in [cycle : 0 .. week', count : Nat]
    BY <1>5 DEF IInv, RecordInv
  <2>2. \A s \in Sales : seen[s] \in [week : 0 .. week', quantity : Nat, same : BOOLEAN, count : Nat]
    BY <1>5 DEF IInv, RecordInv
  <2> QED
    BY <1>1, <2>1, <2>2 DEF IInv, RecordInv
<1>7. CASE week' = week
  BY <1>1, <1>3, <1>6, <1>7
  DEF IInv, CountInv, EarnedInv, Threshold, AttemptInv, OneTicketPerOffer, OneRail
<1>8. CASE week' = week + 1
  <2>1. accum.cycle \in 0 .. week /\ \A s \in Sales : seen[s].week \in 0 .. week
    BY DEF IInv, RecordInv
  <2>2. CountInv'
    BY <1>1, <1>4, <1>8, <2>1 DEF CountInv
  <2>3. EarnedInv'
    <3> SUFFICES ASSUME NEW o \in Offers, offer[o] # "NONE" PROVE o[1] <= week' /\ o[1] # week'
      BY <1>1 DEF EarnedInv, Threshold
    <3>1. o[1] <= week /\ o[1] \in Int
      BY OfferFields DEF IInv, EarnedInv
    <3> QED
      BY <1>4, <1>8, <3>1
  <2> QED
    BY <1>1, <1>3, <1>6, <2>2, <2>3 DEF IInv, AttemptInv, OneTicketPerOffer, OneRail
<1> QED
  BY <1>2, <1>7, <1>8

-----------------------------------------------------------------------------
(* Offers and payments *)

\* The steps about offers and payments, where no offer appears.
LEMMA RestKeeps ==
  ASSUME IInv, UNCHANGED <<clock, progress, charge>> \/ (UNCHANGED <<clock, progress>> /\ charge' \in [Attempts -> {"NO", "IN_TIME", "LATE"}]),
         offer' \in [Offers -> {"NONE", "AVAILABLE", "CLAIMING"} \cup Final],
         \A o \in Offers : offer[o] = "NONE" => offer'[o] = "NONE",
         fresh' \in [Offers -> BOOLEAN], counted' \subseteq Offers,
         tickets' \in [Offers -> 0 .. 1],
         pay' \in [Attempts -> Active \cup {"NONE", "FAILED", "REFUNDED"}],
         payFor' \in [Attempts -> Offers \cup {NoOffer}]
  PROVE  TypeOK' /\ RecordInv' /\ CountInv' /\ EarnedInv'
<1>1. UNCHANGED <<week, open, accum, sale, seen, sold>>
  BY DEF clock, progress
<1>2. charge' \in [Attempts -> {"NO", "IN_TIME", "LATE"}]
  BY DEF IInv, TypeOK
<1>3. TypeOK'
  BY <1>1, <1>2 DEF IInv, TypeOK
<1>4. RecordInv' /\ CountInv'
  BY <1>1 DEF IInv, RecordInv, CountInv
<1>5. EarnedInv'
  BY <1>1 DEF IInv, EarnedInv, Threshold
<1> QED
  BY <1>3, <1>4, <1>5

\* What may become of the offers without a purchase: those that have ended stay.
Kept ==
    \A o \in Offers :
        \/ offer'[o] = offer[o]
        \/ /\ offer[o] \in {"AVAILABLE", "CLAIMING"}
           /\ offer'[o] \in {"AVAILABLE", "CLAIMING", "EXPIRED", "DECLINED"}

\* What a customer asks for about one offer, but buying it.
Request(o) ==
    \/ Reserve(o) \/ Decline(o) \/ DeclineAsGuest(o)
    \/ BeginRelease(o) \/ Release(o) \/ GoesStale(o)

\* The normalisation each request begins with.
LEMMA NormalIs ==
  ASSUME IInv, NEW o \in Offers
  PROVE  /\ Normal(o) \in {"NONE", "AVAILABLE", "CLAIMING"} \cup Final
         /\ Normal(o) = offer[o] \/ (offer[o] \in {"AVAILABLE", "CLAIMING"} /\ Normal(o) \in {"AVAILABLE", "EXPIRED"})
BY DEF IInv, TypeOK, Normal, Final

\* Requests about an offer.
LEMMA RequestWrite ==
  ASSUME IInv, Look \/ \E o \in Offers : Request(o)
  PROVE  /\ UNCHANGED <<clock, progress, tickets, payments>>
         /\ offer' \in [Offers -> {"NONE", "AVAILABLE", "CLAIMING"} \cup Final]
         /\ fresh' \in [Offers -> BOOLEAN] /\ counted' \subseteq Offers /\ Kept
<1>1. /\ offer \in [Offers -> {"NONE", "AVAILABLE", "CLAIMING"} \cup Final]
      /\ fresh \in [Offers -> BOOLEAN] /\ counted \subseteq Offers
  BY DEF IInv, TypeOK
<1>2. StillFresh \in [Offers -> BOOLEAN]
  <2>1. ASSUME NEW p \in Offers PROVE (fresh[p] /\ Normal(p) = "CLAIMING") \in BOOLEAN
    OBVIOUS
  <2> QED
    BY <2>1 DEF StillFresh
<1>3. UNCHANGED <<clock, progress, tickets, payments>>
  BY DEF Look, Request, Reserve, Decline, DeclineAsGuest, BeginRelease, Release, GoesStale
<1>4. fresh' \in [Offers -> BOOLEAN] /\ counted' \subseteq Offers
  BY <1>1, <1>2 DEF Look, Request, Reserve, Decline, DeclineAsGuest, BeginRelease, Release, GoesStale
<1>5. ASSUME NEW o \in Offers, NEW s \in {"CLAIMING", "DECLINED"}, Become(o, s), Normal(o) = "AVAILABLE"
      PROVE  offer' \in [Offers -> {"NONE", "AVAILABLE", "CLAIMING"} \cup Final] /\ Kept
  <2>1. offer' = [p \in Offers |-> IF p = o THEN s ELSE Normal(p)]
    BY <1>5 DEF Become
  <2>2. s \in {"NONE", "AVAILABLE", "CLAIMING"} \cup Final
    BY DEF Final
  <2>3. offer[o] \in {"AVAILABLE", "CLAIMING"}
    BY <1>5, NormalIs
  <2>4. offer' \in [Offers -> {"NONE", "AVAILABLE", "CLAIMING"} \cup Final]
    BY <2>1, <2>2, NormalIs
  <2>5. Kept
    BY <2>1, <2>3, NormalIs DEF Kept
  <2> QED
    BY <2>4, <2>5
<1>6. ASSUME NormalOffers
      PROVE  offer' \in [Offers -> {"NONE", "AVAILABLE", "CLAIMING"} \cup Final] /\ Kept
  <2>1. offer' = [p \in Offers |-> Normal(p)]
    BY <1>6 DEF NormalOffers
  <2> QED
    BY <2>1, NormalIs DEF Kept
<1>7. ASSUME NEW o \in Offers, NEW s \in {"AVAILABLE", "DECLINED"}, offer[o] \in {"AVAILABLE", "CLAIMING"},
             offer' = [offer EXCEPT ![o] = s]
      PROVE  offer' \in [Offers -> {"NONE", "AVAILABLE", "CLAIMING"} \cup Final] /\ Kept
  BY <1>1, <1>7 DEF Kept, Final
<1>8. ASSUME offer' = offer
      PROVE  offer' \in [Offers -> {"NONE", "AVAILABLE", "CLAIMING"} \cup Final] /\ Kept
  BY <1>1, <1>8 DEF Kept
<1>9. ASSUME NEW o \in Offers, Release(o)
      PROVE  offer' \in [Offers -> {"NONE", "AVAILABLE", "CLAIMING"} \cup Final] /\ Kept
  <2>1. CASE offer[o] = "CLAIMING"
    BY <1>7, <1>9, <2>1 DEF Release
  <2>2. CASE offer[o] # "CLAIMING"
    BY <1>1, <1>8, <1>9, <2>2 DEF Release
  <2> QED
    BY <2>1, <2>2
<1>10. offer' \in [Offers -> {"NONE", "AVAILABLE", "CLAIMING"} \cup Final] /\ Kept
  <2>1. CASE Look
    BY <1>6, <2>1 DEF Look
  <2>2. ASSUME NEW o \in Offers, Request(o)
        PROVE  offer' \in [Offers -> {"NONE", "AVAILABLE", "CLAIMING"} \cup Final] /\ Kept
    <3>1. CASE Reserve(o) \/ Decline(o)
      BY <1>5, <3>1 DEF Reserve, Decline
    <3>2. CASE DeclineAsGuest(o)
      BY <1>7, <3>2 DEF DeclineAsGuest
    <3>3. CASE BeginRelease(o) \/ GoesStale(o)
      BY <1>8, <3>3 DEF BeginRelease, GoesStale
    <3> QED
      BY <1>9, <2>2, <3>1, <3>2, <3>3 DEF Request
  <2> QED
    BY <2>1, <2>2
<1> QED
  BY <1>3, <1>4, <1>10

\* They keep the invariant.
LEMMA RequestKeeps ==
  ASSUME IInv, Look \/ \E o \in Offers : Request(o)
  PROVE  IInv'
<1>1. /\ UNCHANGED <<clock, progress, tickets, payments>>
      /\ offer' \in [Offers -> {"NONE", "AVAILABLE", "CLAIMING"} \cup Final]
      /\ fresh' \in [Offers -> BOOLEAN] /\ counted' \subseteq Offers /\ Kept
  BY RequestWrite
<1>2. UNCHANGED <<tickets, pay, payFor, charge>>
  BY <1>1 DEF payments
<1>3. /\ tickets \in [Offers -> 0 .. 1] /\ pay \in [Attempts -> Active \cup {"NONE", "FAILED", "REFUNDED"}]
      /\ payFor \in [Attempts -> Offers \cup {NoOffer}]
  BY DEF IInv, TypeOK
<1>4. \A p \in Offers : offer[p] = "NONE" => offer'[p] = "NONE"
  BY <1>1 DEF Kept
<1>5. TypeOK' /\ RecordInv' /\ CountInv' /\ EarnedInv'
  BY <1>1, <1>2, <1>3, <1>4, RestKeeps
<1>6. AttemptInv' /\ OneRail' /\ OneTicketPerOffer'
  BY <1>1, <1>2 DEF IInv, AttemptInv, OneRail, OneTicketPerOffer, Kept
<1> QED
  BY <1>5, <1>6 DEF IInv

\* An offer becomes a ticket, once: nobody else is paying for it.
LEMMA RedeemKeeps ==
  ASSUME IInv, NEW o \in Offers, offer[o] \in {"AVAILABLE", "CLAIMING"}, Redeem(o),
         UNCHANGED <<clock, progress, counted, charge>>,
         pay' \in [Attempts -> Active \cup {"NONE", "FAILED", "REFUNDED"}], payFor' = payFor,
         \A a \in Attempts : payFor[a] = o => pay'[a] # "PENDING",
         \A a \in Attempts : pay'[a] = pay[a] \/ (pay[a] = "PENDING" /\ pay'[a] = "CONFIRMED")
  PROVE  IInv'
<1>1. /\ offer \in [Offers -> {"NONE", "AVAILABLE", "CLAIMING"} \cup Final]
      /\ fresh \in [Offers -> BOOLEAN] /\ counted \subseteq Offers /\ tickets \in [Offers -> 0 .. 1]
      /\ payFor \in [Attempts -> Offers \cup {NoOffer}]
  BY DEF IInv, TypeOK
<1>2. /\ offer' = [offer EXCEPT ![o] = "CLAIMED"] /\ fresh' = [fresh EXCEPT ![o] = FALSE]
      /\ tickets' = [tickets EXCEPT ![o] = @ + 1]
  BY DEF Redeem
<1>3. tickets[o] = 0
  BY <1>1 DEF IInv, OneTicketPerOffer
<1>4. tickets' \in [Offers -> 0 .. 1] /\ tickets'[o] = 1
  BY <1>1, <1>2, <1>3
<1>5. offer' \in [Offers -> {"NONE", "AVAILABLE", "CLAIMING"} \cup Final] /\ fresh' \in [Offers -> BOOLEAN]
  BY <1>1, <1>2 DEF Final
<1>6. /\ offer'[o] = "CLAIMED"
      /\ \A p \in Offers : p # o => offer'[p] = offer[p] /\ tickets'[p] = tickets[p]
  BY <1>1, <1>2
<1>7. \A p \in Offers : offer[p] = "NONE" => offer'[p] = "NONE"
  BY <1>6
<1>8. TypeOK' /\ RecordInv' /\ CountInv' /\ EarnedInv'
  BY <1>1, <1>4, <1>5, <1>7, RestKeeps
<1>9. AttemptInv'
  BY DEF IInv, AttemptInv, Active
<1>10. OneTicketPerOffer'
  BY <1>4, <1>6 DEF IInv, OneTicketPerOffer
<1>11. OneRail'
  BY <1>6 DEF IInv, OneRail
<1> QED
  BY <1>8, <1>9, <1>10, <1>11 DEF IInv

\* A checkout begins while no other may still succeed.
LEMMA CheckoutKeeps ==
  ASSUME IInv, NEW a \in Attempts, NEW o \in Offers, Checkout(a, o)
  PROVE  IInv'
<1>1. /\ offer \in [Offers -> {"NONE", "AVAILABLE", "CLAIMING"} \cup Final]
      /\ fresh \in [Offers -> BOOLEAN] /\ counted \subseteq Offers /\ tickets \in [Offers -> 0 .. 1]
      /\ pay \in [Attempts -> Active \cup {"NONE", "FAILED", "REFUNDED"}]
      /\ payFor \in [Attempts -> Offers \cup {NoOffer}]
  BY DEF IInv, TypeOK
<1>2. /\ offer[o] \in {"AVAILABLE", "CLAIMING"} /\ offer' = [offer EXCEPT ![o] = "CLAIMING"]
      /\ pay[a] = "NONE" /\ pay' = [pay EXCEPT ![a] = "PENDING"] /\ payFor' = [payFor EXCEPT ![a] = o]
      /\ UNCHANGED <<clock, progress, counted, tickets, charge>>
      /\ \A b \in Attempts : payFor[b] = o => pay[b] \notin Active
  BY DEF Checkout, MayBuy, ActivePayment
<1>3. fresh' \in [Offers -> BOOLEAN]
  <2>1. fresh' = [fresh EXCEPT ![o] = fresh[o] \/ Renewed(o)]
    BY DEF Checkout
  <2>2. (fresh[o] \/ Renewed(o)) \in BOOLEAN
    OBVIOUS
  <2> QED
    BY <1>1, <2>1, <2>2
<1>4. offer' \in [Offers -> {"NONE", "AVAILABLE", "CLAIMING"} \cup Final]
  BY <1>1, <1>2
<1>5. /\ pay' \in [Attempts -> Active \cup {"NONE", "FAILED", "REFUNDED"}]
      /\ payFor' \in [Attempts -> Offers \cup {NoOffer}]
  BY <1>1, <1>2 DEF Active
<1>6. /\ offer'[o] = "CLAIMING" /\ \A p \in Offers : p # o => offer'[p] = offer[p]
      /\ pay'[a] = "PENDING" /\ payFor'[a] = o
      /\ \A b \in Attempts : b # a => pay'[b] = pay[b] /\ payFor'[b] = payFor[b]
  BY <1>1, <1>2
<1>7. TypeOK' /\ RecordInv' /\ CountInv' /\ EarnedInv'
  <2>1. \A p \in Offers : offer[p] = "NONE" => offer'[p] = "NONE"
    BY <1>2, <1>6
  <2>2. counted' \subseteq Offers /\ tickets' \in [Offers -> 0 .. 1]
    BY <1>1, <1>2
  <2> QED
    BY <1>2, <1>3, <1>4, <1>5, <2>1, <2>2, RestKeeps
<1>8. AttemptInv'
  BY <1>2, <1>6 DEF IInv, AttemptInv
<1>9. OneTicketPerOffer'
  BY <1>2, <1>6 DEF IInv, OneTicketPerOffer
<1>10. OneRail'
  BY <1>2, <1>6 DEF IInv, OneRail, OneTicketPerOffer
<1> QED
  BY <1>7, <1>8, <1>9, <1>10 DEF IInv

\* A payment moves on; it is never pending again.
LEMMA PaymentKeeps ==
  ASSUME IInv, NEW a \in Attempts,
         PaymentFails(a) \/ CustomerPays(a) \/ ConfirmPayment(a) \/ ReviewPayment(a) \/ RefundMoves(a)
  PROVE  IInv'
<1>1. /\ offer \in [Offers -> {"NONE", "AVAILABLE", "CLAIMING"} \cup Final]
      /\ fresh \in [Offers -> BOOLEAN] /\ counted \subseteq Offers /\ tickets \in [Offers -> 0 .. 1]
      /\ pay \in [Attempts -> Active \cup {"NONE", "FAILED", "REFUNDED"}]
      /\ payFor \in [Attempts -> Offers \cup {NoOffer}] /\ charge \in [Attempts -> {"NO", "IN_TIME", "LATE"}]
  BY DEF IInv, TypeOK
<1>2. CASE ConfirmPayment(a)
  <2>1. /\ pay[a] = "PENDING" /\ pay' = [pay EXCEPT ![a] = "CONFIRMED"] /\ offer[payFor[a]] = "CLAIMING"
        /\ Redeem(payFor[a]) /\ UNCHANGED <<clock, progress, counted, payFor, charge>>
    BY <1>2 DEF ConfirmPayment, Valid
  <2>2. payFor[a] \in Offers
    BY <2>1 DEF IInv, AttemptInv
  <2>3. pay'[a] = "CONFIRMED" /\ \A b \in Attempts : b # a => pay'[b] = pay[b]
    BY <1>1, <2>1
  <2>4. \A b \in Attempts : payFor[b] = payFor[a] => pay'[b] # "PENDING"
    BY <2>1, <2>3 DEF IInv, AttemptInv, Active
  <2>5. pay' \in [Attempts -> Active \cup {"NONE", "FAILED", "REFUNDED"}]
    BY <1>1, <2>1 DEF Active
  <2> QED
    BY <2>1, <2>2, <2>3, <2>4, <2>5, RedeemKeeps
<1>3. CASE PaymentFails(a) \/ CustomerPays(a) \/ ReviewPayment(a) \/ RefundMoves(a)
  <2>1. UNCHANGED <<clock, progress, offers, payFor>>
    BY <1>3 DEF PaymentFails, CustomerPays, ReviewPayment, RefundMoves
  <2>2. charge' \in [Attempts -> {"NO", "IN_TIME", "LATE"}]
    BY <1>1, <1>3 DEF PaymentFails, CustomerPays, ReviewPayment, RefundMoves
  <2>3. /\ pay' \in [Attempts -> Active \cup {"NONE", "FAILED", "REFUNDED"}]
        /\ \A b \in Attempts : pay'[b] = pay[b] \/ (pay[b] \in Active /\ pay'[b] \notin {"NONE", "PENDING"})
    BY <1>1, <1>3 DEF PaymentFails, CustomerPays, ReviewPayment, RefundMoves, Active
  <2>4. UNCHANGED <<offer, fresh, counted, tickets>>
    BY <2>1 DEF offers
  <2>5. TypeOK' /\ RecordInv' /\ CountInv' /\ EarnedInv'
    BY <1>1, <2>1, <2>2, <2>3, <2>4, RestKeeps
  <2>6. AttemptInv'
    BY <2>1, <2>3 DEF IInv, AttemptInv, Active
  <2>7. OneTicketPerOffer' /\ OneRail'
    BY <2>1, <2>3, <2>4 DEF IInv, OneTicketPerOffer, OneRail
  <2> QED
    BY <2>5, <2>6, <2>7 DEF IInv
<1> QED
  BY <1>2, <1>3

\* Bought from the wallet.
LEMMA WalletBuyKeeps ==
  ASSUME IInv, NEW o \in Offers, BuyFromWallet(o)
  PROVE  IInv'
<1>1. /\ offer[o] \in {"AVAILABLE", "CLAIMING"} /\ Redeem(o)
      /\ UNCHANGED <<clock, progress, counted>> /\ UNCHANGED <<pay, payFor, charge>>
      /\ \A a \in Attempts : payFor[a] = o => pay[a] \notin Active
  BY DEF BuyFromWallet, MayBuy, NoPayment, ActivePayment, payments
<1>2. \A a \in Attempts : payFor[a] = o => pay[a] # "PENDING"
  BY <1>1 DEF Active
<1>3. pay \in [Attempts -> Active \cup {"NONE", "FAILED", "REFUNDED"}]
  BY DEF IInv, TypeOK
<1> QED
  BY <1>1, <1>2, <1>3, RedeemKeeps

-----------------------------------------------------------------------------
(* The theorems *)

\* Nothing has happened.
LEMMA Initially == Init => IInv
<1> SUFFICES ASSUME Init PROVE IInv
  OBVIOUS
<1>1. week = 0 /\ Weeks \in Nat
  BY JackpotAssumption DEF Init
<1>2. Unread \in [week : 0 .. week, quantity : Nat, same : BOOLEAN, count : Nat] /\ Unread.same = FALSE
  BY <1>1 DEF Unread
<1>3. /\ seen \in [Sales -> [week : 0 .. week, quantity : Nat, same : BOOLEAN, count : Nat]]
      /\ accum \in [cycle : 0 .. week, count : Nat] /\ sold = [w \in 0 .. Weeks |-> 0]
  BY <1>1, <1>2 DEF Init
<1>4. RecordInv
  BY <1>1, <1>3 DEF RecordInv
<1>5. TypeOK
  <2>1. \A s \in Sales : seen[s].week \in 0 .. Weeks /\ seen[s].count \in Nat
    BY <1>1, <1>3
  <2>2. accum.cycle \in 0 .. Weeks /\ accum.count \in Nat
    BY <1>1, <1>3
  <2>3. tickets \in [Offers -> 0 .. 1] /\ fresh \in [Offers -> BOOLEAN] /\ counted \subseteq Offers
    BY DEF Init
  <2>4. /\ pay \in [Attempts -> Active \cup {"NONE", "FAILED", "REFUNDED"}]
        /\ payFor \in [Attempts -> Offers \cup {NoOffer}] /\ charge \in [Attempts -> {"NO", "IN_TIME", "LATE"}]
    BY DEF Init
  <2>5. /\ sale \in [Sales -> {"NONE", "READ", "DONE"}]
        /\ offer \in [Offers -> {"NONE", "AVAILABLE", "CLAIMING"} \cup Final]
    BY DEF Init
  <2>6. week \in 0 .. Weeks
    BY <1>1
  <2>7. open \in BOOLEAN
    BY DEF Init
  <2> QED
    BY <2>1, <2>2, <2>3, <2>4, <2>5, <2>6, <2>7 DEF TypeOK
<1>6. CountInv
  BY <1>1, <1>3 DEF Init, CountInv
<1>7. EarnedInv
  BY DEF Init, EarnedInv
<1>8. AttemptInv /\ OneTicketPerOffer /\ OneRail
  BY DEF Init, AttemptInv, OneTicketPerOffer, OneRail, Active
<1> QED
  BY <1>4, <1>5, <1>6, <1>7, <1>8 DEF IInv

\* Every step keeps the invariant.
LEMMA StepKeeps == IInv /\ [Next]_vars => IInv'
<1> SUFFICES ASSUME IInv, [Next]_vars PROVE IInv'
  OBVIOUS
<1>1. ASSUME UNCHANGED vars PROVE IInv'
  BY <1>1 DEF vars, clock, progress, offers, payments, IInv, TypeOK, RecordInv, CountInv, EarnedInv,
              Threshold, AttemptInv, OneTicketPerOffer, OneRail
<1>2. ASSUME OfferSteps PROVE IInv'
  BY <1>2, RequestKeeps, WalletBuyKeeps, CheckoutKeeps DEF OfferSteps, Request
<1>3. ASSUME PaymentSteps PROVE IInv'
  BY <1>3, PaymentKeeps DEF PaymentSteps
<1> QED
  BY <1>1, <1>2, <1>3, WeekKeeps, SaleKeeps, RequestKeeps DEF Next

\* The whole invariant, of which each property below is a part.
LEMMA Invariant == Spec => []IInv
BY Initially, StepKeeps, PTL DEF Spec

\* Counts, offers and payments stay in the states the code distinguishes.
THEOREM JackpotTyped == Spec => []TypeOK
<1>1. IInv => TypeOK
  BY DEF IInv
<1> QED
  BY <1>1, Invariant, PTL

\* However sales overlap each other and the beginning of a week, a jackpot has no more
\* offers than its tickets earned.
THEOREM OffersEarned == Spec => []OffersAreEarned
<1>1. IInv => OffersAreEarned
  BY IssuedAreFew DEF IInv
<1> QED
  BY <1>1, Invariant, PTL

\* An offer that is claimed bought one ticket, and no other offer did.
THEOREM OfferRedeemedOnce == Spec => []OneTicketPerOffer
<1>1. IInv => OneTicketPerOffer
  BY DEF IInv
<1> QED
  BY <1>1, Invariant, PTL

\* Once an offer bought its ticket, no payment for it can still be confirmed.
THEOREM OfferOnOneRail == Spec => []OneRail
<1>1. IInv => OneRail
  BY DEF IInv
<1> QED
  BY <1>1, Invariant, PTL

\* Offers claimed, declined or expired stay so.
THEOREM EndedOffersStay == Spec => FinalStays
<1>1. ASSUME IInv, [Next]_vars, NEW o \in Offers, offer[o] \in Final
      PROVE  offer'[o] = offer[o]
  <2>1. offer[o] \notin {"NONE", "AVAILABLE", "CLAIMING"}
    BY <1>1 DEF Final
  <2>2. offer \in [Offers -> {"NONE", "AVAILABLE", "CLAIMING"} \cup Final]
    BY <1>1 DEF IInv, TypeOK
  <2>3. CASE Look \/ \E p \in Offers : Request(p)
    <3>1. Kept
      BY <1>1, <2>3, RequestWrite
    <3> QED
      BY <2>1, <3>1 DEF Kept
  <2>4. ASSUME NEW p \in Offers, BuyFromWallet(p) \/ \E a \in Attempts : Checkout(a, p)
        PROVE  offer'[o] = offer[o]
    <3>1. /\ offer[p] \in {"AVAILABLE", "CLAIMING"}
          /\ \E s : offer' = [offer EXCEPT ![p] = s]
      BY <2>4 DEF BuyFromWallet, Checkout, MayBuy, Redeem
    <3> QED
      BY <2>1, <2>2, <3>1
  <2>5. CASE PaymentSteps
    <3>1. PICK a \in Attempts : \/ PaymentFails(a) \/ CustomerPays(a)
                               \/ ConfirmPayment(a) \/ ReviewPayment(a) \/ RefundMoves(a)
      BY <2>5 DEF PaymentSteps
    <3>2. CASE ConfirmPayment(a)
      <4>1. offer[payFor[a]] = "CLAIMING" /\ offer' = [offer EXCEPT ![payFor[a]] = "CLAIMED"]
        BY <3>2 DEF ConfirmPayment, Valid, Redeem
      <4> QED
        BY <2>1, <2>2, <4>1
    <3>3. CASE ~ConfirmPayment(a)
      BY <3>1, <3>3 DEF PaymentFails, CustomerPays, ReviewPayment, RefundMoves, offers
    <3> QED
      BY <3>2, <3>3
  <2>6. CASE SaleSteps
    <3>1. UNCHANGED offer \/ \E r : Record(r)
      BY <2>6 DEF SaleSteps, BeginSale, RollBackSale, CommitSale, WalletSale, offers
    <3> QED
      BY <2>1, <2>2, <3>1 DEF Record
  <2>7. CASE OpenJackpot \/ Cutoff \/ UNCHANGED vars
    BY <2>7 DEF OpenJackpot, Cutoff, vars, offers
  <2> QED
    BY <1>1, <2>3, <2>4, <2>5, <2>6, <2>7 DEF Next, OfferSteps, Request
<1>2. IInv /\ [Next]_vars => [\A o \in Offers : offer[o] \in Final => offer'[o] = offer[o]]_vars
  BY <1>1
<1> QED
  BY <1>2, Invariant, PTL DEF Spec, FinalStays
=============================================================================
