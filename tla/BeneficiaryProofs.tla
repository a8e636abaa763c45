--------------------------- MODULE BeneficiaryProofs ---------------------------
(***************************************************************************)
(* The safety properties of the account a customer is paid on, for any     *)
(* claims, accounts, checks of a claim and codes.                          *)
(***************************************************************************)
EXTENDS Beneficiary, FiniteSetTheorems, TLAPS

-----------------------------------------------------------------------------
(* Types *)

\* What the tables hold in the beginning is well typed.
LEMMA InitTyped == Init => TypeOK
<1> SUFFICES ASSUME Init PROVE TypeOK
  OBVIOUS
<1>1. NoCheck \in CheckRow
  BY DEF NoCheck, CheckRow
<1>2. tries \in [Claims -> 0 .. MaxTries] /\ Len(codes) <= MaxCodes
  BY BeneficiaryAssumption DEF Init
<1>3. check \in [Claims -> CheckRow]
  BY <1>1 DEF Init
<1>4. codes \in Seq(CodeRow)
  BY DEF Init
<1> HIDE DEF NoCheck
<1> QED
  BY <1>2, <1>3, <1>4 DEF Init, TypeOK

\* One field of a check, or of a code, is written.
LEMMA CheckWrite ==
  ASSUME check \in [Claims -> CheckRow], NEW c \in Claims, NEW row \in CheckRow
  PROVE  [check EXCEPT ![c] = row] \in [Claims -> CheckRow]
OBVIOUS

\* A code that changes its state stays a code in its place.
LEMMA CodeWrite ==
  ASSUME codes \in Seq(CodeRow), NEW i \in DOMAIN codes, NEW s \in {"GRANTED", "SPENT", "GONE"},
         codes' = [codes EXCEPT ![i].state = s]
  PROVE  codes' \in Seq(CodeRow) /\ Len(codes') = Len(codes)
<1> DEFINE row == [codes[i] EXCEPT !.state = s]
<1>1. codes[i] \in CodeRow
  OBVIOUS
<1>2. row \in CodeRow
  BY <1>1 DEF CodeRow
<1>3. codes' = [codes EXCEPT ![i] = row]
  OBVIOUS
<1> HIDE DEF row
<1> QED
  BY <1>2, <1>3

\* The steps of the codes keep the types.
LEMMA OtpTyped == TypeOK /\ OtpSteps => TypeOK'
<1> SUFFICES ASSUME TypeOK, OtpSteps PROVE TypeOK'
  OBVIOUS
<1> USE DEF TypeOK, identity, accounts, otp, payouts, wallet
<1>1. ASSUME NEW c \in Claims, NEW b \in Banks, Request(c, b) PROVE TypeOK'
  BY <1>1, BeneficiaryAssumption DEF Request, Code, CodeRow
<1>2. ASSUME NEW i \in DOMAIN codes, VerifyCode(i) PROVE TypeOK'
  BY <1>2, CodeWrite DEF VerifyCode
<1>3. ASSUME NEW i \in DOMAIN codes, CodeGone(i) PROVE TypeOK'
  BY <1>3, CodeWrite DEF CodeGone
<1> QED
  BY <1>1, <1>2, <1>3 DEF OtpSteps

\* The identity coordinator and the provider's events do.
LEMMA IdentityTyped == TypeOK /\ IdentitySteps => TypeOK'
<1> SUFFICES ASSUME TypeOK, IdentitySteps PROVE TypeOK'
  OBVIOUS
<1> USE DEF TypeOK, identity, accounts, otp, payouts, wallet
<1>1. ASSUME NEW c \in Claims, NEW b \in Banks, Start(c, b) PROVE TypeOK'
  <2>1. /\ tries' \in [Claims -> 0 .. MaxTries] /\ asking' \subseteq Claims
        /\ claim' \in [Claims -> {"SELECTION_MADE", "KYC_PENDING", "KYC_CLEARED"}]
    BY <1>1, BeneficiaryAssumption DEF Start, MayTry, Reopen
  <2>2. UNCHANGED <<approved, payout, destination, withdrawal, link, clients>>
    BY <1>1 DEF Start
  <2>3. NewCheck(c, b, "NO") \/ NewCheck(c, b, "FRESH")
    BY <1>1 DEF Start, StartFirst, StartReuse, StartChange
  <2>4. check' \in [Claims -> CheckRow]
    <3>1. \A s \in {"NO", "FRESH"} :
            [status |-> "PREPARING", bank |-> b, sent |-> FALSE, change |-> s] \in CheckRow
      BY DEF CheckRow
    <3> QED
      BY <2>3, <3>1 DEF NewCheck
  <2>5. pending' \in Account \cup {NoAccount}
    <3>1. CASE UNCHANGED pending
      BY <3>1
    <3>2. CASE Register(c, b)
      BY <1>1, <3>2, BeneficiaryAssumption DEF Register, Start, MayTry, Account
    <3> QED
      BY <1>1, <3>1, <3>2 DEF Start, StartFirst, StartReuse, StartChange
  <2>6. /\ codes' \in Seq(CodeRow)
        /\ Len(codes') <= MaxCodes /\ changes' \in [Claims -> Nat]
    <3>1. CASE UNCHANGED <<codes, changes>>
      BY <3>1
    <3>2. CASE StartChange(c, b)
      <4>1. PICK i \in DOMAIN codes : codes' = [codes EXCEPT ![i].state = "SPENT"]
        BY <3>2 DEF StartChange, Consume
      <4>2. changes' \in [Claims -> Nat]
        BY <3>2 DEF StartChange
      <4> QED
        BY <4>1, <4>2, CodeWrite
    <3> QED
      BY <1>1, <3>1, <3>2 DEF Start, StartFirst, StartReuse
  <2> QED
    BY <2>1, <2>2, <2>4, <2>5, <2>6
<1>2. ASSUME NEW c \in Claims, MarkSubmitted(c) \/ RequestEnds(c) \/ OutcomeUnknown(c) PROVE TypeOK'
  <2>1. /\ asking' \subseteq Claims
        /\ UNCHANGED <<claim, tries, approved, pending, codes, changes, payout, destination,
                       withdrawal, link, clients>>
    BY <1>2 DEF MarkSubmitted, RequestEnds, OutcomeUnknown
  <2>2. check[c] \in CheckRow
    OBVIOUS
  <2>3. ASSUME MarkSubmitted(c) PROVE check' \in [Claims -> CheckRow]
    <3>1. check' = [check EXCEPT ![c] = [check[c] EXCEPT !.status = "SUBMITTED", !.sent = TRUE]]
      BY <2>3 DEF MarkSubmitted
    <3>2. [check[c] EXCEPT !.status = "SUBMITTED", !.sent = TRUE] \in CheckRow
      BY <2>2 DEF CheckRow
    <3> QED
      BY <3>1, <3>2, CheckWrite
  <2>4. ASSUME OutcomeUnknown(c) PROVE check' \in [Claims -> CheckRow]
    <3>1. PICK s \in {"UNKNOWN", check[c].status} :
            check' = [check EXCEPT ![c] = [check[c] EXCEPT !.status = s]]
      BY <2>4 DEF OutcomeUnknown
    <3>2. [check[c] EXCEPT !.status = s] \in CheckRow
      BY <2>2 DEF CheckRow
    <3> QED
      BY <3>1, <3>2, CheckWrite
  <2>5. check' \in [Claims -> CheckRow]
    BY <1>2, <2>3, <2>4 DEF RequestEnds
  <2> QED
    BY <2>1, <2>5
<1>3. ASSUME NEW c \in Claims, IdentityEvent(c) PROVE TypeOK'
  <2>1. UNCHANGED <<claim, tries, asking, codes, changes, payout, destination, withdrawal, link, clients>>
    BY <1>3 DEF IdentityEvent
  <2>2. Decide(c, "VERIFIED") \/ Decide(c, "FAILED")
    BY <1>3 DEF IdentityEvent, EventForNew, EventForReuse, EventFailed
  <2>3. check' \in [Claims -> CheckRow]
    <3>1. PICK s \in {"VERIFIED", "FAILED"} :
            check' = [check EXCEPT ![c] = [check[c] EXCEPT !.status = s]]
      BY <2>2 DEF Decide
    <3>2. [check[c] EXCEPT !.status = s] \in CheckRow
      BY DEF CheckRow
    <3> QED
      BY <3>1, <3>2, CheckWrite
  <2>4. {approved', pending'} \subseteq Account \cup {NoAccount}
    BY <1>3 DEF IdentityEvent, EventForNew, EventForReuse, EventFailed
  <2> QED
    BY <2>1, <2>3, <2>4
<1> QED
  BY <1>1, <1>2, <1>3 DEF IdentitySteps

\* So do compliance, the payouts and the wallet.
LEMMA MoneyTyped == TypeOK /\ (ReviewSteps \/ PayoutSteps \/ WalletSteps) => TypeOK'
<1> SUFFICES ASSUME TypeOK, ReviewSteps \/ PayoutSteps \/ WalletSteps PROVE TypeOK'
  OBVIOUS
<1> USE DEF TypeOK, identity, accounts, otp, payouts, wallet
<1>1. ASSUME NEW c \in Claims, CoolingOffEnds(c) PROVE TypeOK'
  <2>1. check' = [check EXCEPT ![c] = [check[c] EXCEPT !.change = "COOLED"]]
    BY <1>1 DEF CoolingOffEnds
  <2>2. [check[c] EXCEPT !.change = "COOLED"] \in CheckRow
    BY DEF CheckRow
  <2>3. check' \in [Claims -> CheckRow]
    BY <2>1, <2>2, CheckWrite
  <2> QED
    BY <1>1, <2>3 DEF CoolingOffEnds
<1>2. ASSUME NEW c \in Claims, Approve(c) PROVE TypeOK'
  <2>1. approved' \in Account
    BY <1>2 DEF Approve, Matches, Account
  <2>2. /\ claim' \in [Claims -> {"SELECTION_MADE", "KYC_PENDING", "KYC_CLEARED"}]
        /\ UNCHANGED <<tries, check, asking, pending, codes, changes, payout, destination,
                       withdrawal, link, clients>>
    BY <1>2 DEF Approve
  <2> QED
    BY <2>1, <2>2
<1>3. ASSUME NEW c \in Claims, ReservePayout(c) PROVE TypeOK'
  <2>1. approved \in Account \cup {NoAccount}
    OBVIOUS
  <2> QED
    BY <1>3, <2>1 DEF ReservePayout
<1>5. ASSUME NEW c \in Claims, PayoutEnds(c) PROVE TypeOK'
  BY <1>5 DEF PayoutEnds
<1>4. ASSUME WalletSteps PROVE TypeOK'
  BY <1>4 DEF WalletSteps, Provision, OpenClient, FinishLink, ReserveWithdrawal, CancelWithdrawal
<1> QED
  BY <1>1, <1>2, <1>3, <1>4, <1>5 DEF ReviewSteps, PayoutSteps

\* Every step keeps the types.
LEMMA StepTyped == TypeOK /\ [Next]_vars => TypeOK'
<1>1. TypeOK /\ UNCHANGED vars => TypeOK'
  BY DEF vars, identity, accounts, otp, payouts, wallet, TypeOK
<1> QED
  BY <1>1, OtpTyped, IdentityTyped, MoneyTyped DEF Next

-----------------------------------------------------------------------------
(* The money and the evidence *)

\* Nothing has begun.
LEMMA InitSafe == Init => IInv
<1> SUFFICES ASSUME Init PROVE IInv
  OBVIOUS
<1>1. TypeOK
  BY InitTyped
<1>2. DestinationInv /\ ClientInv /\ OneClient
  BY DEF Init, DestinationInv, ClientInv, OneClient
<1>3. MoneyKeepsItsAccount /\ PaidToVerified /\ ClearedOnEvidence
  BY DEF Init, MoneyKeepsItsAccount, PaidToVerified, ClearedOnEvidence
<1>4. ChangesAuthorised
  <2>1. ASSUME NEW c \in Claims
        PROVE  {i \in DOMAIN codes : codes[i].claim = c /\ codes[i].state = "SPENT"} = {}
    BY DEF Init
  <2> QED
    BY <2>1, FS_EmptySet DEF Init, ChangesAuthorised
<1> QED
  BY <1>1, <1>2, <1>3, <1>4 DEF IInv

\* Where only claims that are not paid, and not cleared afterwards, are written, the
\* evidence of the others stands.
LEMMA OneClaim ==
  ASSUME IInv, NEW c \in Claims, payout[c] = "NONE", claim'[c] # "KYC_CLEARED",
         \A d \in Claims : d # c => claim'[d] = claim[d] /\ check'[d] = check[d],
         UNCHANGED <<payout, destination>>
  PROVE  PaidToVerified' /\ ClearedOnEvidence' /\ DestinationInv'
BY DEF IInv, PaidToVerified, ClearedOnEvidence, DestinationInv

\* A claim that is not cleared has never been paid.
LEMMA NotCleared ==
  ASSUME IInv, NEW c \in Claims, claim[c] # "KYC_CLEARED" \/ check[c].status # "VERIFIED"
  PROVE  claim[c] # "KYC_CLEARED" /\ payout[c] = "NONE"
BY DEF IInv, PaidToVerified, ClearedOnEvidence

\* The coordinator's own steps move no money and touch no account that is approved.
LEMMA CoordinatorKeeps ==
  ASSUME IInv, NEW c \in Claims,
         \/ \E b \in Banks : Start(c, b)
         \/ MarkSubmitted(c) \/ RequestEnds(c) \/ OutcomeUnknown(c)
  PROVE  /\ MoneyKeepsItsAccount' /\ PaidToVerified' /\ ClearedOnEvidence' /\ DestinationInv'
         /\ ClientInv' /\ OneClient'
<1>1. UNCHANGED <<approved, payout, destination, withdrawal, link, clients>>
  BY DEF Start, MarkSubmitted, RequestEnds, OutcomeUnknown, accounts, payouts, wallet
<1>2. MoneyKeepsItsAccount' /\ ClientInv' /\ OneClient'
  BY <1>1 DEF IInv, MoneyKeepsItsAccount, ClientInv, OneClient, SameAccount
<1>3. claim \in [Claims -> {"SELECTION_MADE", "KYC_PENDING", "KYC_CLEARED"}] /\ check \in [Claims -> CheckRow]
  BY DEF IInv, TypeOK
<1>4. ASSUME NEW b \in Banks, Start(c, b)
      PROVE  PaidToVerified' /\ ClearedOnEvidence' /\ DestinationInv'
  <2>1. claim' = [claim EXCEPT ![c] = "KYC_PENDING"]
    BY <1>4 DEF Start, Reopen
  <2>2. \A d \in Claims : d # c => check'[d] = check[d]
    <3>1. NewCheck(c, b, "NO") \/ NewCheck(c, b, "FRESH")
      BY <1>4 DEF Start, StartFirst, StartReuse, StartChange
    <3> QED
      BY <1>3, <3>1 DEF NewCheck
  <2>3. payout[c] = "NONE"
    BY <1>4, NotCleared DEF Start, StartFirst, StartReuse, StartChange, MayChangeBank
  <2> QED
    BY <1>1, <1>3, <2>1, <2>2, <2>3, OneClaim
<1>5. ASSUME \/ MarkSubmitted(c)
             \/ OutcomeUnknown(c) /\ check[c].status \in {"PREPARING", "SUBMITTED"}
      PROVE  PaidToVerified' /\ ClearedOnEvidence' /\ DestinationInv'
  <2>1. check[c].status # "VERIFIED" /\ claim' = claim
    BY <1>5 DEF MarkSubmitted, OutcomeUnknown
  <2>2. \A d \in Claims : d # c => check'[d] = check[d]
    BY <1>3, <1>5 DEF MarkSubmitted, OutcomeUnknown
  <2> QED
    BY <1>1, <2>1, <2>2, NotCleared, OneClaim
<1>6. ASSUME \/ RequestEnds(c)
             \/ OutcomeUnknown(c) /\ check[c].status \notin {"PREPARING", "SUBMITTED"}
      PROVE  PaidToVerified' /\ ClearedOnEvidence' /\ DestinationInv'
  <2>1. \A d \in Claims : /\ check'[d].status = check[d].status /\ check'[d].bank = check[d].bank
                          /\ check'[d].change = check[d].change
    BY <1>3, <1>6 DEF RequestEnds, OutcomeUnknown, CheckRow
  <2>2. claim' = claim
    BY <1>6 DEF RequestEnds, OutcomeUnknown
  <2> QED
    BY <1>1, <2>1, <2>2 DEF IInv, PaidToVerified, ClearedOnEvidence, DestinationInv
<1> QED
  BY <1>2, <1>4, <1>5, <1>6

\* The provider's event replaces an account only when no money is on its way to it.
LEMMA EventKeeps ==
  ASSUME IInv, NEW c \in Claims, IdentityEvent(c)
  PROVE  /\ MoneyKeepsItsAccount' /\ PaidToVerified' /\ ClearedOnEvidence' /\ DestinationInv'
         /\ ClientInv' /\ OneClient'
<1>1. UNCHANGED <<claim, payout, destination, withdrawal, link, clients>>
  BY DEF IdentityEvent, payouts, wallet
<1>2. claim[c] = "KYC_PENDING" /\ payout[c] = "NONE"
  BY NotCleared DEF IdentityEvent, Awaited
<1>3. \A d \in Claims : d # c => check'[d] = check[d]
  BY DEF IdentityEvent, EventForNew, EventForReuse, EventFailed, Decide, IInv, TypeOK
<1>4. PaidToVerified' /\ ClearedOnEvidence' /\ DestinationInv'
  BY <1>1, <1>2, <1>3, OneClaim
<1>5. UNCHANGED approved \/ approved = NoAccount \/ NoMoneyOutstanding
  BY DEF IdentityEvent, EventForNew, EventForReuse, EventFailed, StillNoneOutstanding, accounts
<1>6. MoneyKeepsItsAccount'
  BY <1>1, <1>5 DEF IInv, MoneyKeepsItsAccount, NoMoneyOutstanding, SameAccount
<1>7. ClientInv' /\ OneClient'
  BY <1>1 DEF IInv, ClientInv, OneClient
<1> QED
  BY <1>4, <1>6, <1>7

\* Compliance clears a claim on the evidence, and locks the account without replacing it.
LEMMA ReviewKeeps ==
  ASSUME IInv, NEW c \in Claims, CoolingOffEnds(c) \/ Approve(c)
  PROVE  /\ MoneyKeepsItsAccount' /\ PaidToVerified' /\ ClearedOnEvidence' /\ DestinationInv'
         /\ ClientInv' /\ OneClient'
<1>1. UNCHANGED <<payout, destination, withdrawal, link, clients>>
  BY DEF CoolingOffEnds, Approve, payouts, wallet
<1>2. ClientInv' /\ OneClient' /\ DestinationInv'
  BY <1>1 DEF IInv, ClientInv, OneClient, DestinationInv
<1>3. claim \in [Claims -> {"SELECTION_MADE", "KYC_PENDING", "KYC_CLEARED"}] /\ check \in [Claims -> CheckRow]
  BY DEF IInv, TypeOK
<1>4. ASSUME CoolingOffEnds(c) PROVE MoneyKeepsItsAccount' /\ PaidToVerified' /\ ClearedOnEvidence'
  <2>1. UNCHANGED <<claim, approved>>
    BY <1>4 DEF CoolingOffEnds, accounts
  <2>2. \A d \in Claims : /\ check'[d].status = check[d].status /\ check'[d].bank = check[d].bank
                          /\ check'[d].change \in {check[d].change, "COOLED"}
    BY <1>3, <1>4 DEF CoolingOffEnds, CheckRow
  <2> QED
    BY <1>1, <2>1, <2>2 DEF IInv, MoneyKeepsItsAccount, PaidToVerified, ClearedOnEvidence, SameAccount
<1>5. ASSUME Approve(c) PROVE MoneyKeepsItsAccount' /\ PaidToVerified' /\ ClearedOnEvidence'
  <2>1. /\ claim' = [claim EXCEPT ![c] = "KYC_CLEARED"] /\ check' = check
        /\ check[c].status = "VERIFIED" /\ check[c].change # "FRESH" /\ approved # NoAccount
    BY <1>5 DEF Approve, Matches
  <2>2. PaidToVerified' /\ ClearedOnEvidence'
    BY <1>1, <1>3, <2>1 DEF IInv, PaidToVerified, ClearedOnEvidence
  <2>3. approved \in Account /\ approved' = [approved EXCEPT !.locked = TRUE]
    BY <1>5, <2>1 DEF Approve, IInv, TypeOK
  <2>4. approved' \in Account /\ approved'.claim = approved.claim /\ approved'.try = approved.try /\ approved'.locked
    BY <2>3 DEF Account
  <2>5. approved' # NoAccount
    BY <2>4 DEF Account, NoAccount
  <2>6. MoneyKeepsItsAccount'
    BY <1>1, <2>4, <2>5 DEF IInv, MoneyKeepsItsAccount, SameAccount
  <2> QED
    BY <2>2, <2>6
<1> QED
  BY <1>1, <1>2, <1>4, <1>5

\* A payout goes to the account the claim was cleared on.
LEMMA PayoutKeeps ==
  ASSUME IInv, NEW c \in Claims, ReservePayout(c) \/ PayoutEnds(c)
  PROVE  /\ MoneyKeepsItsAccount' /\ PaidToVerified' /\ ClearedOnEvidence' /\ DestinationInv'
         /\ ClientInv' /\ OneClient'
<1>1. UNCHANGED <<claim, check, approved, withdrawal, link, clients>>
  BY DEF ReservePayout, PayoutEnds, identity, accounts, wallet
<1>2. ClientInv' /\ OneClient' /\ ClearedOnEvidence'
  BY <1>1 DEF IInv, ClientInv, OneClient, ClearedOnEvidence
<1>3. /\ payout \in [Claims -> {"NONE", "IN_FLIGHT", "PAID", "FAILED"}]
      /\ destination \in [Claims -> Account \cup {NoAccount}]
  BY DEF IInv, TypeOK
<1>4. ASSUME ReservePayout(c) PROVE MoneyKeepsItsAccount' /\ PaidToVerified' /\ DestinationInv'
  <2>1. /\ payout' = [payout EXCEPT ![c] = "IN_FLIGHT"]
        /\ destination' = [destination EXCEPT ![c] = approved]
        /\ claim[c] = "KYC_CLEARED" /\ check[c].status = "VERIFIED"
        /\ approved # NoAccount /\ approved.bank = check[c].bank /\ approved.locked
    BY <1>4 DEF ReservePayout, LockedFor, Matches
  <2>2. \A d \in Claims : d # c => payout'[d] = payout[d] /\ destination'[d] = destination[d]
    BY <1>3, <2>1
  <2>3. payout'[c] = "IN_FLIGHT" /\ destination'[c] = approved
    BY <1>3, <2>1
  <2> QED
    BY <1>1, <2>1, <2>2, <2>3 DEF IInv, MoneyKeepsItsAccount, PaidToVerified, DestinationInv, SameAccount
<1>5. ASSUME PayoutEnds(c) PROVE MoneyKeepsItsAccount' /\ PaidToVerified' /\ DestinationInv'
  <2>1. /\ destination' = destination /\ payout[c] = "IN_FLIGHT" /\ payout'[c] \in {"PAID", "FAILED"}
        /\ \A d \in Claims : d # c => payout'[d] = payout[d]
    BY <1>3, <1>5 DEF PayoutEnds
  <2> QED
    BY <1>1, <2>1 DEF IInv, MoneyKeepsItsAccount, PaidToVerified, DestinationInv, SameAccount
<1> QED
  BY <1>2, <1>4, <1>5

\* A withdrawal is reserved on the locked account; provisioning opens one client.
LEMMA WalletKeeps ==
  ASSUME IInv, WalletSteps
  PROVE  /\ MoneyKeepsItsAccount' /\ PaidToVerified' /\ ClearedOnEvidence' /\ DestinationInv'
         /\ ClientInv' /\ OneClient'
<1>1. UNCHANGED <<claim, check, approved, payout, destination>>
  BY DEF WalletSteps, Provision, OpenClient, FinishLink, ReserveWithdrawal, CancelWithdrawal,
         identity, accounts, payouts
<1>2. PaidToVerified' /\ ClearedOnEvidence' /\ DestinationInv'
  BY <1>1 DEF IInv, PaidToVerified, ClearedOnEvidence, DestinationInv
<1>3. \/ withdrawal' \in {withdrawal, NoAccount}
      \/ withdrawal' = approved /\ approved # NoAccount /\ approved.locked
  BY DEF WalletSteps, Provision, OpenClient, FinishLink, ReserveWithdrawal, CancelWithdrawal
<1>4. MoneyKeepsItsAccount'
  BY <1>1, <1>3 DEF IInv, MoneyKeepsItsAccount, SameAccount
<1>5. \/ UNCHANGED <<link, clients>>
      \/ link = "NONE" /\ link' = "PROVISIONING" /\ clients' = clients
      \/ link = "PROVISIONING" /\ link' = "OPENED" /\ clients' = clients + 1
      \/ link' \in {"ACTIVE", "REVIEW_REQUIRED"} /\ clients' = clients
  BY DEF WalletSteps, Provision, NotLinked, OpenClient, FinishLink, ReserveWithdrawal, CancelWithdrawal
<1>6. ClientInv' /\ OneClient'
  BY <1>5 DEF IInv, TypeOK, ClientInv, OneClient
<1> QED
  BY <1>2, <1>4, <1>6

-----------------------------------------------------------------------------
(* The codes *)

Spent(c) == {i \in DOMAIN codes : codes[i].claim = c /\ codes[i].state = "SPENT"}

\* Without a change granted, no code that was spent is lost.
LEMMA SpentStay ==
  ASSUME IInv, changes' = changes, IsFiniteSet(DOMAIN codes'),
         \A c \in Claims : Spent(c) \subseteq Spent(c)'
  PROVE  ChangesAuthorised'
<1> SUFFICES ASSUME NEW c \in Claims PROVE changes'[c] <= Cardinality(Spent(c)')
  BY DEF ChangesAuthorised, Spent
<1>1. changes[c] <= Cardinality(Spent(c)) /\ changes[c] \in Nat
  BY DEF IInv, TypeOK, ChangesAuthorised, Spent
<1>2. IsFiniteSet(Spent(c)')
  BY FS_Subset DEF Spent
<1>3. /\ Cardinality(Spent(c)) <= Cardinality(Spent(c)') /\ IsFiniteSet(Spent(c))
      /\ Cardinality(Spent(c)) \in Nat /\ Cardinality(Spent(c)') \in Nat
  BY <1>2, FS_Subset, FS_CardinalityType
<1> QED
  BY <1>1, <1>3

\* The codes are finitely many.
LEMMA FiniteCodes ==
  ASSUME NEW s \in Seq(CodeRow)
  PROVE  IsFiniteSet(DOMAIN s)
<1>1. DOMAIN s = 1 .. Len(s) /\ Len(s) \in Nat
  OBVIOUS
<1> QED
  BY <1>1, FS_Interval

\* A change is counted with the code it takes.
LEMMA StartAuthorised ==
  ASSUME IInv, TypeOK', NEW c \in Claims, NEW b \in Banks, Start(c, b)
  PROVE  ChangesAuthorised'
<1>1. codes \in Seq(CodeRow) /\ IsFiniteSet(DOMAIN codes) /\ IsFiniteSet(DOMAIN codes')
  BY FiniteCodes DEF IInv, TypeOK
<1>2. CASE UNCHANGED <<codes, changes>>
  BY <1>1, <1>2, SpentStay DEF Spent
<1>3. CASE StartChange(c, b)
  <2>1. PICK i \in DOMAIN codes : codes[i] = Code(c, b, "GRANTED") /\ codes' = [codes EXCEPT ![i].state = "SPENT"]
    BY <1>3 DEF StartChange, Consume
  <2>2. /\ DOMAIN codes' = DOMAIN codes
        /\ codes'[i].claim = c /\ codes'[i].state = "SPENT" /\ codes[i].state # "SPENT"
        /\ \A j \in DOMAIN codes : j # i => codes'[j] = codes[j]
    BY <1>1, <2>1 DEF Code, CodeRow
  <2>3. changes' = [changes EXCEPT ![c] = @ + 1] /\ changes \in [Claims -> Nat]
    BY <1>3 DEF StartChange, IInv, TypeOK
  <2> SUFFICES ASSUME NEW d \in Claims PROVE changes'[d] <= Cardinality(Spent(d)')
    BY DEF ChangesAuthorised, Spent
  <2>4. changes[d] <= Cardinality(Spent(d)) /\ IsFiniteSet(Spent(d)) /\ Cardinality(Spent(d)) \in Nat
    BY <1>1, FS_Subset, FS_CardinalityType DEF IInv, ChangesAuthorised, Spent
  <2>5. CASE d = c
    <3>1. i \notin Spent(c) /\ Spent(c)' = Spent(c) \cup {i}
      BY <2>1, <2>2 DEF Spent
    <3>2. Cardinality(Spent(c)') = Cardinality(Spent(c)) + 1
      BY <2>4, <2>5, <3>1, FS_AddElement
    <3> QED
      BY <2>3, <2>4, <2>5, <3>2
  <2>6. CASE d # c
    <3>1. codes[i].claim = c
      BY <2>1 DEF Code
    <3>2. Spent(d)' = Spent(d)
      BY <2>2, <2>6, <3>1 DEF Spent
    <3> QED
      BY <2>3, <2>4, <2>6, <3>2
  <2> QED
    BY <2>5, <2>6
<1> QED
  BY <1>2, <1>3 DEF Start, StartFirst, StartReuse

\* A code is added unspent, and one that is sent or granted can only become a grant or
\* void.
LEMMA OtpKeeps ==
  ASSUME IInv, TypeOK', OtpSteps
  PROVE  IInv'
<1>1. UNCHANGED <<claim, tries, check, asking, approved, pending, changes, payout, destination,
                  withdrawal, link, clients>>
  BY DEF OtpSteps, Request, VerifyCode, CodeGone, identity, accounts, payouts, wallet
<1>2. /\ MoneyKeepsItsAccount' /\ PaidToVerified' /\ ClearedOnEvidence' /\ DestinationInv'
      /\ ClientInv' /\ OneClient'
  BY <1>1 DEF IInv, MoneyKeepsItsAccount, PaidToVerified, ClearedOnEvidence, DestinationInv,
              ClientInv, OneClient, SameAccount
<1>3. codes \in Seq(CodeRow) /\ IsFiniteSet(DOMAIN codes')
  BY FiniteCodes DEF IInv, TypeOK
<1>4. ASSUME NEW c \in Claims, NEW b \in Banks, Request(c, b)
      PROVE  \A d \in Claims : Spent(d) \subseteq Spent(d)'
  <2>1. codes' = Append(codes, Code(c, b, "SENT"))
    BY <1>4 DEF Request
  <2>2. \A j \in DOMAIN codes : j \in DOMAIN codes' /\ codes'[j] = codes[j]
    BY <1>3, <2>1
  <2> QED
    BY <2>2 DEF Spent
<1>5. ASSUME NEW i \in DOMAIN codes, VerifyCode(i) \/ CodeGone(i)
      PROVE  \A d \in Claims : Spent(d) \subseteq Spent(d)'
  <2>1. /\ codes[i].state # "SPENT" /\ DOMAIN codes' = DOMAIN codes
        /\ \A j \in DOMAIN codes : j # i => codes'[j] = codes[j]
    BY <1>3, <1>5 DEF VerifyCode, CodeGone
  <2> QED
    BY <2>1 DEF Spent
<1>6. ChangesAuthorised'
  BY <1>1, <1>3, <1>4, <1>5, SpentStay DEF OtpSteps
<1> QED
  BY <1>2, <1>6 DEF IInv

\* Every step keeps the invariant.
LEMMA StepSafe == IInv /\ [Next]_vars => IInv'
<1> SUFFICES ASSUME IInv, [Next]_vars PROVE IInv'
  OBVIOUS
<1>1. TypeOK'
  BY StepTyped DEF IInv
<1>2. ASSUME UNCHANGED <<codes, changes>> PROVE ChangesAuthorised'
  BY <1>2 DEF IInv, ChangesAuthorised
<1>3. CASE OtpSteps
  BY <1>1, <1>3, OtpKeeps
<1>4. CASE IdentitySteps
  <2>1. ASSUME NEW c \in Claims, NEW b \in Banks, Start(c, b) PROVE IInv'
    BY <1>1, <2>1, StartAuthorised, CoordinatorKeeps DEF IInv
  <2>2. ASSUME NEW c \in Claims, MarkSubmitted(c) \/ RequestEnds(c) \/ OutcomeUnknown(c) PROVE IInv'
    <3>1. UNCHANGED <<codes, changes>>
      BY <2>2 DEF MarkSubmitted, RequestEnds, OutcomeUnknown, otp
    <3> QED
      BY <1>1, <1>2, <2>2, <3>1, CoordinatorKeeps DEF IInv
  <2>3. ASSUME NEW c \in Claims, IdentityEvent(c) PROVE IInv'
    <3>1. UNCHANGED <<codes, changes>>
      BY <2>3 DEF IdentityEvent, otp
    <3> QED
      BY <1>1, <1>2, <2>3, <3>1, EventKeeps DEF IInv
  <2> QED
    BY <1>4, <2>1, <2>2, <2>3 DEF IdentitySteps
<1>5. CASE ReviewSteps \/ PayoutSteps \/ WalletSteps
  <2>1. UNCHANGED <<codes, changes>>
    BY <1>5 DEF ReviewSteps, CoolingOffEnds, Approve, PayoutSteps, ReservePayout, PayoutEnds, WalletSteps,
                Provision, OpenClient, FinishLink, ReserveWithdrawal, CancelWithdrawal, otp
  <2> QED
    BY <1>1, <1>2, <1>5, <2>1, ReviewKeeps, PayoutKeeps, WalletKeeps DEF IInv, ReviewSteps, PayoutSteps
<1>6. CASE UNCHANGED vars
  BY <1>1, <1>6 DEF vars, identity, accounts, otp, payouts, wallet, IInv, MoneyKeepsItsAccount, PaidToVerified,
     ClearedOnEvidence, ChangesAuthorised, DestinationInv, ClientInv, OneClient, SameAccount
<1> QED
  BY <1>3, <1>4, <1>5, <1>6 DEF Next

\* The whole invariant, of which each property below is a part.
LEMMA Invariant == Spec => []IInv
BY InitSafe, StepSafe, PTL DEF Spec

-----------------------------------------------------------------------------
(* The theorems *)

\* Rows, codes and accounts stay in the shapes the code distinguishes.
THEOREM BeneficiaryTyped == Spec => []TypeOK
<1>1. IInv => TypeOK
  BY DEF IInv
<1> QED
  BY <1>1, Invariant, PTL

\* No account is replaced while money is on its way to it.
THEOREM MoneyStays == Spec => []MoneyKeepsItsAccount
<1>1. IInv => MoneyKeepsItsAccount
  BY DEF IInv
<1> QED
  BY <1>1, Invariant, PTL

\* Prizes are paid to the bank the claim's own successful check was made for.
THEOREM PaidOnEvidence == Spec => []PaidToVerified
<1>1. IInv => PaidToVerified
  BY DEF IInv
<1> QED
  BY <1>1, Invariant, PTL

\* Nobody is cleared on a check that failed, is running, or is still cooling off.
THEOREM ClearedProperly == Spec => []ClearedOnEvidence
<1>1. IInv => ClearedOnEvidence
  BY DEF IInv
<1> QED
  BY <1>1, Invariant, PTL

\* No bank change without a code used up for it alone.
THEOREM ChangesHaveCodes == Spec => []ChangesAuthorised
<1>1. IInv => ChangesAuthorised
  BY DEF IInv
<1> QED
  BY <1>1, Invariant, PTL

\* Provisioning that stops half-way is never begun again.
THEOREM ClientIsUnique == Spec => []OneClient
<1>1. IInv => OneClient
  BY DEF IInv
<1> QED
  BY <1>1, Invariant, PTL

\* A retry of a payout goes where the first attempt went.
THEOREM DestinationIsKept == Spec => DestinationStays
<1>1. ASSUME IInv, [Next]_vars, NEW c \in Claims, destination[c] # NoAccount
      PROVE  SameAccount(destination'[c], destination[c])
  <2>1. destination \in [Claims -> Account \cup {NoAccount}]
    BY <1>1 DEF IInv, TypeOK
  <2>2. CASE destination'[c] = destination[c]
    BY <1>1, <2>2 DEF SameAccount
  <2>3. ASSUME NEW d \in Claims, ReservePayout(d)
        PROVE  SameAccount(destination'[c], destination[c])
    <3>1. CASE d # c
      <4>1. destination'[c] = destination[c]
        BY <2>1, <2>3, <3>1 DEF ReservePayout
      <4> QED
        BY <2>2, <4>1
    <3>2. CASE d = c
      <4>1. destination'[c] = approved
        BY <2>1, <2>3, <3>2 DEF ReservePayout
      <4>2. SameAccount(destination[c], approved)
        BY <1>1, <2>3, <3>2 DEF IInv, DestinationInv, ReservePayout, MayPay, SameDestination
      <4> QED
        BY <4>1, <4>2 DEF SameAccount
    <3> QED
      BY <3>1, <3>2
  <2>4. UNCHANGED destination \/ \E d \in Claims : ReservePayout(d)
    <3>1. OtpSteps \/ IdentitySteps \/ ReviewSteps \/ WalletSteps => UNCHANGED destination
      BY DEF OtpSteps, Request, VerifyCode, CodeGone, IdentitySteps, Start, MarkSubmitted, RequestEnds,
             OutcomeUnknown, IdentityEvent, ReviewSteps, CoolingOffEnds, Approve, WalletSteps, Provision,
             OpenClient, FinishLink, ReserveWithdrawal, CancelWithdrawal, payouts
    <3>2. PayoutSteps => UNCHANGED destination \/ \E d \in Claims : ReservePayout(d)
      BY DEF PayoutSteps, PayoutEnds
    <3>3. UNCHANGED vars => UNCHANGED destination
      BY DEF vars, payouts
    <3> QED
      BY <1>1, <3>1, <3>2, <3>3 DEF Next
  <2> QED
    BY <2>2, <2>3, <2>4
<1>2. IInv /\ [Next]_vars =>
        [\A c \in Claims : destination[c] # NoAccount =>
            SameAccount(destination'[c], destination[c])]_vars
  BY <1>1
<1> QED
  BY <1>2, Invariant, PTL DEF Spec, DestinationStays
=============================================================================
