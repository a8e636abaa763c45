--------------------------- MODULE PrizeClaimProofs ---------------------------
(***************************************************************************)
(* The invariants of PrizeClaim, for any agents, clerks and providers and  *)
(* any number of payout attempts.                                          *)
(***************************************************************************)
EXTENDS PrizeClaim, TLAPS

\* The constants for which a prize is given once: no provider whose failures are
\* inconclusive, and one of the two channels that do not look at each other.
ConclusiveProviders == "MONNIFY" \notin Providers
NoDesk     == Clerks = {}
OneChannel == ConclusiveProviders /\ (NoDesk \/ MaxAttempts = 0)

\* What the payout channel's invariants speak of.
payoutVars == <<attempt, last, provider, calls, transfer, posted, reversed, answers>>

\* Attempts are made one after the other, each after the failure of the one before, and
\* nothing is known or under way of those not made yet.
Untouched(n) ==
    /\ attempt[n] = "NONE" /\ transfer[n] = "NONE" /\ provider[n] = "NONE"
    /\ n \notin calls /\ n \notin posted
    /\ \A a \in AnswerStatuses : <<n, a>> \notin answers

OrderInv ==
    \A n \in Attempts :
        /\ n > last => Untouched(n)
        /\ n < last => attempt[n] \in {"FAILED", "REVERSED"}
        /\ n \in calls => transfer[n] = "NONE"

\* The ledger follows the attempts.
LedgerInv ==
    /\ \A n \in Attempts :
        /\ n \in posted => attempt[n] \in {"SUCCEEDED", "REVERSED"}
        /\ n \in reversed => attempt[n] = "REVERSED"
        /\ attempt[n] = "SUCCEEDED" => n \in posted
        /\ attempt[n] = "REVERSED" /\ n \in posted => n \in reversed
    /\ \A m, n \in Attempts : attempt[m] = "SUCCEEDED" /\ attempt[n] = "SUCCEEDED" => m = n

\* What is believed of a transfer, and what is about to be believed, is true for good.
KnownInv ==
    \A n \in Attempts :
        /\ attempt[n] = "FAILED" \/ <<n, "FAILED">> \in answers => transfer[n] = "FAILED"
        /\ attempt[n] = "REVERSED" \/ <<n, "REVERSED">> \in answers => transfer[n] = "RETURNED"
        /\ provider[n] # "MONNIFY"

-----------------------------------------------------------------------------
(* Types *)

\* A new claim has the declared types.
LEMMA TypeInit == Init => TypeOK
<1> SUFFICES ASSUME Init PROVE TypeOK
    OBVIOUS
<1>1. /\ checks \in 0 .. MaxIdentityChecks /\ last \in 0 .. MaxAttempts
      /\ overwritten \in 0 .. MaxOverwrites
      BY PrizeAssumption DEF Init
<1> QED BY <1>1 DEF Init, TypeOK, Options, Statuses, AttemptStatuses, NonTerminal,
           TransferStates

USE DEF Statuses, Options

\* The winner, the deadlines and the sweep keep the types.
LEMMA TypeClaim ==
    TypeOK /\ (Deadline \/ Sweep \/ Forfeit \/ Winner) => TypeOK'
<1> SUFFICES ASSUME TypeOK, Deadline \/ Sweep \/ Forfeit \/ Winner PROVE TypeOK'
    OBVIOUS
<1> USE DEF claimVars, ledgerVars, attemptVars, bankVars, memory
<1>1. CASE Deadline       BY <1>1 DEF Deadline, TypeOK
<1>2. CASE Sweep          BY <1>2 DEF Sweep, TypeOK
<1>3. CASE Forfeit        BY <1>3 DEF Forfeit, TypeOK
<1>4. ASSUME NEW t \in Options, ReadChoosable(t) PROVE TypeOK'
      BY <1>4 DEF ReadChoosable, TypeOK
<1>5. ASSUME NEW t \in Options, WriteChoice(t) PROVE TypeOK'
  <2>1. overwritten' \in 0 .. MaxOverwrites
        BY <1>5, PrizeAssumption DEF WriteChoice, TypeOK
  <2> QED BY <1>5, <2>1 DEF WriteChoice, TypeOK
<1>6. CASE StartIdentityCheck
      BY <1>6, PrizeAssumption DEF StartIdentityCheck, ChecksLeft, TypeOK
<1>7. ASSUME NEW o \in {"VERIFIED", "FAILED"}, IdentityOutcome(o) PROVE TypeOK'
      BY <1>7 DEF IdentityOutcome, TypeOK
<1> QED BY <1>1, <1>2, <1>3, <1>4, <1>5, <1>6, <1>7 DEF Winner

\* So do staff, clerks and agents.
LEMMA TypeStaff == TypeOK /\ Staff => TypeOK'
<1> SUFFICES ASSUME TypeOK, Staff PROVE TypeOK'
    OBVIOUS
<1> USE DEF claimVars, ledgerVars, attemptVars, bankVars, memory
<1>1. CASE Approve        BY <1>1 DEF Approve, TypeOK
<1>2. CASE IssueCode      BY <1>2 DEF IssueCode, TypeOK
<1>3. ASSUME NEW a \in Agents, AgentPays(a) PROVE TypeOK'
      BY <1>3 DEF AgentPays, TypeOK
<1>4. ASSUME NEW k \in Clerks, Verify(k) PROVE TypeOK'
      BY <1>4 DEF Verify, TypeOK
<1>5. ASSUME NEW k \in Clerks, NEW t \in Options, HandOver(k, t) PROVE TypeOK'
      BY <1>5 DEF HandOver, TypeOK
<1>6. ASSUME NEW p \in Providers, Reserve(p) PROVE TypeOK'
  <2>1. last + 1 \in Attempts
        BY <1>6, PrizeAssumption DEF Reserve, Attempts, TypeOK
  <2>2. last' \in 0 .. MaxAttempts
        BY <1>6, PrizeAssumption DEF Reserve, TypeOK
  <2> QED BY <1>6, <2>1, <2>2 DEF Reserve, TypeOK, AttemptStatuses, NonTerminal
<1> QED BY <1>1, <1>2, <1>3, <1>4, <1>5, <1>6 DEF Staff

\* So does an answer that is applied.
LEMMA TypeApply ==
    ASSUME TypeOK, NEW n \in Attempts, NEW a \in AnswerStatuses, Apply(n, a) PROVE TypeOK'
<1> USE DEF ledgerVars, bankVars, AttemptStatuses, NonTerminal, AnswerStatuses
<1>1. CASE Succeed(n) /\ a = "SUCCEEDED"
      BY <1>1 DEF Apply, Succeed, TypeOK
<1>2. CASE BookReversal(n) /\ a = "REVERSED"
      BY <1>2 DEF Apply, BookReversal, Reversals, TypeOK
<1>3. CASE Record(n, a) /\ a \in {"FAILED", "PROCESSING"}
      BY <1>3 DEF Apply, Record, TypeOK
<1>4. CASE RecordMismatch(n) /\ a = "MISMATCH"
      BY <1>4 DEF Apply, RecordMismatch, TypeOK
<1>5. CASE UNCHANGED <<status, mirror, ledgerVars, attempt, mirroring>>
      BY <1>5 DEF Apply, TypeOK
<1> QED BY <1>1, <1>2, <1>3, <1>4, <1>5 DEF Apply

\* So do the provider and the requests that ask it.
LEMMA TypeBank == TypeOK /\ Bank => TypeOK'
<1> SUFFICES ASSUME TypeOK, NEW n \in Attempts,
                    \/ \E s \in {"PENDING", "FAILED"} : Arrive(n, s)
                    \/ \E s \in {"PAID", "FAILED", "RETURNED"} : Settle(n, s)
                    \/ \E a \in AnswerStatuses : Refresh(n, a) \/ Webhook(n, a) \/ Apply(n, a)
                    \/ ReadLatest(n)
             PROVE  TypeOK'
    BY DEF Bank
<1> USE DEF claimVars, ledgerVars, attemptVars, bankVars, memory
<1>1. ASSUME NEW s \in {"PENDING", "FAILED"}, Arrive(n, s) PROVE TypeOK'
      BY <1>1 DEF Arrive, TypeOK, TransferStates
<1>2. ASSUME NEW s \in {"PAID", "FAILED", "RETURNED"}, Settle(n, s) PROVE TypeOK'
      BY <1>2 DEF Settle, TypeOK, TransferStates
<1>3. ASSUME NEW a \in AnswerStatuses, Refresh(n, a) \/ Webhook(n, a) PROVE TypeOK'
  <2>1. answers' \subseteq Attempts \X AnswerStatuses
    <3> DEFINE answer == <<n, a>>
    <3>1. answer \in Attempts \X AnswerStatuses
          OBVIOUS
    <3>2. answers' = answers \cup {answer}
          BY <1>3 DEF Refresh, Webhook, Ask
    <3> QED BY <3>1, <3>2 DEF TypeOK
  <2>2. UNCHANGED <<claimVars, mirror, ledgerVars, attemptVars, bankVars,
                    issuing, choosing, handing, sweeping, mirroring, mirrors>>
        BY <1>3 DEF Refresh, Webhook, Ask
  <2> QED BY <2>1, <2>2 DEF TypeOK
<1>4. ASSUME NEW a \in AnswerStatuses, Apply(n, a) PROVE TypeOK'
      BY <1>4, TypeApply
<1>5. CASE ReadLatest(n)
      BY <1>5 DEF ReadLatest, TypeOK
<1> QED BY <1>1, <1>2, <1>3, <1>4, <1>5

\* Every step keeps the types.
LEMMA TypeStep == TypeOK /\ [Next]_vars => TypeOK'
<1> SUFFICES ASSUME TypeOK, [Next]_vars PROVE TypeOK'
    OBVIOUS
<1> USE DEF claimVars, ledgerVars, attemptVars, bankVars, memory
<1>1. CASE Deadline \/ Sweep \/ Forfeit \/ Winner
      BY <1>1, TypeClaim
<1>2. CASE Staff BY <1>2, TypeStaff
<1>3. CASE Bank  BY <1>3, TypeBank
<1>4. ASSUME NEW s \in AttemptStatuses, WriteMirror(s) PROVE TypeOK'
      BY <1>4 DEF WriteMirror, TypeOK
<1>5. CASE Crash BY <1>5 DEF Crash, TypeOK
<1>6. CASE UNCHANGED vars BY <1>6 DEF vars, TypeOK
<1> QED BY <1>1, <1>2, <1>3, <1>4, <1>5, <1>6 DEF Next

\* Every state of the claim has the types of its columns.
THEOREM PrizeTyping == Spec => []TypeOK
<1> QED BY TypeInit, TypeStep, PTL DEF Spec
-----------------------------------------------------------------------------
(* The payout attempts, the transfers and the ledger *)

\* Nothing has been ordered, posted or heard.
LEMMA PayoutInit == Init => OrderInv /\ LedgerInv /\ KnownInv
<1> SUFFICES ASSUME Init PROVE OrderInv /\ LedgerInv /\ KnownInv
    OBVIOUS
<1>1. OrderInv
  <2>1. \A n \in Attempts : ~(n < last)
        BY PrizeAssumption DEF Init, Attempts
  <2>2. \A n \in Attempts, a \in AnswerStatuses : <<n, a>> \notin answers
        BY DEF Init
  <2> QED BY <2>1, <2>2 DEF Init, OrderInv, Untouched
<1>2. LedgerInv BY DEF Init, LedgerInv
<1>3. KnownInv  BY DEF Init, KnownInv
<1> QED BY <1>1, <1>2, <1>3

\* The steps that touch the payouts.
PayoutStep ==
    \/ \E p \in Providers : Reserve(p)
    \/ \E n \in Attempts :
        \/ \E s \in {"PENDING", "FAILED"} : Arrive(n, s)
        \/ \E s \in {"PAID", "FAILED", "RETURNED"} : Settle(n, s)
        \/ \E a \in AnswerStatuses : Refresh(n, a) \/ Webhook(n, a) \/ Apply(n, a)
    \/ Crash
    \/ UNCHANGED payoutVars

\* What a step does to attempts, transfers and ledger.
LEMMA PayoutSteps == [Next]_vars => PayoutStep
<1> SUFFICES ASSUME [Next]_vars PROVE PayoutStep
    OBVIOUS
<1> USE DEF claimVars, ledgerVars, attemptVars, bankVars, memory, payoutVars
<1>1. CASE Deadline \/ Sweep \/ Forfeit
      BY <1>1 DEF Deadline, Sweep, Forfeit, PayoutStep
<1>2. CASE Winner
      BY <1>2 DEF Winner, ReadChoosable, WriteChoice, StartIdentityCheck, IdentityOutcome, PayoutStep
<1>3. CASE Staff
      BY <1>3 DEF Staff, Approve, IssueCode, AgentPays, Verify, HandOver, PayoutStep
<1>4. CASE Bank
      BY <1>4 DEF Bank, ReadLatest, PayoutStep
<1>5. CASE \E s \in AttemptStatuses : WriteMirror(s)
      BY <1>5 DEF WriteMirror, PayoutStep
<1>6. CASE Crash \/ UNCHANGED vars
      BY <1>6 DEF vars, PayoutStep
<1> QED BY <1>1, <1>2, <1>3, <1>4, <1>5, <1>6 DEF Next

\* An applied answer was received, and is gone.
LEMMA AppliedAnswer ==
    ASSUME NEW n \in Attempts, NEW a \in AnswerStatuses, Apply(n, a)
    PROVE  /\ <<n, a>> \in answers /\ answers' = answers \ {<<n, a>>}
           /\ UNCHANGED <<last, provider, calls, transfer>>
BY DEF Apply, bankVars

\* It changes the status of its attempt alone, for one of three reasons.
LEMMA AppliedEffect ==
    ASSUME TypeOK, NEW n \in Attempts, NEW a \in AnswerStatuses, Apply(n, a)
    PROVE  /\ \A m \in Attempts : m # n =>
                  /\ attempt'[m] = attempt[m]
                  /\ m \in posted' <=> m \in posted
                  /\ m \in reversed' <=> m \in reversed
           /\ \/ /\ a = "SUCCEEDED" /\ MaySucceed(n)
                 /\ attempt'[n] = "SUCCEEDED" /\ n \in posted'
                 /\ reversed' = reversed /\ status' = "CASH_PAID"
              \/ /\ a = "REVERSED" /\ MayReverse(n)
                 /\ attempt'[n] = "REVERSED" /\ posted' = posted
                 /\ n \in reversed' <=> n \in reversed \/ n \in posted
                 /\ status' = "KYC_CLEARED"
              \/ /\ attempt[n] \in NonTerminal /\ attempt'[n] \in {"FAILED", "PROCESSING"}
                 /\ attempt'[n] = "FAILED" => a = "FAILED"
                 /\ UNCHANGED <<posted, reversed, status>>
              \/ UNCHANGED <<attempt, posted, reversed, status>>
<1> USE DEF TypeOK
<1>1. CASE a = "SUCCEEDED" /\ Succeed(n)
      BY <1>1 DEF Succeed
<1>2. CASE a = "REVERSED" /\ BookReversal(n)
      BY <1>2 DEF BookReversal, Reversals
<1>3. CASE a \in {"FAILED", "PROCESSING"} /\ Record(n, a)
      BY <1>3 DEF Record, ledgerVars
<1>4. CASE a = "MISMATCH" /\ RecordMismatch(n)
      BY <1>4 DEF RecordMismatch, ledgerVars
<1>5. CASE UNCHANGED <<status, mirror, ledgerVars, attempt, mirroring>>
      BY <1>5 DEF ledgerVars
<1> QED BY <1>1, <1>2, <1>3, <1>4, <1>5 DEF Apply

\* Only attempts that were made are asked about.
LEMMA Asked ==
    ASSUME TypeOK, OrderInv, NEW n \in Attempts, NEW a \in AnswerStatuses,
           Refresh(n, a) \/ Webhook(n, a)
    PROVE  /\ n <= last /\ a \in MayAnswer(n)
           /\ answers' = answers \cup {<<n, a>>}
           /\ UNCHANGED <<attempt, last, provider, calls, transfer, posted, reversed>>
<1>1. n <= last
  <2>1. CASE Refresh(n, a)
        BY <2>1, PrizeAssumption
           DEF Refresh, Recoverable, OrderInv, Untouched, NonTerminal, TypeOK, Attempts
  <2>2. CASE Webhook(n, a)
        BY <2>2 DEF Webhook
  <2> QED BY <2>1, <2>2
<1> QED BY <1>1 DEF Refresh, Webhook, Ask, claimVars, ledgerVars, attemptVars, bankVars

\* A new attempt is reserved only when the latest has failed or been reversed.
LEMMA OrderStep == TypeOK /\ OrderInv /\ [Next]_vars => OrderInv'
<1> SUFFICES ASSUME TypeOK, OrderInv, PayoutStep, NEW m \in Attempts
             PROVE  /\ m > last' => Untouched(m)'
                    /\ m < last' => attempt'[m] \in {"FAILED", "REVERSED"}
                    /\ m \in calls' => transfer'[m] = "NONE"
    BY PayoutSteps DEF OrderInv
<1> USE DEF claimVars, ledgerVars, attemptVars, bankVars
<1>0. m \in Nat /\ last \in Nat
      BY PrizeAssumption DEF Attempts, TypeOK
<1>1. ASSUME NEW p \in Providers, Reserve(p)
      PROVE  /\ m > last' => Untouched(m)'
             /\ m < last' => attempt'[m] \in {"FAILED", "REVERSED"}
             /\ m \in calls' => transfer'[m] = "NONE"
  <2>1. last' = last + 1 /\ UNCHANGED <<transfer, posted, answers>>
        BY <1>1 DEF Reserve, memory
  <2>2. CASE m = last + 1
        BY <1>1, <2>1, <2>2, <1>0 DEF Reserve, OrderInv, Untouched
  <2>3. CASE m # last + 1
    <3>1. attempt'[m] = attempt[m] /\ provider'[m] = provider[m] /\ (m \in calls' <=> m \in calls)
          BY <1>1, <2>3 DEF Reserve, TypeOK
    <3>2. CASE m = last
          BY <3>1, <3>2, <2>1, <1>0, <1>1 DEF Reserve, MayReserve, OrderInv, Attempts
    <3> QED BY <3>1, <3>2, <2>1, <2>3, <1>0 DEF OrderInv, Untouched
  <2> QED BY <2>2, <2>3
<1>2. ASSUME NEW n \in Attempts, NEW s \in {"PENDING", "FAILED"}, Arrive(n, s)
      PROVE  /\ m > last' => Untouched(m)'
             /\ m < last' => attempt'[m] \in {"FAILED", "REVERSED"}
             /\ m \in calls' => transfer'[m] = "NONE"
      BY <1>2, <1>0 DEF Arrive, OrderInv, Untouched, TypeOK, memory
<1>3. ASSUME NEW n \in Attempts, NEW s \in {"PAID", "FAILED", "RETURNED"}, Settle(n, s)
      PROVE  /\ m > last' => Untouched(m)'
             /\ m < last' => attempt'[m] \in {"FAILED", "REVERSED"}
             /\ m \in calls' => transfer'[m] = "NONE"
      BY <1>3, <1>0 DEF Settle, OrderInv, Untouched, TypeOK, memory
<1>4. ASSUME NEW n \in Attempts, NEW a \in AnswerStatuses, Refresh(n, a) \/ Webhook(n, a)
      PROVE  /\ m > last' => Untouched(m)'
             /\ m < last' => attempt'[m] \in {"FAILED", "REVERSED"}
             /\ m \in calls' => transfer'[m] = "NONE"
  <2>1. n <= last /\ answers' = answers \cup {<<n, a>>}
        /\ UNCHANGED <<attempt, last, provider, calls, transfer, posted, reversed>>
        BY <1>4, Asked
  <2>2. m > last => \A b \in AnswerStatuses : <<m, b>> \notin answers'
        BY <2>1, <1>0 DEF OrderInv, Untouched, Attempts
  <2> QED BY <2>1, <2>2 DEF OrderInv, Untouched
<1>5. ASSUME NEW n \in Attempts, NEW a \in AnswerStatuses, Apply(n, a)
      PROVE  /\ m > last' => Untouched(m)'
             /\ m < last' => attempt'[m] \in {"FAILED", "REVERSED"}
             /\ m \in calls' => transfer'[m] = "NONE"
  <2>1. /\ <<n, a>> \in answers /\ answers' \subseteq answers
        /\ UNCHANGED <<last, provider, calls, transfer>>
        BY <1>5, AppliedAnswer
  <2>2. n <= last
        BY <2>1, <1>0, PrizeAssumption DEF OrderInv, Untouched, Attempts
  <2>3. m # n => attempt'[m] = attempt[m] /\ (m \in posted' <=> m \in posted)
        BY <1>5, AppliedEffect
  <2>4. m = n /\ m < last => attempt'[m] \in {"FAILED", "REVERSED"}
    <3> SUFFICES ASSUME m = n, m < last PROVE attempt'[m] \in {"FAILED", "REVERSED"}
        OBVIOUS
    <3>1. attempt[n] \in {"FAILED", "REVERSED"}
          BY DEF OrderInv
    <3> QED BY <3>1, <1>5, AppliedEffect DEF MaySucceed, MayReverse, NonTerminal
  <2>5. m > last => \A b \in AnswerStatuses : <<m, b>> \notin answers'
        BY <2>1 DEF OrderInv, Untouched
  <2>6. m > last => Untouched(m)'
        BY <2>1, <2>2, <2>3, <2>5, <1>0, PrizeAssumption DEF OrderInv, Untouched, Attempts
  <2> QED BY <2>1, <2>3, <2>4, <2>6, <1>0 DEF OrderInv
<1>6. CASE Crash
  <2>1. calls' \subseteq calls /\ UNCHANGED <<attempt, last, provider, transfer, posted>>
        BY <1>6 DEF Crash
  <2>2. \A b \in AnswerStatuses : <<m, b>> \notin answers'
        BY <1>6 DEF Crash
  <2> QED BY <2>1, <2>2 DEF OrderInv, Untouched
<1>7. CASE UNCHANGED payoutVars
  <2>1. UNCHANGED <<attempt, last, provider, calls, transfer, posted, answers>>
        BY <1>7 DEF payoutVars
  <2> QED BY <2>1 DEF OrderInv, Untouched
<1> QED BY <1>1, <1>2, <1>3, <1>4, <1>5, <1>6, <1>7 DEF PayoutStep

\* The posting follows the success of its attempt, and the reversal the posting.
LEMMA LedgerStep == TypeOK /\ OrderInv /\ LedgerInv /\ [Next]_vars => LedgerInv'
<1> SUFFICES ASSUME TypeOK, OrderInv, LedgerInv, PayoutStep PROVE LedgerInv'
    BY PayoutSteps
<1> USE DEF claimVars, ledgerVars, attemptVars, bankVars
<1>1. ASSUME NEW p \in Providers, Reserve(p) PROVE LedgerInv'
  <2>1. last + 1 \in Attempts /\ last + 1 > last
        BY <1>1, PrizeAssumption DEF Reserve, Attempts, TypeOK
  <2>2. last + 1 \notin posted /\ attempt[last + 1] = "NONE"
        BY <2>1 DEF OrderInv, Untouched
  <2> QED BY <1>1, <2>1, <2>2 DEF Reserve, LedgerInv, TypeOK
<1>2. ASSUME UNCHANGED <<attempt, posted, reversed>> PROVE LedgerInv'
      BY <1>2 DEF LedgerInv
<1>3. ASSUME NEW n \in Attempts, NEW a \in AnswerStatuses, Apply(n, a) PROVE LedgerInv'
  <2>1. \A m \in Attempts : m # n =>
            /\ attempt'[m] = attempt[m]
            /\ m \in posted' <=> m \in posted
            /\ m \in reversed' <=> m \in reversed
        BY <1>3, AppliedEffect
  <2>2. CASE /\ MaySucceed(n)
             /\ attempt'[n] = "SUCCEEDED" /\ n \in posted' /\ reversed' = reversed
        BY <2>1, <2>2 DEF MaySucceed, NonTerminal, LedgerInv
  <2>3. CASE /\ MayReverse(n)
             /\ attempt'[n] = "REVERSED" /\ posted' = posted
             /\ n \in reversed' <=> n \in reversed \/ n \in posted
        BY <2>1, <2>3 DEF MayReverse, NonTerminal, LedgerInv
  <2>4. CASE /\ attempt[n] \in NonTerminal /\ attempt'[n] \in {"FAILED", "PROCESSING"}
             /\ UNCHANGED <<posted, reversed>>
        BY <2>1, <2>4 DEF NonTerminal, LedgerInv
  <2> QED BY <1>2, <1>3, <2>2, <2>3, <2>4, AppliedEffect
<1> QED BY <1>1, <1>2, <1>3, Asked DEF PayoutStep, Arrive, Settle, Crash, payoutVars

\* A transfer that was refused or returned stays so, whatever is heard and when.
LEMMA KnownStep ==
    TypeOK /\ OrderInv /\ KnownInv /\ ConclusiveProviders /\ [Next]_vars => KnownInv'
<1> DEFINE Known(m) ==
        /\ attempt[m] = "FAILED" \/ <<m, "FAILED">> \in answers => transfer[m] = "FAILED"
        /\ attempt[m] = "REVERSED" \/ <<m, "REVERSED">> \in answers => transfer[m] = "RETURNED"
        /\ provider[m] # "MONNIFY"
<1> SUFFICES ASSUME TypeOK, OrderInv, KnownInv, ConclusiveProviders, PayoutStep,
                    NEW m \in Attempts
             PROVE  Known(m)'
    BY PayoutSteps DEF KnownInv
<1> USE DEF claimVars, ledgerVars, attemptVars, bankVars
<1>0. Known(m)
      BY DEF KnownInv
<1>1. ASSUME NEW p \in Providers, Reserve(p) PROVE Known(m)'
  <2>1. UNCHANGED <<transfer, answers>>
        BY <1>1 DEF Reserve, memory
  <2>2. attempt'[m] = attempt[m] \/ attempt'[m] = "REQUESTED"
        BY <1>1 DEF Reserve, TypeOK
  <2>3. provider'[m] # "MONNIFY"
        BY <1>0, <1>1 DEF Reserve, TypeOK, ConclusiveProviders
  <2> QED BY <1>0, <2>1, <2>2, <2>3
<1>2. ASSUME NEW n \in Attempts, NEW s \in {"PENDING", "FAILED"}, Arrive(n, s) PROVE Known(m)'
  <2>1. UNCHANGED <<attempt, provider, answers>> /\ transfer[n] = "NONE"
        BY <1>2 DEF Arrive, memory, OrderInv
  <2>2. m # n => transfer'[m] = transfer[m]
        BY <1>2 DEF Arrive, TypeOK
  <2> QED BY <1>0, <2>1, <2>2
<1>3. ASSUME NEW n \in Attempts, NEW s \in {"PAID", "FAILED", "RETURNED"}, Settle(n, s)
      PROVE  Known(m)'
  <2>1. UNCHANGED <<attempt, provider, answers>> /\ transfer[n] \in {"PENDING", "PAID"}
        BY <1>3 DEF Settle, memory
  <2>2. m # n => transfer'[m] = transfer[m]
        BY <1>3 DEF Settle, TypeOK
  <2> QED BY <1>0, <2>1, <2>2
<1>4. ASSUME NEW n \in Attempts, NEW a \in AnswerStatuses, Refresh(n, a) \/ Webhook(n, a)
      PROVE  Known(m)'
  <2>1. /\ a \in MayAnswer(n) /\ answers' = answers \cup {<<n, a>>}
        /\ UNCHANGED <<attempt, provider, transfer>>
        BY <1>4, Asked
  <2>2. /\ a = "FAILED" => transfer[n] = "FAILED"
        /\ a = "REVERSED" => transfer[n] = "RETURNED"
        BY <2>1 DEF KnownInv, MayAnswer, TypeOK, TransferStates
  <2>3. \A s \in AnswerStatuses : <<m, s>> \in answers' => <<m, s>> \in answers \/ (m = n /\ s = a)
        BY <2>1
  <2> QED BY <1>0, <2>1, <2>2, <2>3 DEF AnswerStatuses
<1>5. ASSUME NEW n \in Attempts, NEW a \in AnswerStatuses, Apply(n, a) PROVE Known(m)'
  <2>1. /\ <<n, a>> \in answers /\ answers' \subseteq answers
        /\ UNCHANGED <<provider, transfer>>
        BY <1>5, AppliedAnswer
  <2>2. m # n => attempt'[m] = attempt[m]
        BY <1>5, AppliedEffect
  <2>3. attempt'[n] \in {a, "PROCESSING", attempt[n]}
        BY <1>5, AppliedEffect
  <2> QED BY <1>0, <2>1, <2>2, <2>3
<1>6. ASSUME answers' \subseteq answers, UNCHANGED <<attempt, provider, transfer>>
      PROVE  Known(m)'
      BY <1>0, <1>6
<1> HIDE DEF Known
<1> QED BY <1>1, <1>2, <1>3, <1>4, <1>5, <1>6 DEF PayoutStep, Crash, payoutVars

-----------------------------------------------------------------------------
(* The claim: how far it has come, and who has paid *)

\* As long as no choice was written over the claim's progress: nothing was paid, and
\* nothing is under way, before the identity check; an agent's payment, an attempt and a
\* hand-over each exclude the ones the code makes them exclude.
Exclusive ==
    /\ status \in Choosable => last = 0 /\ paidBy = {} /\ handing = {} /\ handedBy = {}
    /\ paidBy # {} => /\ status = "CASH_PAID" /\ last = 0 /\ handing = {} /\ handedBy = {}
                      /\ \A a, b \in paidBy : a = b
    /\ handedBy # {} => status \in {"CASH_PAID", "DELIVERED"} \/ last > 0
    /\ \A k, h \in handedBy : k = h
    /\ status = "FORFEITED" => last = 0 /\ paidBy = {} /\ handedBy = {}

StageInv ==
    /\ sweeping \in {"NONE", "NOTIFIED", "SELECTION_MADE", "KYC_PENDING"}
    /\ BeneficiaryStands
    /\ overwritten = 0 => Exclusive

\* Nobody has been paid, handed anything or forfeited.
LEMMA StageInit == Init => StageInv
BY DEF Init, StageInv, Exclusive, BeneficiaryStands, Choosable

\* What StageInv speaks of.
stageVars == <<status, last, paidBy, handing, handedBy, sweeping, identity, overwritten>>

\* An answer that changes the claim's status is about an attempt that was made.
LEMMA AppliedStatus ==
    ASSUME TypeOK, OrderInv, NEW n \in Attempts, NEW a \in AnswerStatuses, Apply(n, a)
    PROVE  /\ UNCHANGED <<last, paidBy, handing, handedBy, sweeping, identity, overwritten>>
           /\ \/ status' = status
              \/ /\ status' \in {"CASH_PAID", "KYC_CLEARED"} /\ last > 0
                 /\ attempt[n] \in NonTerminal \cup {"SUCCEEDED"}
<1>1. attempt[n] # "NONE" => last > 0
      BY PrizeAssumption DEF OrderInv, Untouched, Attempts, TypeOK
<1>2. UNCHANGED <<last, paidBy, handing, handedBy, sweeping, identity, overwritten>>
      BY DEF Apply
<1> QED BY <1>1, <1>2, AppliedEffect DEF MaySucceed, MayReverse, NonTerminal

\* Who pays, hands over or forfeits finds what no other channel has touched, unless a choice
\* was written over the claim's progress.
LEMMA StageStep == TypeOK /\ OrderInv /\ StageInv /\ [Next]_vars => StageInv'
<1> SUFFICES ASSUME TypeOK, OrderInv, StageInv, [Next]_vars PROVE StageInv'
    OBVIOUS
<1> USE DEF claimVars, ledgerVars, attemptVars, bankVars, memory, BeneficiaryStands, Choosable
<1>0. last \in Nat /\ overwritten \in Nat
      BY PrizeAssumption DEF TypeOK
<1>1. CASE UNCHANGED stageVars
      BY <1>1 DEF stageVars, StageInv, Exclusive
<1>2. CASE Sweep
      BY <1>2 DEF Sweep, Expired, StageInv, Exclusive
<1>3. CASE Forfeit
      BY <1>3, <1>0 DEF Forfeit, StillAsSwept, StageInv, Exclusive
<1>4. ASSUME NEW t \in Options, WriteChoice(t) PROVE StageInv'
  <2>1. CASE status \in Choosable
        BY <1>4, <2>1, <1>0 DEF WriteChoice, StageInv, Exclusive
  <2>2. CASE status \notin Choosable
    <3>1. overwritten' # 0
          BY <1>4, <2>2, <1>0 DEF WriteChoice
    <3> QED BY <1>4, <3>1, <1>0 DEF WriteChoice, StageInv
  <2> QED BY <2>1, <2>2
<1>5. CASE StartIdentityCheck
      BY <1>5, <1>0 DEF StartIdentityCheck, MayStartCheck, StageInv, Exclusive
<1>6. ASSUME NEW o \in {"VERIFIED", "FAILED"}, IdentityOutcome(o) PROVE StageInv'
      BY <1>6, <1>0 DEF IdentityOutcome, StageInv, Exclusive
<1>7. CASE Approve
      BY <1>7, <1>0 DEF Approve, AwaitsReview, StageInv, Exclusive
<1>8. ASSUME NEW a \in Agents, AgentPays(a) PROVE StageInv'
      BY <1>8, <1>0 DEF AgentPays, AgentPayable, StageInv, Exclusive
<1>9. ASSUME NEW k \in Clerks, Verify(k) PROVE StageInv'
      BY <1>9, <1>0 DEF Verify, StageInv, Exclusive
<1>10. ASSUME NEW k \in Clerks, NEW t \in Options, HandOver(k, t) PROVE StageInv'
  <2>1. /\ handing # {} /\ UNCHANGED <<last, paidBy, sweeping, identity, overwritten>>
        /\ handing' \subseteq handing
        BY <1>10 DEF HandOver
  <2>2. overwritten = 0 => status \notin Choosable /\ paidBy = {}
        BY <2>1 DEF StageInv, Exclusive
  <2>3. CASE handedBy = {}
    <3>1. handedBy' = {k} /\ status' \in {"CASH_PAID", "DELIVERED"}
          BY <1>10, <2>3 DEF HandOver, NotCollected
    <3> QED BY <2>1, <2>2, <3>1 DEF StageInv, Exclusive
  <2>4. CASE handedBy # {}
    <3>1. UNCHANGED <<handedBy, status>>
          BY <1>10, <2>4 DEF HandOver, NotCollected
    <3> QED BY <2>1, <2>2, <2>4, <3>1 DEF StageInv, Exclusive
  <2> QED BY <2>3, <2>4
<1>11. ASSUME NEW p \in Providers, Reserve(p) PROVE StageInv'
      BY <1>11, <1>0 DEF Reserve, StageInv, Exclusive
<1>12. ASSUME NEW n \in Attempts, NEW a \in AnswerStatuses, Apply(n, a) PROVE StageInv'
      BY <1>12, <1>0, AppliedStatus DEF StageInv, Exclusive
<1>13. CASE Crash
      BY <1>13 DEF Crash, StageInv, Exclusive
<1> QED
  <2>1. CASE Winner
        BY <2>1, <1>1, <1>4, <1>5, <1>6 DEF Winner, ReadChoosable, stageVars
  <2>2. CASE Staff
        BY <2>2, <1>1, <1>7, <1>8, <1>9, <1>10, <1>11 DEF Staff, IssueCode, stageVars
  <2>3. CASE Bank
    <3>1. ASSUME NEW n \in Attempts, NEW a \in AnswerStatuses, Refresh(n, a) \/ Webhook(n, a)
          PROVE  UNCHANGED stageVars
          BY <3>1 DEF Refresh, Webhook, Ask, stageVars
    <3> QED BY <2>3, <3>1, <1>1, <1>12 DEF Bank, Arrive, Settle, ReadLatest, stageVars
  <2>4. CASE Deadline \/ (\E s \in AttemptStatuses : WriteMirror(s)) \/ UNCHANGED vars
        BY <2>4, <1>1 DEF Deadline, WriteMirror, vars, stageVars
  <2> QED BY <1>2, <1>3, <1>13, <2>1, <2>2, <2>3, <2>4 DEF Next

-----------------------------------------------------------------------------
(* Claim and attempts together, where there is no collection point *)

PaidInv ==
    /\ status = "CASH_PAID" => paidBy # {} \/ \E n \in Attempts : attempt[n] = "SUCCEEDED"
    /\ overwritten = 0 /\ (paidBy # {} \/ \E n \in Attempts : attempt[n] = "SUCCEEDED")
         => status = "CASH_PAID"

\* At most one attempt is open or stands.
LEMMA OneOpen ==
    ASSUME TypeOK, OrderInv, NEW m \in Attempts, NEW n \in Attempts,
           attempt[m] \in NonTerminal \cup {"SUCCEEDED"},
           attempt[n] \in NonTerminal \cup {"SUCCEEDED"}
    PROVE  m = n
<1>1. last \in Nat /\ m \in Nat /\ n \in Nat
      BY PrizeAssumption DEF TypeOK, Attempts
<1>2. m = last /\ n = last
      BY <1>1 DEF OrderInv, Untouched, NonTerminal
<1> QED BY <1>2

\* Where there are no clerks, these are the steps that write the status or an attempt.
LEMMA PaidSteps ==
    ASSUME TypeOK, OrderInv, StageInv, NoDesk, [Next]_vars
    PROVE  \/ UNCHANGED <<status, attempt, paidBy, overwritten>>
           \/ /\ status \notin {"CASH_PAID", "FORFEITED"} /\ status' # "CASH_PAID"
              /\ UNCHANGED <<attempt, paidBy, overwritten>>
           \/ /\ status \notin {"CASH_PAID", "FORFEITED"} /\ status' = "CASH_PAID"
              /\ UNCHANGED <<attempt, overwritten>> /\ paidBy' # {}
           \/ \E t \in Options : WriteChoice(t)
           \/ \E p \in Providers : Reserve(p)
           \/ \E n \in Attempts, a \in AnswerStatuses : Apply(n, a)
<1> USE DEF claimVars, ledgerVars, attemptVars, bankVars, memory, Choosable
<1>1. CASE Deadline \/ Sweep \/ Crash \/ (\E s \in AttemptStatuses : WriteMirror(s))
           \/ UNCHANGED vars
      BY <1>1 DEF Deadline, Sweep, Crash, WriteMirror, vars
<1>2. CASE Forfeit
      BY <1>2 DEF Forfeit, StillAsSwept, StageInv
<1>3. CASE Winner
      BY <1>3 DEF Winner, ReadChoosable, StartIdentityCheck, MayStartCheck, IdentityOutcome
<1>4. CASE Staff
      BY <1>4 DEF Staff, NoDesk, Approve, AwaitsReview, IssueCode, AgentPays, AgentPayable
<1>5. CASE Bank
      BY <1>5 DEF Bank, Arrive, Settle, Refresh, Webhook, Ask, ReadLatest
<1> QED BY <1>1, <1>2, <1>3, <1>4, <1>5 DEF Next

\* Without clerks, a claim that reads paid was paid, by an agent or by the attempt that
\* stands; it reads so as long as no choice was written over it, and then it stays.
LEMMA PaidStep ==
    TypeOK /\ OrderInv /\ StageInv /\ PaidInv /\ NoDesk /\ [Next]_vars
        => PaidInv' /\ FinalStep
<1> SUFFICES ASSUME TypeOK, OrderInv, StageInv, PaidInv, NoDesk, [Next]_vars
             PROVE  PaidInv' /\ FinalStep
    OBVIOUS
<1>0. last \in Nat /\ overwritten \in Nat
      BY PrizeAssumption DEF TypeOK
<1>1. CASE UNCHANGED <<status, attempt, paidBy, overwritten>>
      BY <1>1 DEF PaidInv, FinalStep
<1>2. CASE /\ status \notin {"CASH_PAID", "FORFEITED"} /\ status' # "CASH_PAID"
           /\ UNCHANGED <<attempt, paidBy, overwritten>>
      BY <1>2 DEF PaidInv, FinalStep
<1>3. CASE /\ status \notin {"CASH_PAID", "FORFEITED"} /\ status' = "CASH_PAID"
           /\ UNCHANGED <<attempt, overwritten>> /\ paidBy' # {}
      BY <1>3 DEF PaidInv, FinalStep
<1>4. ASSUME NEW t \in Options, WriteChoice(t) PROVE PaidInv' /\ FinalStep
  <2>1. status' = "SELECTION_MADE" /\ UNCHANGED <<attempt, paidBy>>
        BY <1>4 DEF WriteChoice, attemptVars
  <2>2. CASE status \in Choosable
    <3>1. overwritten' = overwritten
          BY <1>4, <2>2 DEF WriteChoice
    <3> QED BY <2>1, <2>2, <3>1 DEF Choosable, PaidInv, FinalStep
  <2>3. CASE status \notin Choosable
    <3>1. overwritten' > 0
          BY <1>4, <2>3, <1>0 DEF WriteChoice
    <3> QED BY <1>4, <2>1, <3>1, <1>0 DEF PaidInv, FinalStep
  <2> QED BY <2>2, <2>3
<1>5. ASSUME NEW p \in Providers, Reserve(p) PROVE PaidInv' /\ FinalStep
      BY <1>5 DEF Reserve, claimVars, PaidInv, FinalStep, TypeOK
<1>6. ASSUME NEW n \in Attempts, NEW a \in AnswerStatuses, Apply(n, a)
      PROVE  PaidInv' /\ FinalStep
  <2>1. /\ \A m \in Attempts : m # n => attempt'[m] = attempt[m]
        /\ UNCHANGED <<paidBy, overwritten>>
        BY <1>6, AppliedEffect, AppliedStatus
  <2>2. CASE UNCHANGED <<status, attempt>>
        BY <2>1, <2>2 DEF PaidInv, FinalStep
  <2>3. CASE /\ attempt[n] \in NonTerminal /\ attempt'[n] \in {"FAILED", "PROCESSING"}
             /\ UNCHANGED status
        BY <2>1, <2>3 DEF NonTerminal, PaidInv, FinalStep
  <2>4. CASE MaySucceed(n) /\ attempt'[n] = "SUCCEEDED" /\ status' = "CASH_PAID"
    <3>1. last > 0 /\ status # "CASH_PAID"
          BY <1>6, <2>4, AppliedStatus DEF MaySucceed
    <3>2. status = "FORFEITED" => overwritten > 0
          BY <3>1, <1>0 DEF StageInv, Exclusive
    <3> QED BY <2>4, <3>1, <3>2 DEF PaidInv, FinalStep
  <2>5. CASE MayReverse(n) /\ attempt'[n] = "REVERSED" /\ status' = "KYC_CLEARED"
    <3>1. \A m \in Attempts : attempt[m] = "SUCCEEDED" => m = n
          BY <2>5, OneOpen DEF MayReverse
    <3>2. last > 0 \/ status = "KYC_CLEARED"
          BY <1>6, <2>5, AppliedStatus
    <3>3. overwritten = 0 => paidBy = {} /\ status # "FORFEITED"
          BY <3>2, <1>0 DEF StageInv, Exclusive
    <3>4. PaidInv'
          BY <2>1, <2>5, <3>1, <3>3 DEF PaidInv
    <3>5. FinalStep
      <4>1. CASE overwritten = 0
            BY <2>5, <3>1, <3>3, <4>1 DEF PaidInv, FinalStep
      <4>2. CASE overwritten > 0
            BY <2>1, <3>2, <4>2, <1>0 DEF FinalStep
      <4> QED BY <4>1, <4>2, <1>0
    <3> QED BY <3>4, <3>5
  <2> QED BY <1>6, <2>2, <2>3, <2>4, <2>5, AppliedEffect
<1> QED BY <1>1, <1>2, <1>3, <1>4, <1>5, <1>6, PaidSteps

-----------------------------------------------------------------------------
(* The theorems *)

\* Attempts are made in order, and the ledger follows them, whatever is written to the
\* claim meanwhile.
THEOREM AttemptsInOrder == Spec => [](OrderInv /\ LedgerInv)
<1> QED BY PrizeTyping, PayoutInit, OrderStep, LedgerStep, PTL DEF Spec

\* With providers whose refusals are conclusive, a transfer recorded as failed or reversed
\* has moved no money and never will (applyForAttempt, reserveAttempt).
THEOREM FailuresConclusive == ASSUME ConclusiveProviders PROVE Spec => []FailureIsConclusive
<1>1. OrderInv /\ KnownInv => FailureIsConclusive
      BY DEF OrderInv, KnownInv, FailureIsConclusive
<1>2. TypeOK /\ OrderInv /\ KnownInv /\ [Next]_vars => KnownInv'
      BY KnownStep
<1> QED BY <1>1, <1>2, PrizeTyping, PayoutInit, OrderStep, PTL DEF Spec

\* One clerk hands the prize over, however many verified the code at the same time, and
\* whatever options are written to the claim meanwhile (confirmHandover).
THEOREM PrizeCollectedOnce == Spec => []CollectedOnce
<1> USE DEF claimVars, ledgerVars, attemptVars, bankVars, memory
<1>1. Init => CollectedOnce
      BY DEF Init, CollectedOnce
<1>2. CollectedOnce /\ [Next]_vars => CollectedOnce'
  <2> SUFFICES ASSUME CollectedOnce, [Next]_vars PROVE CollectedOnce'
      OBVIOUS
  <2>1. ASSUME NEW k \in Clerks, NEW t \in Options, HandOver(k, t)
        PROVE  handedBy' = handedBy \/ (handedBy = {} /\ handedBy' = {k})
        BY <2>1 DEF HandOver, NotCollected
  <2>2. ASSUME NEW n \in Attempts, NEW a \in AnswerStatuses, Refresh(n, a) \/ Webhook(n, a) \/ Apply(n, a)
        PROVE  handedBy' = handedBy
        BY <2>2 DEF Refresh, Webhook, Ask, Apply
  <2>3. Winner \/ Bank => handedBy' = handedBy
        BY <2>2 DEF Winner, ReadChoosable, WriteChoice, StartIdentityCheck, IdentityOutcome, Bank,
                    Arrive, Settle, ReadLatest
  <2>4. Staff => handedBy' = handedBy \/ \E k \in Clerks : handedBy = {} /\ handedBy' = {k}
        BY <2>1 DEF Staff, IssueCode, Approve, AgentPays, Verify, Reserve
  <2>5. Deadline \/ Sweep \/ Forfeit \/ Crash => handedBy' = handedBy
        BY DEF Deadline, Sweep, Forfeit, Crash
  <2>6. \A s \in AttemptStatuses : WriteMirror(s) => handedBy' = handedBy
        BY DEF WriteMirror
  <2>7. handedBy' = handedBy \/ \E k \in Clerks : handedBy = {} /\ handedBy' = {k}
        BY <2>3, <2>4, <2>5, <2>6 DEF Next, vars
  <2> QED BY <2>7 DEF CollectedOnce
<1> QED BY <1>1, <1>2, PTL DEF Spec

\* Attempts, claim and ledger together.
LEMMA ClaimInv == Spec => [](TypeOK /\ OrderInv /\ LedgerInv /\ StageInv)
<1> QED BY PrizeTyping, PayoutInit, OrderStep, LedgerStep, StageInit, StageStep, PTL DEF Spec

\* At most one payout stands in the ledger, and unless a choice was written over the
\* claim's progress none stands beside an agent's payment, for any number of agents, clerks,
\* providers and attempts (logPayment, markSucceeded, markReversed).
THEOREM PrizePostedOnce == Spec => []PayableNeverOverdrawn
<1>1. TypeOK /\ OrderInv /\ LedgerInv /\ StageInv => PayableNeverOverdrawn
  <2> SUFFICES ASSUME TypeOK, OrderInv, LedgerInv, StageInv PROVE PayableNeverOverdrawn
      OBVIOUS
  <2>1. \A n \in posted \ reversed : attempt[n] = "SUCCEEDED"
        BY DEF LedgerInv, TypeOK
  <2>2. paidBy # {} /\ overwritten = 0 => posted = {}
        BY PrizeAssumption DEF StageInv, Exclusive, OrderInv, Untouched, TypeOK, Attempts
  <2>3. overwritten = 0 \/ overwritten > 0
        BY PrizeAssumption DEF TypeOK
  <2> QED BY <2>1, <2>2, <2>3 DEF PayableNeverOverdrawn, LedgerInv, TypeOK
<1> QED BY <1>1, ClaimInv, PTL

\* Money is only ever sent to an account whose identity check stands, and no claim with
\* money on its way is checked again, whenever a choice is written (StartIdentityCheck
\* against Reserve).
THEOREM BeneficiaryKept == Spec => []BeneficiaryStands
<1>1. StageInv => BeneficiaryStands
      BY DEF StageInv
<1> QED BY <1>1, ClaimInv, PTL

\* Unless a choice was written over the claim's progress, no forfeited claim was paid, or
\* will be by a call under way (the sweep).
THEOREM ForfeitsUnpaid == Spec => []ForfeitedUnpaid
<1>1. TypeOK /\ OrderInv /\ StageInv => ForfeitedUnpaid
  <2> SUFFICES ASSUME TypeOK, OrderInv, StageInv, status = "FORFEITED", overwritten = 0
               PROVE  Given = {} /\ calls = {} /\ last = 0
      BY DEF ForfeitedUnpaid
  <2>1. last = 0 /\ paidBy = {} /\ handedBy = {}
        BY DEF StageInv, Exclusive
  <2>2. \A n \in Attempts : transfer[n] = "NONE" /\ n \notin calls
        BY <2>1 DEF OrderInv, Untouched, Attempts
  <2> QED BY <2>1, <2>2 DEF Given, TypeOK
<1> QED BY <1>1, ClaimInv, PTL

\* When refusals are conclusive the bank pays the prize at most once. All channels together
\* do as long as no choice is written over the claim's progress and one of the two channels
\* that ignore each other, the bank and the collection point, is not used.
THEOREM PrizeReachesWinnerOnce ==
    ASSUME OneChannel PROVE Spec => []GivenOnceUnlessOverwritten
<1>1. TypeOK /\ OrderInv /\ KnownInv /\ StageInv => GivenOnceUnlessOverwritten
  <2> SUFFICES ASSUME TypeOK, OrderInv, KnownInv, StageInv PROVE GivenOnceUnlessOverwritten
      OBVIOUS
  <2>0. last \in Nat
        BY PrizeAssumption DEF TypeOK
  <2>1. ASSUME NEW n \in Attempts, transfer[n] = "PAID" PROVE n = last
    <3>1. n \in Nat
          BY PrizeAssumption DEF Attempts
    <3>2. ~(n > last)
          BY <2>1 DEF OrderInv, Untouched
    <3>3. attempt[n] \notin {"FAILED", "REVERSED"}
          BY <2>1 DEF KnownInv
    <3>4. ~(n < last)
          BY <3>3 DEF OrderInv
    <3> QED BY <2>0, <3>1, <3>2, <3>4
  <2>2. last > 0 \/ \A n \in Attempts : transfer[n] # "PAID"
        BY <2>0, <2>1 DEF Attempts
  <2>3. overwritten = 0 =>
            /\ \A a, b \in paidBy : a = b
            /\ \A k, h \in handedBy : k = h
            /\ paidBy # {} => last = 0 /\ handedBy = {}
        BY DEF StageInv, Exclusive
  <2>4. handedBy # {} => \A n \in Attempts : transfer[n] # "PAID"
        BY DEF OneChannel, NoDesk, TypeOK, Attempts
  <2>5. overwritten = 0 => PrizeGivenOnce
        BY <2>1, <2>2, <2>3, <2>4 DEF PrizeGivenOnce, Given
  <2> QED BY <2>1, <2>5 DEF GivenOnceUnlessOverwritten
<1>2. TypeOK /\ OrderInv /\ KnownInv /\ [Next]_vars => KnownInv'
      BY KnownStep DEF OneChannel
<1>3. Spec => []KnownInv
      BY <1>2, ClaimInv, PayoutInit, PTL DEF Spec
<1> QED BY <1>1, <1>3, ClaimInv, PTL

\* A new claim is not paid.
LEMMA PaidInit == Init => PaidInv
BY DEF Init, PaidInv

\* Both facts about paid claims, for every behaviour without clerks.
LEMMA NoDeskInv == ASSUME NoDesk PROVE Spec => []PaidInv /\ FinalStays
<1>1. TypeOK /\ OrderInv /\ StageInv /\ PaidInv /\ [Next]_vars => PaidInv' /\ FinalStep
      BY PaidStep
<1>2. TypeOK /\ OrderInv /\ StageInv /\ PaidInv /\ [Next]_vars => PaidInv' /\ [FinalStep]_vars
      BY <1>1
<1> QED BY <1>2, PaidInit, ClaimInv, PTL DEF Spec, FinalStays

\* Without collection points a claim that reads paid was paid, and one that was paid reads
\* so unless a choice was written over its progress; the ledger holds a payout exactly while
\* its attempt has succeeded, whatever was written.
THEOREM PrizeBooksAgree == ASSUME NoDesk PROVE Spec => []BooksAgree
<1>1. TypeOK /\ LedgerInv /\ PaidInv => BooksAgree
  <2> SUFFICES ASSUME TypeOK, LedgerInv, PaidInv PROVE BooksAgree
      OBVIOUS
  <2>1. overwritten = 0 \/ overwritten > 0
        BY PrizeAssumption DEF TypeOK
  <2>2. handedBy = {}
        BY DEF TypeOK, NoDesk
  <2> QED BY <2>1, <2>2 DEF TypeOK, LedgerInv, PaidInv, Paid, BooksAgree
<1> QED BY <1>1, ClaimInv, NoDeskInv, PTL

\* Without collection points only the late write of a choice takes back the forfeiture of a
\* claim no transfer was ordered for. Unless such a write has happened, or is this step,
\* forfeiture is final, and a paid claim is reopened only by the return of the payment that
\* settled it.
THEOREM PrizeFinalStays == ASSUME NoDesk PROVE Spec => FinalStays
<1> QED BY NoDeskInv, PTL

-----------------------------------------------------------------------------
(* The contract of module Prize *)

\* What waits to be recorded as paid was paid, though it may have come back since.
HeardInv ==
    \A n \in Attempts : <<n, "SUCCEEDED">> \in answers => transfer[n] \in {"PAID", "RETURNED"}

\* It is heard of a transfer that is paid, and a paid one can only come back.
LEMMA HeardStep == TypeOK /\ OrderInv /\ HeardInv /\ [Next]_vars => HeardInv'
<1> SUFFICES ASSUME TypeOK, OrderInv, HeardInv, PayoutStep, NEW m \in Attempts,
                    <<m, "SUCCEEDED">> \in answers'
             PROVE  transfer'[m] \in {"PAID", "RETURNED"}
    BY PayoutSteps DEF HeardInv
<1> USE DEF claimVars, ledgerVars, attemptVars, bankVars
<1>1. ASSUME answers' \subseteq answers, transfer' = transfer PROVE transfer'[m] \in {"PAID", "RETURNED"}
      BY <1>1 DEF HeardInv
<1>2. ASSUME NEW n \in Attempts, NEW s \in {"PENDING", "FAILED"}, Arrive(n, s)
      PROVE  transfer'[m] \in {"PAID", "RETURNED"}
  <2>1. answers' = answers /\ transfer[n] = "NONE" /\ (m # n => transfer'[m] = transfer[m])
        BY <1>2 DEF Arrive, memory, OrderInv, TypeOK
  <2> QED BY <2>1 DEF HeardInv
<1>3. ASSUME NEW n \in Attempts, NEW s \in {"PAID", "FAILED", "RETURNED"}, Settle(n, s)
      PROVE  transfer'[m] \in {"PAID", "RETURNED"}
  <2>1. /\ answers' = answers /\ (m # n => transfer'[m] = transfer[m])
        /\ transfer'[n] = s /\ (transfer[n] = "PENDING" \/ s = "RETURNED")
        BY <1>3 DEF Settle, memory, TypeOK
  <2> QED BY <2>1 DEF HeardInv
<1>4. ASSUME NEW n \in Attempts, NEW a \in AnswerStatuses, Refresh(n, a) \/ Webhook(n, a)
      PROVE  transfer'[m] \in {"PAID", "RETURNED"}
  <2>1. a \in MayAnswer(n) /\ answers' = answers \cup {<<n, a>>} /\ transfer' = transfer
        BY <1>4, Asked
  <2>2. a = "SUCCEEDED" => transfer[n] = "PAID"
        BY <2>1 DEF MayAnswer, TypeOK, TransferStates
  <2>3. <<m, "SUCCEEDED">> \in answers \/ (m = n /\ a = "SUCCEEDED")
        BY <2>1
  <2> QED BY <2>1, <2>2, <2>3 DEF HeardInv
<1>5. ASSUME NEW n \in Attempts, NEW a \in AnswerStatuses, Apply(n, a)
      PROVE  transfer'[m] \in {"PAID", "RETURNED"}
      BY <1>1, <1>5, AppliedAnswer
<1> QED BY <1>1, <1>2, <1>3, <1>4, <1>5 DEF PayoutStep, Reserve, memory, Crash, payoutVars

\* What the contract does not see.
prizeVars == <<status, overwritten, last, transfer, paidBy, posted, reversed>>

\* The statuses change, but the claim was open and stays so.
LEMMA ClaimStaysOpen ==
    ASSUME status # "FORFEITED", status' # "FORFEITED",
           UNCHANGED <<overwritten, last, transfer, paidBy, posted, reversed>>
    PROVE  UNCHANGED P!vars
BY DEF P!vars

\* What leaves its variables alone is a stutter of the contract.
LEMMA ContractUnseen == ASSUME UNCHANGED prizeVars PROVE UNCHANGED P!vars
BY DEF prizeVars, P!vars

\* A new attempt is an order of the contract: all earlier transfers are over, for good.
LEMMA OrderedByContract ==
    ASSUME TypeOK, OrderInv, KnownInv, NEW p \in Providers, Reserve(p)
    PROVE  P!Order
<1>1. last \in Nat /\ last + 1 \in Attempts
      BY PrizeAssumption DEF TypeOK, Reserve, Attempts
<1>2. ASSUME NEW n \in 1 .. last PROVE transfer[n] \in {"FAILED", "RETURNED"}
  <2>1. n \in Attempts /\ n \in Nat /\ n <= last /\ last \in Attempts
        BY <1>1, PrizeAssumption DEF Attempts, TypeOK
  <2>2. attempt[n] \in {"FAILED", "REVERSED"}
        BY <1>1, <2>1 DEF OrderInv, Reserve, MayReserve
  <2> QED BY <2>1, <2>2 DEF KnownInv
<1> QED BY <1>1, <1>2 DEF Reserve, P!Order, claimVars, ledgerVars

\* The bank does what the contract lets it do, to transfers that were ordered.
LEMMA MovedByContract ==
    ASSUME TypeOK, OrderInv, NEW n \in Attempts, NEW s,
           \/ s \in {"PENDING", "FAILED"} /\ Arrive(n, s)
           \/ s \in {"PAID", "FAILED", "RETURNED"} /\ Settle(n, s)
    PROVE  s \in P!Fate[transfer[n]] /\ P!Move(n, s)
<1>1. n <= last
      BY PrizeAssumption DEF OrderInv, Untouched, Arrive, Settle, TypeOK, Attempts
<1>2. s \in P!Fate[transfer[n]]
      BY DEF OrderInv, Arrive, Settle, P!Fate
<1> QED BY <1>1, <1>2 DEF Arrive, Settle, P!Move, claimVars, ledgerVars, attemptVars

\* The ledger follows what has happened, once and one payout at a time. The return of a
\* payment that was never booked opens a claim forfeited after a choice was written over it.
LEMMA BookedByContract ==
    ASSUME TypeOK, OrderInv, LedgerInv, KnownInv, HeardInv, StageInv,
           NEW n \in Attempts, NEW a \in AnswerStatuses, Apply(n, a)
    PROVE  P!Post(n) \/ P!Reverse(n) \/ P!Overwrite \/ UNCHANGED P!vars
<1>0. last \in Nat /\ overwritten \in Nat
      BY PrizeAssumption DEF TypeOK
<1>1. <<n, a>> \in answers /\ UNCHANGED <<last, transfer, paidBy, overwritten>>
      BY AppliedAnswer, AppliedStatus
<1>2. \/ status' = status
      \/ status' # "FORFEITED" /\ (status # "FORFEITED" \/ overwritten > 0)
      BY <1>0, AppliedStatus DEF StageInv, Exclusive
<1>3. CASE a = "SUCCEEDED" /\ Succeed(n)
  <2>1. n \notin posted /\ posted \subseteq reversed
        BY <1>3 DEF Succeed, MaySucceed, NonTerminal, LedgerInv, TypeOK
  <2>2. transfer[n] \in {"PAID", "RETURNED"}
        BY <1>1, <1>3 DEF HeardInv
  <2>3. posted' = posted \cup {n} /\ reversed' = reversed /\ status' = "CASH_PAID"
        BY <1>3 DEF Succeed
  <2> QED BY <1>1, <2>1, <2>2, <2>3 DEF P!Post
<1>4. CASE a = "REVERSED" /\ BookReversal(n)
  <2>1. transfer[n] = "RETURNED"
        BY <1>1, <1>4 DEF KnownInv
  <2>2. /\ posted' = posted /\ reversed' = reversed \cup ({n} \cap posted)
        /\ status' = "KYC_CLEARED"
        BY <1>4 DEF BookReversal, Reversals
  <2>3. n \notin reversed
        BY <1>4 DEF BookReversal, MayReverse, NonTerminal, LedgerInv
  <2>4. CASE n \in posted
        BY <1>1, <2>1, <2>2, <2>3, <2>4 DEF P!Reverse
  <2>5. CASE n \notin posted
    <3>1. reversed' = reversed
          BY <2>2, <2>5
    <3>2. CASE status = "FORFEITED"
          BY <1>1, <1>2, <2>2, <3>1, <3>2 DEF P!Overwrite
    <3>3. CASE status # "FORFEITED"
          BY <1>1, <2>2, <3>1, <3>3 DEF P!vars
    <3> QED BY <3>2, <3>3
  <2> QED BY <2>4, <2>5
<1>5. CASE UNCHANGED <<status, posted, reversed>>
      BY <1>1, <1>5 DEF P!vars
<1> QED BY <1>3, <1>4, <1>5 DEF Apply, Record, RecordMismatch, ledgerVars

\* A choice written to a claim still open to one changes nothing the contract sees.
LEMMA ChosenByContract ==
    ASSUME TypeOK, NEW t \in Options, WriteChoice(t)
    PROVE  P!Overwrite \/ UNCHANGED P!vars
<1>1. UNCHANGED <<last, transfer, paidBy, posted, reversed>> /\ status' = "SELECTION_MADE"
      BY DEF WriteChoice, ledgerVars, attemptVars, bankVars
<1>2. CASE status \in Choosable
  <2>1. overwritten' = overwritten /\ status # "FORFEITED"
        BY <1>2 DEF WriteChoice, Choosable
  <2> QED BY <1>1, <2>1, ClaimStaysOpen
<1>3. CASE status \notin Choosable
  <2>1. overwritten' > 0
        BY <1>3, PrizeAssumption DEF WriteChoice, TypeOK
  <2> QED BY <1>1, <2>1 DEF P!Overwrite
<1> QED BY <1>2, <1>3

\* Every step is a step of the contract, or is not seen by it.
LEMMA PrizeSteps ==
    ASSUME TypeOK, OrderInv, LedgerInv, KnownInv, HeardInv, StageInv, NoDesk, [Next]_vars
    PROVE  [P!Next]_(P!vars)
<1> USE DEF claimVars, ledgerVars, attemptVars, bankVars, memory, Choosable
<1>0. last \in Nat /\ overwritten \in Nat
      BY PrizeAssumption DEF TypeOK
<1>1. CASE Deadline \/ Sweep \/ Crash \/ (\E s \in AttemptStatuses : WriteMirror(s)) \/ UNCHANGED vars
      BY <1>1, ContractUnseen DEF Deadline, Sweep, Crash, WriteMirror, vars, prizeVars
<1>2. CASE Forfeit
  <2>1. CASE StillAsSwept
    <3>1. overwritten > 0 \/ (last = 0 /\ paidBy = {})
          BY <1>0, <1>2, <2>1 DEF Forfeit, StillAsSwept, StageInv, Exclusive, BeneficiaryStands
    <3> QED BY <1>2, <2>1, <3>1 DEF Forfeit, P!Forfeit, P!Unpaid, P!Next
  <2>2. CASE ~StillAsSwept
        BY <1>2, <2>2, ContractUnseen DEF Forfeit, prizeVars
  <2> QED BY <2>1, <2>2
<1>3. ASSUME NEW t \in Options, WriteChoice(t) PROVE [P!Next]_(P!vars)
      BY <1>3, ChosenByContract DEF P!Next
<1>4. CASE Winner
  <2>1. CASE UNCHANGED prizeVars
        BY <2>1, ContractUnseen
  <2>2. CASE StartIdentityCheck
        BY <2>2, ClaimStaysOpen DEF StartIdentityCheck, MayStartCheck
  <2> QED BY <1>4, <1>3, <2>1, <2>2 DEF Winner, ReadChoosable, IdentityOutcome, prizeVars
<1>5. CASE Staff
  <2>1. CASE Approve
        BY <2>1, ClaimStaysOpen DEF Approve, AwaitsReview
  <2>2. CASE IssueCode
        BY <2>2, ContractUnseen DEF IssueCode, prizeVars
  <2>3. ASSUME NEW a \in Agents, AgentPays(a) PROVE P!Pay(a)
    <3>1. P!Unpaid
          BY <1>0, <2>3 DEF AgentPays, AgentPayable, StageInv, Exclusive, P!Unpaid
    <3> QED BY <2>3, <3>1 DEF AgentPays, AgentPayable, P!Pay
  <2>4. ASSUME NEW p \in Providers, Reserve(p) PROVE P!Order
        BY <2>4, OrderedByContract
  <2> QED BY <1>5, <2>1, <2>2, <2>3, <2>4 DEF Staff, NoDesk, P!Next
<1>6. CASE Bank
  <2>1. ASSUME NEW n \in Attempts, NEW s \in {"PENDING", "FAILED"}, Arrive(n, s) PROVE P!Next
        BY <2>1, MovedByContract DEF P!Next
  <2>2. ASSUME NEW n \in Attempts, NEW s \in {"PAID", "FAILED", "RETURNED"}, Settle(n, s) PROVE P!Next
        BY <2>2, MovedByContract DEF P!Next
  <2>3. ASSUME NEW n \in Attempts, NEW a \in AnswerStatuses, Apply(n, a) PROVE [P!Next]_(P!vars)
        BY <2>3, BookedByContract DEF P!Next
  <2>4. ASSUME NEW n \in Attempts, NEW a \in AnswerStatuses, Refresh(n, a) \/ Webhook(n, a) \/ ReadLatest(n)
        PROVE  UNCHANGED P!vars
        BY <2>4, ContractUnseen DEF Refresh, Webhook, Ask, ReadLatest, prizeVars
  <2>5. ASSUME NEW n \in Attempts, ReadLatest(n) PROVE UNCHANGED P!vars
        BY <2>5, ContractUnseen DEF ReadLatest, prizeVars
  <2> QED BY <1>6, <2>1, <2>2, <2>3, <2>4, <2>5 DEF Bank
<1> QED BY <1>1, <1>2, <1>3, <1>4, <1>5, <1>6 DEF Next

\* Where there are no collection points and refusals are conclusive, the claim keeps the
\* contract of module Prize, for any agents, providers and number of attempts: all of it
\* until a choice is written over the claim's progress, and what it says of the time after.
THEOREM ClaimImplementsPrize == ASSUME NoDesk, ConclusiveProviders PROVE Spec => ImplementsPrize
<1>1. Init => P!Init /\ HeardInv
      BY DEF Init, P!Init, HeardInv
<1>2. TypeOK /\ OrderInv /\ KnownInv /\ [Next]_vars => KnownInv'
      BY KnownStep
<1>3. Spec => [](KnownInv /\ HeardInv)
      BY <1>1, <1>2, ClaimInv, PayoutInit, HeardStep, PTL DEF Spec
<1>4. TypeOK /\ OrderInv /\ LedgerInv /\ KnownInv /\ HeardInv /\ StageInv /\ [Next]_vars
        => [P!Next]_(P!vars)
      BY PrizeSteps
<1> QED BY <1>1, <1>3, <1>4, ClaimInv, PTL DEF Spec, ImplementsPrize, P!Spec

=============================================================================
