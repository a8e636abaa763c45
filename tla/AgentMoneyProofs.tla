--------------------------- MODULE AgentMoneyProofs ---------------------------
(***************************************************************************)
(* What the remittances promise, for any days, sales, prizes, commissions  *)
(* and announcements.                                                      *)
(***************************************************************************)
EXTENDS AgentMoney, FiniteSetTheorems, TLAPS

-----------------------------------------------------------------------------
(* Sums over finite sets. What is summed up is a fold of the library, whose  *)
(* definition chooses a function on the subsets; that the choice is unique,  *)
(* and that a sum does not depend on the order, is shown for the smallest    *)
(* set it would not hold for.                                                *)

\* One step of the recursion: some element of the set, and the rest.
Pick(S) == CHOOSE x \in S : TRUE

Step(f, g, s) == IF s = {} THEN 0 ELSE f[Pick(s)] + g[s \ {Pick(s)}]

Sums(f, S, g) == g = [s \in SUBSET S |-> Step(f, g, s)]

\* The library's fold, in these words.
LEMMA TotalIs == \A f, S : Total(f, S) = (CHOOSE g : Sums(f, S, g))[S]
BY DEF Total, SumFunctionOnSet, FoldFunctionOnSet, MapThenFoldSet, Sums, Step, Pick

\* A property that a finite set lacks is lacked by one all of whose proper subsets have it.
LEMMA Smallest ==
  ASSUME NEW S, IsFiniteSet(S), NEW Bad, Bad \subseteq SUBSET S, Bad # {}
  PROVE  \E T \in Bad : \A U \in SUBSET T : U # T => U \notin Bad
<1>1. SUBSET S = FiniteSubsetsOf(S)
  BY FS_FiniteSubsetsOfFinite
<1>2. IsWellFoundedOn(StrictSubsetOrdering(S), SUBSET S)
  BY <1>1, FS_StrictSubsetOrderingWellFounded
<1>3. PICK T \in Bad : \A U \in Bad : <<U, T>> \notin StrictSubsetOrdering(S)
  BY <1>2, WFMin
<1> QED
  BY <1>3 DEF StrictSubsetOrdering

\* Two functions that sum up the subsets of one set agree on them.
LEMMA SumsUnique ==
  ASSUME NEW S, IsFiniteSet(S), NEW f, NEW g, NEW h, Sums(f, S, g), Sums(f, S, h)
  PROVE  g = h
<1> DEFINE Bad == {s \in SUBSET S : g[s] # h[s]}
<1>0. /\ \A s \in SUBSET S : g[s] = Step(f, g, s) /\ h[s] = Step(f, h, s)
  BY DEF Sums
<1>1. SUFFICES Bad = {}
  BY DEF Sums
<1>2. ASSUME NEW T \in Bad, \A U \in SUBSET T : U # T => U \notin Bad PROVE FALSE
  <2>1. T # {} => Pick(T) \in T
    BY DEF Pick
  <2>2. Step(f, g, T) = Step(f, h, T)
    BY <1>2, <2>1 DEF Step
  <2> QED
    BY <1>0, <2>2
<1>3. Bad \subseteq SUBSET S
  OBVIOUS
<1> HIDE DEF Bad
<1> QED
  BY <1>2, <1>3, Smallest

\* The sum over a finite set, as its definition unfolds.
LEMMA TotalUnfolds ==
  ASSUME NEW S, IsFiniteSet(S), NEW f
  PROVE  Total(f, S) = IF S = {} THEN 0 ELSE f[Pick(S)] + Total(f, S \ {Pick(S)})
<1> DEFINE F == [s \in SUBSET S |-> Total(f, s)]
           Bad == {s \in SUBSET S : F[s] # Step(f, F, s)}
<1>1. SUFFICES Bad = {}
  <2>1. S # {} => Pick(S) \in S
    BY DEF Pick
  <2> QED
    BY <1>1, <2>1 DEF Step
<1>2. ASSUME NEW T \in Bad, \A U \in SUBSET T : U # T => U \notin Bad PROVE FALSE
  <2> DEFINE g == [s \in SUBSET T |-> IF s = T THEN Step(f, F, T) ELSE F[s]]
  <2>1. Sums(f, T, g)
    <3>1. ASSUME NEW s \in SUBSET T PROVE g[s] = Step(f, g, s)
      <4>1. g[s] = Step(f, F, s)
        BY <1>2
      <4>2. s # {} => Pick(s) \in s /\ s \ {Pick(s)} # T
        BY DEF Pick
      <4> QED
        BY <1>2, <4>1, <4>2 DEF Step
    <3> QED
      BY <3>1 DEF Sums
  <2> HIDE DEF g
  <2>2. IsFiniteSet(T)
    BY FS_Subset
  <2>3. Sums(f, T, CHOOSE h : Sums(f, T, h))
    BY <2>1
  <2>4. F[T] = g[T]
    BY <2>1, <2>2, <2>3, SumsUnique, TotalIs
  <2> QED
    BY <1>2, <2>4 DEF g
<1>3. Bad \subseteq SUBSET S
  OBVIOUS
<1> HIDE DEF Bad
<1> QED
  BY <1>2, <1>3, Smallest

\* Of nothing it is nothing.
LEMMA TotalEmpty == ASSUME NEW f PROVE Total(f, {}) = 0
BY TotalUnfolds, FS_EmptySet

\* Sums of integers: their type, and what one element contributes.
LEMMA TotalWithout ==
  ASSUME NEW S, IsFiniteSet(S), NEW f, \A x \in S : f[x] \in Int
  PROVE  /\ Total(f, S) \in Int
         /\ \A x \in S : Total(f, S) = f[x] + Total(f, S \ {x})
<1> DEFINE Good(s) == Total(f, s) \in Int /\ \A x \in s : Total(f, s) = f[x] + Total(f, s \ {x})
           Bad == {s \in SUBSET S : ~Good(s)}
<1>1. SUFFICES Bad = {}
  <2>1. S \notin Bad => Good(S)
    OBVIOUS
  <2> HIDE DEF Bad, Good
  <2> QED
    BY <2>1 DEF Good
<1>2. ASSUME NEW T \in Bad, \A U \in SUBSET T : U # T => U \notin Bad PROVE FALSE
  <2>1. T # {}
    <3>1. Good({})
      BY TotalEmpty
    <3> QED
      BY <1>2, <3>1
  <2> DEFINE p == Pick(T)
             R == T \ {p}
  <2>2. p \in T
    BY <2>1 DEF Pick
  <2>3. IsFiniteSet(T)
    BY FS_Subset
  <2>4. Total(f, T) = f[p] + Total(f, R)
    BY <2>1, <2>3, TotalUnfolds
  <2> HIDE DEF p
  <2>5. Good(R)
    BY <1>2, <2>2
  <2>6. Total(f, T) \in Int
    BY <2>2, <2>4, <2>5
  <2>7. ASSUME NEW x \in T, x # p PROVE Total(f, T) = f[x] + Total(f, T \ {x})
    <3>1. x \in R /\ p \in T \ {x} /\ (T \ {x}) \ {p} = R \ {x}
      BY <2>2, <2>7
    <3>2. Good(T \ {x}) /\ Good(R \ {x})
      BY <1>2
    <3>3. Total(f, R) = f[x] + Total(f, R \ {x})
      BY <2>5, <3>1
    <3>4. Total(f, T \ {x}) = f[p] + Total(f, R \ {x})
      BY <3>1, <3>2
    <3> HIDE DEF R
    <3> QED
      BY <2>2, <2>4, <3>2, <3>3, <3>4
  <2>8. Good(T)
    BY <2>4, <2>6, <2>7
  <2> QED
    BY <2>8
<1>3. Bad \subseteq SUBSET S
  OBVIOUS
<1> HIDE DEF Bad
<1> QED
  BY <1>2, <1>3, Smallest

\* One more element.
LEMMA TotalPlus ==
  ASSUME NEW S, IsFiniteSet(S), NEW f, NEW x, x \notin S, \A y \in S \cup {x} : f[y] \in Int
  PROVE  /\ Total(f, S) \in Int /\ Total(f, S \cup {x}) \in Int
         /\ Total(f, S \cup {x}) = Total(f, S) + f[x]
<1> DEFINE T == S \cup {x}
<1>1. IsFiniteSet(T) /\ x \in T /\ T \ {x} = S /\ \A y \in T : f[y] \in Int
  BY FS_AddElement
<1>2. Total(f, S) \in Int
  BY TotalWithout
<1> HIDE DEF T
<1>3. Total(f, T) \in Int /\ Total(f, T) = f[x] + Total(f, T \ {x})
  BY <1>1, TotalWithout
<1>4. T \ {x} = S /\ f[x] \in Int
  BY <1>1
<1>5. Total(f, T) = f[x] + Total(f, S)
  BY <1>3, <1>4, Zenon
<1> QED
  BY <1>2, <1>3, <1>4, <1>5 DEF T

-----------------------------------------------------------------------------
(* Amounts, days and rows *)

\* Amounts are whole numbers, and what is taken off the receivable is one of them.
LEMMA Amounts ==
  ASSUME NEW d \in AllDays
  PROVE  /\ Commission(d) \in Nat /\ Commission(d) \in Int /\ Due(d) \in Int /\ NewCommission(d) \in Int
         /\ Gross[d] \in Int /\ PaidOut[d] \in Int
<1>1. Gross[d] \in Nat /\ PaidOut[d] \in Nat /\ Percent \in Nat
  BY AgentMoneyAssumption DEF AllDays
<1>2. Gross[d] * Percent \in Nat
  BY <1>1
<1>3. Commission(d) \in Nat
  BY <1>2 DEF Commission
<1> QED
  BY <1>1, <1>3 DEF Due, NewCommission

\* Days are numbers, and no day is the absence of one.
LEMMA DaysAreNumbers == AllDays \subseteq 0 .. Days /\ 0 \notin AllDays /\ Days \in Nat
BY AgentMoneyAssumption DEF AllDays

\* What is posted is the commission of a day that has one.
LEMMA CommissionsKept ==
  ASSUME TypeOK, NEW d \in AllDays, PostCommission(d)
  PROVE  commissions' \subseteq {e \in AllDays : Commission(e) > 0}
BY DEF TypeOK, PostCommission

\* What rows say of days, kept by a step that writes one row and says how it is cleared.
LEMMA RowWritten ==
  ASSUME TypeOK, RowInv, ClearedIsNotOwed, NEW d \in AllDays, NEW s,
         s \in Open \cup {"AGENT_CONFIRMED", "RECEIVED", "CREDITED_TO_WALLET"},
         row' = [row EXCEPT ![d] = s],
         \A e \in AllDays : e # d => settledBy'[e] = settledBy[e] /\ (e \in credits' => e \in credits),
         s \in Open => settledBy'[d] = "NONE" /\ d \notin credits',
         \A q \in Requests : reading'[q] # 0 => reading'[q] = reading[q]
  PROVE  /\ row' \in [AllDays -> Open \cup {"NONE", "AGENT_CONFIRMED", "RECEIVED", "CREDITED_TO_WALLET"}]
         /\ RowInv' /\ ClearedIsNotOwed'
<1>1. /\ row' \in [AllDays -> Open \cup {"NONE", "AGENT_CONFIRMED", "RECEIVED", "CREDITED_TO_WALLET"}]
      /\ row'[d] = s /\ s # "NONE"
      /\ \A e \in AllDays : e # d => row'[e] = row[e]
  BY DEF TypeOK, Open
<1>2. \A e \in AllDays : row'[e] = "NONE" => settledBy'[e] = "NONE" /\ e \notin credits'
  BY <1>1 DEF RowInv
<1>3. \A q \in Requests : reading[q] # 0 => reading[q] \in AllDays
  BY AgentMoneyAssumption DEF TypeOK, AllDays
<1>4. \A q \in Requests : reading'[q] # 0 => row'[reading'[q]] # "NONE"
  BY <1>1, <1>3 DEF RowInv
<1>5. ClearedIsNotOwed'
  BY <1>1 DEF ClearedIsNotOwed
<1> QED
  BY <1>1, <1>2, <1>4, <1>5 DEF RowInv

\* A step that writes no row, settles nothing and finds at most another row open.
LEMMA RowsKept ==
  ASSUME RowInv, ClearedIsNotOwed, UNCHANGED <<row, settledBy, credits>>,
         \A q \in Requests : reading'[q] # 0 =>
            reading'[q] = reading[q] \/ row[reading'[q]] # "NONE"
  PROVE  RowInv' /\ ClearedIsNotOwed'
BY DEF RowInv, ClearedIsNotOwed

-----------------------------------------------------------------------------
(* The steps *)

\* What the steps keep row by row; the signs of cleared days follow below.
Rows == TypeOK /\ RowInv /\ ClearedIsNotOwed

\* The close of a day, the sweep and the overdue mark keep the rows in order.
LEMMA WorkerKeeps ==
  ASSUME IInv, WorkerSteps
  PROVE  Rows'
<1>1. ASSUME CloseDay PROVE Rows'
  <2>1. /\ UNCHANGED <<worker, row, commissions, settledBy, credits, reading, wallet, bank, walletStatus, sold, paid>>
        /\ closed < Days /\ closed' = closed + 1 /\ closed' \in AllDays
        /\ receivable' = receivable + Gross[closed + 1] - PaidOut[closed + 1]
    BY <1>1, AgentMoneyAssumption DEF CloseDay, links, trade, IInv, TypeOK, AllDays
  <2>2. receivable' \in Int
    BY <2>1, Amounts DEF IInv, TypeOK
  <2>3. TypeOK'
    BY <2>1, <2>2, DaysAreNumbers DEF IInv, TypeOK
  <2> QED
    BY <2>1, <2>3, RowsKept DEF IInv, Rows
<1>2. ASSUME WorkerStops \/ WorkerStarts PROVE Rows'
  <2>1. /\ UNCHANGED <<closed, row, commissions, settledBy, credits, reading, receivable, wallet, bank, walletStatus, sold, paid>>
        /\ worker' \in BOOLEAN
    BY <1>2 DEF WorkerStops, WorkerStarts, links, trade, books
  <2>2. TypeOK'
    BY <2>1 DEF IInv, TypeOK
  <2> QED
    BY <2>1, <2>2, RowsKept DEF IInv, Rows
<1>3. ASSUME NEW d \in AllDays, NEW s \in Open, row' = [row EXCEPT ![d] = s],
             settledBy[d] = "NONE" /\ d \notin credits,
             UNCHANGED <<closed, worker, links, reading, books, walletStatus, trade>>
      PROVE  Rows'
  <2>1. UNCHANGED <<closed, worker, commissions, settledBy, credits, reading, receivable, wallet, bank, walletStatus, sold, paid>>
    BY <1>3 DEF links, trade, books
  <2>2. /\ row' \in [AllDays -> Open \cup {"NONE", "AGENT_CONFIRMED", "RECEIVED", "CREDITED_TO_WALLET"}]
        /\ RowInv' /\ ClearedIsNotOwed'
    BY <1>3, <2>1, RowWritten DEF IInv
  <2>3. TypeOK'
    BY <2>1, <2>2 DEF IInv, TypeOK
  <2> QED
    BY <2>2, <2>3 DEF Rows
<1>4. ASSUME Sweep PROVE Rows'
  <2>1. PICK d \in Swept : row[d] = "NONE" /\ row' = [row EXCEPT ![d] = "PENDING"]
    BY <1>4 DEF Sweep
  <2>2. d \in AllDays /\ settledBy[d] = "NONE" /\ d \notin credits
    BY <2>1 DEF Swept, IInv, RowInv
  <2>3. UNCHANGED <<closed, worker, links, reading, books, walletStatus, trade>>
    BY <1>4 DEF Sweep
  <2>4. "PENDING" \in Open
    BY DEF Open
  <2> QED
    BY <1>3, <2>1, <2>2, <2>3, <2>4
<1>5. ASSUME NEW d \in AllDays, MarkOverdue(d) PROVE Rows'
  <2>1. row[d] = "PENDING" /\ row' = [row EXCEPT ![d] = "LATE"]
    BY <1>5 DEF MarkOverdue, StillPending
  <2>2. settledBy[d] = "NONE" /\ d \notin credits
    BY <2>1 DEF IInv, ClearedIsNotOwed, Open
  <2>3. UNCHANGED <<closed, worker, links, reading, books, walletStatus, trade>>
    BY <1>5 DEF MarkOverdue
  <2>4. "LATE" \in Open
    BY DEF Open
  <2> QED
    BY <1>3, <2>1, <2>2, <2>3, <2>4
<1> QED
  BY <1>1, <1>2, <1>4, <1>5 DEF WorkerSteps

\* So do the announcements, of which the write comes late, and the settlement from the wallet.
LEMMA AgentKeeps ==
  ASSUME IInv, AgentSteps
  PROVE  Rows'
<1>1. ASSUME NEW q \in Requests, NEW d \in AllDays, BeginConfirm(q, d) PROVE Rows'
  <2>1. /\ UNCHANGED <<closed, worker, row, commissions, settledBy, credits, receivable, wallet, bank, walletStatus, sold, paid>>
        /\ row[d] \in Open /\ reading' = [reading EXCEPT ![q] = d]
    BY <1>1 DEF BeginConfirm, links, trade, books
  <2>2. row[d] # "NONE"
    BY <2>1 DEF Open
  <2>3. reading' \in [Requests -> 0 .. Days]
    BY <2>1, DaysAreNumbers DEF IInv, TypeOK
  <2>4. \A p \in Requests : reading'[p] = reading[p] \/ reading'[p] = d
    BY <2>1 DEF IInv, TypeOK
  <2>5. TypeOK'
    BY <2>1, <2>3 DEF IInv, TypeOK
  <2> QED
    BY <2>1, <2>2, <2>4, <2>5, RowsKept DEF IInv, Rows
<1>2. ASSUME NEW q \in Requests, ConfirmPayment(q) PROVE Rows'
  <2>1. /\ UNCHANGED <<closed, worker, commissions, settledBy, credits, receivable, wallet, bank, walletStatus, sold, paid>>
        /\ reading[q] # 0 /\ row' = [row EXCEPT ![reading[q]] = "AGENT_CONFIRMED"]
        /\ reading' = [reading EXCEPT ![q] = 0]
    BY <1>2 DEF ConfirmPayment, links, trade, books
  <2>2. reading[q] \in AllDays
    BY <2>1, AgentMoneyAssumption DEF IInv, TypeOK, AllDays
  <2>3. /\ reading' \in [Requests -> 0 .. Days]
        /\ \A p \in Requests : reading'[p] # 0 => reading'[p] = reading[p]
    BY <2>1, AgentMoneyAssumption DEF IInv, TypeOK
  <2>4. "AGENT_CONFIRMED" \notin Open
    BY DEF Open
  <2>5. /\ row' \in [AllDays -> Open \cup {"NONE", "AGENT_CONFIRMED", "RECEIVED", "CREDITED_TO_WALLET"}]
        /\ RowInv' /\ ClearedIsNotOwed'
    BY <2>1, <2>2, <2>3, <2>4, RowWritten DEF IInv
  <2>6. TypeOK'
    BY <2>1, <2>3, <2>5 DEF IInv, TypeOK
  <2> QED
    BY <2>5, <2>6 DEF Rows
<1>3. ASSUME NEW q \in Requests, GiveUp(q) PROVE Rows'
  <2>1. /\ UNCHANGED <<closed, worker, row, commissions, settledBy, credits, receivable, wallet, bank, walletStatus, sold, paid>>
        /\ reading' = [reading EXCEPT ![q] = 0]
    BY <1>3 DEF GiveUp, links, trade, books
  <2>2. /\ reading' \in [Requests -> 0 .. Days]
        /\ \A p \in Requests : reading'[p] # 0 => reading'[p] = reading[p]
    BY <2>1, AgentMoneyAssumption DEF IInv, TypeOK
  <2>3. TypeOK'
    BY <2>1, <2>2 DEF IInv, TypeOK
  <2> QED
    BY <2>1, <2>2, <2>3, RowsKept DEF IInv, Rows
<1>4. ASSUME NEW d \in AllDays, SettleFromWallet(d) PROVE Rows'
  <2>1. /\ UNCHANGED <<closed, worker, credits, reading, bank, walletStatus, sold, paid>>
        /\ PostCommission(d) /\ settledBy' = [settledBy EXCEPT ![d] = "WALLET"]
        /\ row' = [row EXCEPT ![d] = "RECEIVED"]
        /\ wallet' = wallet - Due(d) /\ receivable' = receivable - NewCommission(d) - Due(d)
    BY <1>4 DEF SettleFromWallet, trade
  <2>2. wallet' \in Int /\ receivable' \in Int
    BY <2>1, Amounts DEF IInv, TypeOK
  <2>3. /\ settledBy' \in [AllDays -> {"NONE", "WALLET", "BANK"}]
        /\ \A e \in AllDays : e # d => settledBy'[e] = settledBy[e]
    BY <2>1 DEF IInv, TypeOK
  <2>4. "RECEIVED" \notin Open
    BY DEF Open
  <2>5. /\ row' \in [AllDays -> Open \cup {"NONE", "AGENT_CONFIRMED", "RECEIVED", "CREDITED_TO_WALLET"}]
        /\ RowInv' /\ ClearedIsNotOwed'
    BY <2>1, <2>3, <2>4, RowWritten DEF IInv
  <2>6. TypeOK'
    BY <2>1, <2>2, <2>3, <2>5, CommissionsKept DEF IInv, TypeOK
  <2> QED
    BY <2>5, <2>6 DEF Rows
<1>5. Charge \in Int /\ Prize \in Int
  <2>1. Price * Percent \in Int /\ Price \in Int
    BY AgentMoneyAssumption
  <2> QED
    BY <2>1, AgentMoneyAssumption DEF Charge
<1>6. ASSUME UNCHANGED <<closed, worker, row, links, reading, receivable, bank, walletStatus>>,
             wallet' \in Int, sold' \subseteq Sales, paid' \subseteq Prizes
      PROVE  Rows'
  <2>1. UNCHANGED <<closed, worker, row, commissions, settledBy, credits, reading, receivable, bank, walletStatus>>
    BY <1>6 DEF links
  <2>2. TypeOK'
    BY <1>6, <2>1 DEF IInv, TypeOK
  <2> QED
    BY <2>1, <2>2, RowsKept DEF IInv, Rows
<1>7. ASSUME NEW s \in Sales, Sell(s) PROVE Rows'
  <2>1. /\ sold' = sold \cup {s} /\ wallet' = wallet - Charge /\ paid' = paid
        /\ UNCHANGED <<closed, worker, row, links, reading, receivable, bank, walletStatus>>
    BY <1>7 DEF Sell
  <2>2. wallet' \in Int /\ sold' \subseteq Sales /\ paid' \subseteq Prizes
    BY <1>5, <2>1 DEF IInv, TypeOK
  <2> QED
    BY <1>6, <2>1, <2>2
<1>8. ASSUME NEW p \in Prizes, PayPrize(p) PROVE Rows'
  <2>1. /\ paid' = paid \cup {p} /\ wallet' = wallet + Prize /\ sold' = sold
        /\ UNCHANGED <<closed, worker, row, links, reading, receivable, bank, walletStatus>>
    BY <1>8 DEF PayPrize
  <2>2. wallet' \in Int /\ sold' \subseteq Sales /\ paid' \subseteq Prizes
    BY <1>5, <2>1 DEF IInv, TypeOK
  <2> QED
    BY <1>6, <2>1, <2>2
<1> QED
  BY <1>1, <1>2, <1>3, <1>4, <1>7, <1>8 DEF AgentSteps

\* So do the settlement at the bank, the recovery and the wallet's status.
LEMMA FinanceKeeps ==
  ASSUME IInv, FinanceSteps
  PROVE  Rows'
<1>1. ASSUME NEW d \in AllDays, SettleBank(d) PROVE Rows'
  <2>1. /\ UNCHANGED <<closed, worker, credits, reading, wallet, walletStatus, sold, paid>> /\ PostCommission(d)
    BY <1>1 DEF SettleBank, trade
  <2>2. CASE IsSettled(d)
    <3>1. receivable' = receivable - NewCommission(d) /\ UNCHANGED <<row, settledBy, bank>>
      BY <1>1, <2>2 DEF SettleBank
    <3>2. receivable' \in Int
      BY <3>1, Amounts DEF IInv, TypeOK
    <3>3. TypeOK'
      BY <2>1, <3>1, <3>2, CommissionsKept DEF IInv, TypeOK
    <3> QED
      BY <2>1, <3>1, <3>3, RowsKept DEF IInv, Rows
  <2>3. CASE ~IsSettled(d)
    <3>1. /\ receivable' = receivable - NewCommission(d) - Due(d) /\ bank' = bank + Due(d)
          /\ settledBy' = [settledBy EXCEPT ![d] = "BANK"] /\ row' = [row EXCEPT ![d] = "RECEIVED"]
      BY <1>1, <2>3 DEF SettleBank
    <3>2. receivable' \in Int /\ bank' \in Int
      BY <3>1, Amounts DEF IInv, TypeOK
    <3>3. /\ settledBy' \in [AllDays -> {"NONE", "WALLET", "BANK"}]
          /\ \A e \in AllDays : e # d => settledBy'[e] = settledBy[e]
      BY <3>1 DEF IInv, TypeOK
    <3>4. "RECEIVED" \notin Open
      BY DEF Open
    <3>5. /\ row' \in [AllDays -> Open \cup {"NONE", "AGENT_CONFIRMED", "RECEIVED", "CREDITED_TO_WALLET"}]
          /\ RowInv' /\ ClearedIsNotOwed'
      BY <2>1, <3>1, <3>3, <3>4, RowWritten DEF IInv
    <3>6. TypeOK'
      BY <2>1, <3>2, <3>3, <3>5, CommissionsKept DEF IInv, TypeOK
    <3> QED
      BY <3>5, <3>6 DEF Rows
  <2> QED
    BY <2>2, <2>3
<1>2. ASSUME NEW st \in {"ACTIVE", "FROZEN", "CLOSED"}, SetWalletStatus(st) PROVE Rows'
  <2>1. /\ UNCHANGED <<closed, worker, row, commissions, settledBy, credits, reading, receivable, wallet, bank, sold, paid>>
        /\ walletStatus' = st
    BY <1>2 DEF SetWalletStatus, links, trade, books
  <2>2. TypeOK'
    BY <2>1 DEF IInv, TypeOK
  <2> QED
    BY <2>1, <2>2, RowsKept DEF IInv, Rows
<1>3. ASSUME NEW d \in AllDays, CreditNegative(d) PROVE Rows'
  <2>1. /\ UNCHANGED <<closed, worker, settledBy, reading, bank, walletStatus, sold, paid>> /\ PostCommission(d)
    BY <1>3 DEF CreditNegative, trade
  <2>2. CASE d \in credits
    <3>1. receivable' = receivable - NewCommission(d) /\ UNCHANGED <<row, credits, wallet>>
      BY <1>3, <2>2 DEF CreditNegative
    <3>2. receivable' \in Int
      BY <3>1, Amounts DEF IInv, TypeOK
    <3>3. TypeOK'
      BY <2>1, <3>1, <3>2, CommissionsKept DEF IInv, TypeOK
    <3> QED
      BY <2>1, <3>1, <3>3, RowsKept DEF IInv, Rows
  <2>3. CASE d \notin credits
    <3>1. /\ receivable' = receivable - NewCommission(d) - Due(d) /\ wallet' = wallet - Due(d)
          /\ credits' = credits \cup {d} /\ row' = [row EXCEPT ![d] = "CREDITED_TO_WALLET"]
      BY <1>3, <2>3 DEF CreditNegative
    <3>2. receivable' \in Int /\ wallet' \in Int
      BY <3>1, Amounts DEF IInv, TypeOK
    <3>3. \A e \in AllDays : e # d => (e \in credits' => e \in credits)
      BY <3>1
    <3>4. "CREDITED_TO_WALLET" \notin Open
      BY DEF Open
    <3>5. /\ row' \in [AllDays -> Open \cup {"NONE", "AGENT_CONFIRMED", "RECEIVED", "CREDITED_TO_WALLET"}]
          /\ RowInv' /\ ClearedIsNotOwed'
      BY <2>1, <3>1, <3>3, <3>4, RowWritten DEF IInv
    <3>6. TypeOK'
      BY <2>1, <3>1, <3>2, <3>5, CommissionsKept DEF IInv, TypeOK
    <3> QED
      BY <3>5, <3>6 DEF Rows
  <2> QED
    BY <2>2, <2>3
<1>4. ASSUME NEW d \in AllDays, EnsureCommission(d) PROVE Rows'
  <2>1. /\ UNCHANGED <<closed, worker, settledBy, credits, reading, wallet, bank, walletStatus, sold, paid>>
        /\ PostCommission(d) /\ receivable' = receivable - NewCommission(d)
        /\ row[d] # "NONE" /\ \E s : row' = [row EXCEPT ![d] = s] /\ (s = row[d] \/ s = "RECEIVED")
    BY <1>4 DEF EnsureCommission, Unbooked, trade
  <2>2. PICK s : row' = [row EXCEPT ![d] = s] /\ (s = row[d] \/ s = "RECEIVED")
    BY <2>1
  <2>3. /\ s \in Open \cup {"AGENT_CONFIRMED", "RECEIVED", "CREDITED_TO_WALLET"}
        /\ s \in Open => s = row[d]
    BY <2>1, <2>2 DEF Open, IInv, TypeOK
  <2>4. s \in Open => settledBy[d] = "NONE" /\ d \notin credits
    BY <2>3 DEF IInv, ClearedIsNotOwed
  <2>5. /\ row' \in [AllDays -> Open \cup {"NONE", "AGENT_CONFIRMED", "RECEIVED", "CREDITED_TO_WALLET"}]
        /\ RowInv' /\ ClearedIsNotOwed'
    BY <2>1, <2>2, <2>3, <2>4, RowWritten DEF IInv
  <2>6. receivable' \in Int
    BY <2>1, Amounts DEF IInv, TypeOK
  <2>7. TypeOK'
    BY <2>1, <2>5, <2>6, CommissionsKept DEF IInv, TypeOK
  <2> QED
    BY <2>5, <2>7 DEF Rows
<1> QED
  BY <1>1, <1>2, <1>3, <1>4 DEF FinanceSteps, Recover

-----------------------------------------------------------------------------
(* Clearing *)

\* A step clears no day, settles one that is due or credits one that is not, and the one
\* it takes was not cleared before.
Settles(d) ==
    /\ ~Cleared(d) /\ Due(d) > 0
    /\ \E way \in {"WALLET", "BANK"} : settledBy' = [settledBy EXCEPT ![d] = way]
    /\ credits' = credits /\ bank' \in {bank, bank + Due(d)}

Credits(d) ==
    /\ ~Cleared(d) /\ Due(d) < 0
    /\ credits' = credits \cup {d} /\ UNCHANGED <<settledBy, bank>>

ClearsOne == UNCHANGED <<settledBy, credits, bank>> \/ \E d \in AllDays : Settles(d) \/ Credits(d)

\* A step clears nothing, or one day in one way.
LEMMA ClearingStep ==
  ASSUME IInv, [Next]_vars
  PROVE  ClearsOne
<1>1. CASE WorkerSteps
  BY <1>1 DEF WorkerSteps, CloseDay, WorkerStops, WorkerStarts, Sweep, MarkOverdue, links, books, ClearsOne
<1>2. CASE AgentSteps
  <2>1. ASSUME NEW d \in AllDays, SettleFromWallet(d) PROVE ClearsOne
    <3>1. ~Cleared(d)
      BY <2>1 DEF SettleFromWallet, IInv, ClearedIsNotOwed, Cleared
    <3>2. Settles(d)
      BY <2>1, <3>1 DEF SettleFromWallet, Settles
    <3> QED
      BY <3>2 DEF ClearsOne
  <2>2. ASSUME NEW q \in Requests, ConfirmPayment(q) \/ GiveUp(q) \/ \E d \in AllDays : BeginConfirm(q, d)
        PROVE  ClearsOne
    BY <2>2 DEF ConfirmPayment, GiveUp, BeginConfirm, links, books, ClearsOne
  <2>3. ASSUME (\E s \in Sales : Sell(s)) \/ \E p \in Prizes : PayPrize(p) PROVE ClearsOne
    BY <2>3 DEF Sell, PayPrize, links, ClearsOne
  <2> QED
    BY <1>2, <2>1, <2>2, <2>3 DEF AgentSteps
<1>3. CASE FinanceSteps
  <2>1. ASSUME NEW d \in AllDays, SettleBank(d) PROVE ClearsOne
    <3>1. CASE IsSettled(d)
      BY <2>1, <3>1 DEF SettleBank, ClearsOne
    <3>2. CASE ~IsSettled(d)
      <4>1. Due(d) > 0 /\ Due(d) \in Int
        BY <2>1, Amounts DEF SettleBank
      <4>2. ~Cleared(d)
        BY <3>2, <4>1 DEF IsSettled, IInv, SignInv, Cleared
      <4>3. Settles(d)
        BY <2>1, <3>2, <4>1, <4>2 DEF SettleBank, Settles
      <4> QED
        BY <4>3 DEF ClearsOne
    <3> QED
      BY <3>1, <3>2
  <2>2. ASSUME NEW d \in AllDays, CreditNegative(d) PROVE ClearsOne
    <3>1. CASE d \in credits
      BY <2>2, <3>1 DEF CreditNegative, ClearsOne
    <3>2. CASE d \notin credits
      <4>1. Due(d) < 0 /\ Due(d) \in Int
        BY <2>2, Amounts DEF CreditNegative
      <4>2. ~Cleared(d)
        BY <3>2, <4>1 DEF IInv, SignInv, Cleared
      <4>3. Credits(d)
        BY <2>2, <3>2, <4>1, <4>2 DEF CreditNegative, Credits
      <4> QED
        BY <4>3 DEF ClearsOne
    <3> QED
      BY <3>1, <3>2
  <2>3. ASSUME (\E d \in AllDays : EnsureCommission(d))
                 \/ \E st \in {"ACTIVE", "FROZEN", "CLOSED"} : SetWalletStatus(st)
        PROVE  ClearsOne
    BY <2>3 DEF EnsureCommission, SetWalletStatus, links, books, ClearsOne
  <2> QED
    BY <1>3, <2>1, <2>2, <2>3 DEF FinanceSteps, Recover
<1>4. CASE UNCHANGED vars
  BY <1>4 DEF vars, links, books, ClearsOne
<1> QED
  BY <1>1, <1>2, <1>3, <1>4 DEF Next

\* What is settled stays owed and what is credited was owed to the agent.
LEMMA SignsKept ==
  ASSUME IInv, ClearsOne
  PROVE  SignInv'
<1>1. settledBy \in [AllDays -> {"NONE", "WALLET", "BANK"}]
  BY DEF IInv, TypeOK
<1>2. CASE UNCHANGED <<settledBy, credits, bank>>
  BY <1>2 DEF IInv, SignInv, Due, Commission
<1>3. ASSUME NEW d \in AllDays, Settles(d) PROVE SignInv'
  BY <1>1, <1>3 DEF Settles, IInv, SignInv, Due, Commission
<1>4. ASSUME NEW d \in AllDays, Credits(d) PROVE SignInv'
  BY <1>4 DEF Credits, IInv, SignInv, Due, Commission
<1> QED
  BY <1>2, <1>3, <1>4 DEF ClearsOne

-----------------------------------------------------------------------------
(* The books *)

\* Every set of days has finite sums of every amount.
LEMMA DayTotals ==
  ASSUME NEW S \in SUBSET AllDays
  PROVE  /\ Total(Balances, S) \in Int /\ Total(Dues, S) \in Int /\ Total(CommissionsOf, S) \in Int
         /\ \A d \in AllDays \ S :
               /\ Total(Balances, S \cup {d}) = Total(Balances, S) + (Gross[d] - PaidOut[d])
               /\ Total(Dues, S \cup {d}) = Total(Dues, S) + Due(d)
               /\ Total(CommissionsOf, S \cup {d}) = Total(CommissionsOf, S) + Commission(d)
<1>1. IsFiniteSet(S)
  <2>1. IsFiniteSet(1 .. Days)
    BY AgentMoneyAssumption, FS_Interval
  <2> QED
    BY <2>1, FS_Subset DEF AllDays
<1>2. \A d \in AllDays : /\ Balances[d] \in Int /\ Balances[d] = Gross[d] - PaidOut[d]
                         /\ Dues[d] \in Int /\ Dues[d] = Due(d)
                         /\ CommissionsOf[d] \in Int /\ CommissionsOf[d] = Commission(d)
  BY Amounts DEF Balances, Dues, CommissionsOf
<1>3. \A d \in AllDays \ S :
         /\ Total(Balances, S \cup {d}) = Total(Balances, S) + Balances[d]
         /\ Total(Dues, S \cup {d}) = Total(Dues, S) + Dues[d]
         /\ Total(CommissionsOf, S \cup {d}) = Total(CommissionsOf, S) + CommissionsOf[d]
  <2> SUFFICES ASSUME NEW d \in AllDays \ S
               PROVE  /\ Total(Balances, S \cup {d}) = Total(Balances, S) + Balances[d]
                      /\ Total(Dues, S \cup {d}) = Total(Dues, S) + Dues[d]
                      /\ Total(CommissionsOf, S \cup {d}) = Total(CommissionsOf, S) + CommissionsOf[d]
    OBVIOUS
  <2>1. \A e \in S \cup {d} : Balances[e] \in Int /\ Dues[e] \in Int /\ CommissionsOf[e] \in Int
    BY <1>2
  <2>2. d \notin S
    OBVIOUS
  <2>3. Total(Balances, S \cup {d}) = Total(Balances, S) + Balances[d]
    BY <1>1, <2>1, <2>2, TotalPlus
  <2>4. Total(Dues, S \cup {d}) = Total(Dues, S) + Dues[d]
    BY <1>1, <2>1, <2>2, TotalPlus
  <2>5. Total(CommissionsOf, S \cup {d}) = Total(CommissionsOf, S) + CommissionsOf[d]
    BY <1>1, <2>1, <2>2, TotalPlus
  <2> QED
    BY <2>3, <2>4, <2>5
<1>4. Total(Balances, S) \in Int /\ Total(Dues, S) \in Int /\ Total(CommissionsOf, S) \in Int
  BY <1>1, <1>2, TotalWithout
<1> QED
  BY <1>2, <1>3, <1>4

\* Rows, links and days that the books speak of.
LEMMA BookedDays ==
  ASSUME TypeOK
  PROVE  /\ commissions \in SUBSET AllDays /\ credits \in SUBSET AllDays /\ ClearedDays \in SUBSET AllDays
         /\ \A way : DaysSettledBy(way) \in SUBSET AllDays
         /\ 1 .. closed \in SUBSET AllDays /\ closed \in Nat
         /\ receivable \in Int /\ wallet \in Int /\ bank \in Int
         /\ Charge \in Int /\ Prize \in Int /\ Funds \in Int
<1>1. closed \in Nat /\ 1 .. closed \subseteq AllDays
  BY AgentMoneyAssumption DEF TypeOK, AllDays
<1>2. Charge \in Int
  <2>1. Price * Percent \in Int /\ Price \in Int
    BY AgentMoneyAssumption
  <2> QED
    BY <2>1 DEF Charge
<1> QED
  BY <1>1, <1>2, AgentMoneyAssumption DEF TypeOK, ClearedDays, DaysSettledBy

\* A commission is taken off the receivable with the link that says so, and once.
LEMMA CommissionBooked ==
  ASSUME TypeOK, NEW d \in AllDays, PostCommission(d)
  PROVE  Total(CommissionsOf, commissions') = Total(CommissionsOf, commissions) + NewCommission(d)
<1>1. commissions \in SUBSET AllDays /\ Total(CommissionsOf, commissions) \in Int
  BY BookedDays, DayTotals
<1>2. Commission(d) \in Nat
  BY Amounts
<1>3. CASE d \in commissions
  <2>1. commissions' = commissions /\ NewCommission(d) = 0
    BY <1>3 DEF PostCommission, NewCommission
  <2> QED
    BY <1>1, <2>1
<1>4. CASE d \notin commissions /\ Commission(d) > 0
  <2>1. commissions' = commissions \cup {d} /\ NewCommission(d) = Commission(d)
    BY <1>4 DEF PostCommission, NewCommission
  <2> QED
    BY <1>1, <1>4, <2>1, DayTotals
<1>5. CASE d \notin commissions /\ ~(Commission(d) > 0)
  <2>1. commissions' = commissions /\ NewCommission(d) = 0
    BY <1>2, <1>5 DEF PostCommission, NewCommission
  <2> QED
    BY <1>1, <2>1
<1> QED
  BY <1>3, <1>4, <1>5

\* A step that closes no day, links nothing and moves no money.
LEMMA BooksKept ==
  ASSUME BooksAgree, UNCHANGED <<closed, commissions, settledBy, credits, receivable, wallet, bank, sold, paid>>
  PROVE  BooksAgree'
BY DEF BooksAgree, ReceivableAgrees, BankAgrees, WalletAgrees, Traded, ClearedDays, Cleared, DaysSettledBy, Total

\* A day with a row is booked: its commission, and what is due when this clears it.
LEMMA ReceivableKept ==
  ASSUME TypeOK, ClosedInv, ReceivableAgrees, NEW d \in AllDays, row[d] # "NONE", PostCommission(d), closed' = closed,
         \/ ClearedDays' = ClearedDays /\ receivable' = receivable - NewCommission(d)
         \/ /\ d \notin ClearedDays /\ ClearedDays' = ClearedDays \cup {d}
            /\ receivable' = receivable - NewCommission(d) - Due(d)
  PROVE  ReceivableAgrees'
<1>1. /\ Total(Balances, 1 .. closed) \in Int /\ Total(CommissionsOf, commissions) \in Int
      /\ Total(Dues, ClearedDays) \in Int /\ receivable \in Int
      /\ Due(d) \in Int /\ NewCommission(d) \in Int
      /\ d \notin ClearedDays => Total(Dues, ClearedDays \cup {d}) = Total(Dues, ClearedDays) + Due(d)
  BY BookedDays, DayTotals, Amounts
<1>2. Total(CommissionsOf, commissions') = Total(CommissionsOf, commissions) + NewCommission(d)
  BY CommissionBooked
<1>3. receivable' = Total(Balances, 1 .. closed) - Total(CommissionsOf, commissions') - Total(Dues, ClearedDays')
  <2>1. receivable = Total(Balances, 1 .. closed) - Total(CommissionsOf, commissions) - Total(Dues, ClearedDays)
    BY DEF ReceivableAgrees
  <2>2. CASE ClearedDays' = ClearedDays /\ receivable' = receivable - NewCommission(d)
    <3>1. Total(Dues, ClearedDays') = Total(Dues, ClearedDays)
      BY <2>2
    <3> QED
      BY <1>1, <1>2, <2>1, <2>2, <3>1
  <2>3. CASE /\ d \notin ClearedDays /\ ClearedDays' = ClearedDays \cup {d}
             /\ receivable' = receivable - NewCommission(d) - Due(d)
    <3>1. Total(Dues, ClearedDays') = Total(Dues, ClearedDays) + Due(d)
      BY <1>1, <2>3
    <3> QED
      BY <1>1, <1>2, <2>1, <2>3, <3>1
  <2> QED
    BY <2>2, <2>3
<1>4. d \in 1 .. closed
  BY BookedDays, AgentMoneyAssumption DEF ClosedInv, AllDays
<1>5. commissions' \cup ClearedDays' \subseteq 1 .. closed
  BY <1>4 DEF ReceivableAgrees, PostCommission
<1> QED
  BY <1>3, <1>5 DEF ReceivableAgrees, Total, Balances, CommissionsOf, Dues, Due, Commission

\* Clearing a day adds it to the cleared ones, under the way it was cleared.
LEMMA SettledDays ==
  ASSUME TypeOK, NEW d \in AllDays, ~Cleared(d), NEW way \in {"WALLET", "BANK"},
         settledBy' = [settledBy EXCEPT ![d] = way], credits' = credits
  PROVE  /\ ClearedDays' = ClearedDays \cup {d} /\ d \notin ClearedDays
         /\ DaysSettledBy(way)' = DaysSettledBy(way) \cup {d} /\ d \notin DaysSettledBy(way)
         /\ \A other \in {"WALLET", "BANK"} : other # way => DaysSettledBy(other)' = DaysSettledBy(other)
<1>1. settledBy'[d] = way /\ \A e \in AllDays : e # d => settledBy'[e] = settledBy[e]
  BY DEF TypeOK
<1> QED
  BY <1>1 DEF ClearedDays, Cleared, DaysSettledBy

\* A credit adds its day to what is credited and to nothing else.
LEMMA CreditedDays ==
  ASSUME NEW d \in AllDays, ~Cleared(d), settledBy' = settledBy, credits' = credits \cup {d}
  PROVE  /\ ClearedDays' = ClearedDays \cup {d} /\ d \notin ClearedDays /\ d \notin credits
         /\ \A way : DaysSettledBy(way)' = DaysSettledBy(way)
BY DEF ClearedDays, Cleared, DaysSettledBy

\* A step that clears nothing leaves the sets of cleared days alone.
LEMMA NothingCleared ==
  ASSUME UNCHANGED <<settledBy, credits>>
  PROVE  ClearedDays' = ClearedDays /\ \A way : DaysSettledBy(way)' = DaysSettledBy(way)
BY DEF ClearedDays, Cleared, DaysSettledBy

\* The step that clears a day, by the wallet, by the bank or by a credit.
LEMMA ClearingBooked ==
  ASSUME TypeOK, ClosedInv, BooksAgree, NEW d \in AllDays, row[d] # "NONE", PostCommission(d),
         UNCHANGED <<closed, sold, paid>>, ~Cleared(d),
         receivable' = receivable - NewCommission(d) - Due(d),
         \/ /\ settledBy' = [settledBy EXCEPT ![d] = "WALLET"] /\ credits' = credits
            /\ wallet' = wallet - Due(d) /\ bank' = bank
         \/ /\ settledBy' = [settledBy EXCEPT ![d] = "BANK"] /\ credits' = credits
            /\ wallet' = wallet /\ bank' = bank + Due(d)
         \/ /\ settledBy' = settledBy /\ credits' = credits \cup {d}
            /\ wallet' = wallet - Due(d) /\ bank' = bank
  PROVE  BooksAgree'
<1> DEFINE byWallet == DaysSettledBy("WALLET")
           byBank   == DaysSettledBy("BANK")
<1>1. ClearedDays' = ClearedDays \cup {d} /\ d \notin ClearedDays
  BY SettledDays, CreditedDays
<1>2. ReceivableAgrees'
  BY <1>1, ReceivableKept DEF BooksAgree
<1>3. /\ bank = Total(Dues, byBank)
      /\ wallet = Traded - Total(Dues, byWallet) - Total(Dues, credits)
  BY DEF BooksAgree, BankAgrees, WalletAgrees
<1>4. Traded' = Traded /\ Dues' = Dues
  BY DEF Traded, Dues, Due, Commission, Charge
<1>5. /\ Total(Dues, byBank) \in Int /\ Total(Dues, byWallet) \in Int /\ Total(Dues, credits) \in Int
      /\ Due(d) \in Int /\ wallet \in Int /\ bank \in Int
      /\ \A S \in SUBSET AllDays : d \notin S => Total(Dues, S \cup {d}) = Total(Dues, S) + Due(d)
  BY BookedDays, DayTotals, Amounts
<1>6. Traded \in Int
  <2>1. sold \subseteq Sales /\ paid \subseteq Prizes
    BY DEF TypeOK
  <2>2. Cardinality(sold) \in Nat /\ Cardinality(paid) \in Nat
    BY <2>1, AgentMoneyAssumption, FS_Subset, FS_CardinalityType
  <2>3. Charge * Cardinality(sold) \in Int /\ Prize * Cardinality(paid) \in Int
    BY <2>2, BookedDays
  <2> QED
    BY <2>3, BookedDays DEF Traded
<1>7. byBank \in SUBSET AllDays /\ byWallet \in SUBSET AllDays /\ credits \in SUBSET AllDays
  BY BookedDays
<1>8. /\ bank' = Total(Dues, byBank')
      /\ wallet' = Traded - Total(Dues, byWallet') - Total(Dues, credits')
  <2>1. CASE /\ settledBy' = [settledBy EXCEPT ![d] = "WALLET"] /\ credits' = credits
             /\ wallet' = wallet - Due(d) /\ bank' = bank
    <3>1. byWallet' = byWallet \cup {d} /\ d \notin byWallet /\ byBank' = byBank
      BY <2>1, SettledDays
    <3>2. Total(Dues, byWallet') = Total(Dues, byWallet) + Due(d)
      BY <1>5, <1>7, <3>1
    <3> HIDE DEF byWallet, byBank
    <3> QED
      BY <1>3, <1>5, <1>6, <2>1, <3>1, <3>2
  <2>2. CASE /\ settledBy' = [settledBy EXCEPT ![d] = "BANK"] /\ credits' = credits
             /\ wallet' = wallet /\ bank' = bank + Due(d)
    <3>1. byBank' = byBank \cup {d} /\ d \notin byBank /\ byWallet' = byWallet
      BY <2>2, SettledDays
    <3>2. Total(Dues, byBank') = Total(Dues, byBank) + Due(d)
      BY <1>5, <1>7, <3>1
    <3> HIDE DEF byWallet, byBank
    <3> QED
      BY <1>3, <1>5, <1>6, <2>2, <3>1, <3>2
  <2>3. CASE /\ settledBy' = settledBy /\ credits' = credits \cup {d}
             /\ wallet' = wallet - Due(d) /\ bank' = bank
    <3>1. d \notin credits /\ byBank' = byBank /\ byWallet' = byWallet
      BY <2>3, CreditedDays
    <3>2. Total(Dues, credits') = Total(Dues, credits) + Due(d)
      BY <1>5, <1>7, <2>3, <3>1
    <3> HIDE DEF byWallet, byBank
    <3> QED
      BY <1>3, <1>5, <1>6, <2>3, <3>1, <3>2
  <2> QED
    BY <2>1, <2>2, <2>3
<1>9. BankAgrees' /\ WalletAgrees'
  BY <1>4, <1>8 DEF BankAgrees, WalletAgrees, Total
<1> QED
  BY <1>2, <1>9 DEF BooksAgree

\* A commission alone leaves the other accounts as they are.
LEMMA CommissionOnlyBooked ==
  ASSUME TypeOK, ClosedInv, BooksAgree, NEW d \in AllDays, row[d] # "NONE", PostCommission(d),
         UNCHANGED <<closed, sold, paid, settledBy, credits, wallet, bank>>,
         receivable' = receivable - NewCommission(d)
  PROVE  BooksAgree'
<1>1. ClearedDays' = ClearedDays /\ \A way : DaysSettledBy(way)' = DaysSettledBy(way)
  BY NothingCleared
<1>2. ReceivableAgrees'
  BY <1>1, ReceivableKept DEF BooksAgree
<1>3. BankAgrees' /\ WalletAgrees'
  BY <1>1 DEF BooksAgree, BankAgrees, WalletAgrees, Traded, Total
<1> QED
  BY <1>2, <1>3 DEF BooksAgree

\* Prepaid sales are charged and prizes credited one by one.
LEMMA TradeBooked ==
  ASSUME TypeOK, BooksAgree, (\E s \in Sales : Sell(s)) \/ \E p \in Prizes : PayPrize(p)
  PROVE  BooksAgree'
<1>1. UNCHANGED <<closed, commissions, settledBy, credits, receivable, bank>>
  BY DEF Sell, PayPrize, links
<1>2. ClearedDays' = ClearedDays /\ \A way : DaysSettledBy(way)' = DaysSettledBy(way)
  BY <1>1, NothingCleared
<1>3. ReceivableAgrees' /\ BankAgrees'
  BY <1>1, <1>2 DEF BooksAgree, ReceivableAgrees, BankAgrees, Total
<1> DEFINE n == Cardinality(sold)
           m == Cardinality(paid)
           settlements == Total(Dues, DaysSettledBy("WALLET"))
           credited == Total(Dues, credits)
<1>4. IsFiniteSet(sold) /\ IsFiniteSet(paid) /\ n \in Nat /\ m \in Nat
  <2>1. sold \subseteq Sales /\ paid \subseteq Prizes
    BY DEF TypeOK
  <2> QED
    BY <2>1, AgentMoneyAssumption, FS_Subset, FS_CardinalityType
<1>5. /\ settlements \in Int /\ credited \in Int /\ wallet \in Int
      /\ Charge \in Int /\ Prize \in Int /\ Funds \in Int
  BY BookedDays, DayTotals
<1>6. settlements' = settlements /\ credited' = credited
  BY <1>1, <1>2 DEF Total
<1>7. wallet = (Funds - Charge * n + Prize * m) - settlements - credited
  BY DEF BooksAgree, WalletAgrees, Traded
<1>8. \/ wallet' = wallet - Charge /\ n' = n + 1 /\ m' = m
      \/ wallet' = wallet + Prize /\ n' = n /\ m' = m + 1
  <2>1. ASSUME NEW s \in Sales, Sell(s) PROVE wallet' = wallet - Charge /\ n' = n + 1 /\ m' = m
    <3>1. s \notin sold /\ sold' = sold \cup {s} /\ wallet' = wallet - Charge /\ paid' = paid
      BY <2>1 DEF Sell
    <3> QED
      BY <1>4, <3>1, FS_AddElement
  <2>2. ASSUME NEW p \in Prizes, PayPrize(p) PROVE wallet' = wallet + Prize /\ n' = n /\ m' = m + 1
    <3>1. p \notin paid /\ paid' = paid \cup {p} /\ wallet' = wallet + Prize /\ sold' = sold
      BY <2>2 DEF PayPrize
    <3> QED
      BY <1>4, <3>1, FS_AddElement
  <2> QED
    BY <2>1, <2>2
<1> HIDE DEF n, m, settlements, credited
<1>9. /\ Charge * n \in Int /\ Prize * m \in Int
      /\ Charge * (n + 1) = Charge * n + Charge /\ Prize * (m + 1) = Prize * m + Prize
  BY <1>4, <1>5
<1>10. wallet' = (Funds - Charge * n' + Prize * m') - settlements' - credited'
  BY <1>5, <1>6, <1>7, <1>8, <1>9
<1>11. WalletAgrees'
  BY <1>10 DEF WalletAgrees, Traded, n, m, settlements, credited, Charge
<1> QED
  BY <1>3, <1>11 DEF BooksAgree

\* The next day is closed: what was sold and paid out on it is outstanding.
LEMMA CloseDayBooked ==
  ASSUME TypeOK, BooksAgree, CloseDay
  PROVE  BooksAgree'
<1>1. /\ UNCHANGED <<commissions, settledBy, credits, wallet, bank, sold, paid>>
      /\ closed' = closed + 1 /\ closed < Days
      /\ receivable' = receivable + Gross[closed + 1] - PaidOut[closed + 1]
  BY DEF CloseDay, links, trade
<1>2. ClearedDays' = ClearedDays /\ \A way : DaysSettledBy(way)' = DaysSettledBy(way)
  BY <1>1, NothingCleared
<1>3. BankAgrees' /\ WalletAgrees'
  BY <1>1, <1>2 DEF BooksAgree, BankAgrees, WalletAgrees, Traded, Total
<1> DEFINE d == closed + 1
           S == 1 .. closed
<1>4. d \in AllDays /\ d \notin S /\ S \in SUBSET AllDays /\ 1 .. closed' = S \cup {d}
  <2>1. closed \in Nat /\ Days \in Nat /\ closed' = closed + 1 /\ closed < Days
    BY <1>1, BookedDays, AgentMoneyAssumption
  <2>2. S \in SUBSET AllDays
    BY BookedDays
  <2>3. d \in AllDays
    BY <2>1 DEF AllDays
  <2>4. d \notin S
    BY <2>1
  <2>5. 1 .. (closed + 1) = (1 .. closed) \cup {closed + 1}
    BY <2>1
  <2> QED
    BY <2>1, <2>2, <2>3, <2>4, <2>5
<1> HIDE DEF d, S
<1>5. Total(Balances, S \cup {d}) = Total(Balances, S) + (Gross[d] - PaidOut[d])
  BY <1>4, DayTotals
<1>6. Total(Balances, 1 .. closed') = Total(Balances, S) + (Gross[d] - PaidOut[d])
  BY <1>4, <1>5
<1>7. /\ Total(Balances, S) \in Int /\ Total(CommissionsOf, commissions) \in Int
      /\ Total(Dues, ClearedDays) \in Int /\ Gross[d] \in Int /\ PaidOut[d] \in Int
  BY <1>4, BookedDays, DayTotals, Amounts
<1>8. receivable = Total(Balances, S) - Total(CommissionsOf, commissions) - Total(Dues, ClearedDays)
  BY DEF BooksAgree, ReceivableAgrees, S
<1>9. receivable' = receivable + Gross[d] - PaidOut[d]
  BY <1>1 DEF d
<1>10. receivable' = Total(Balances, 1 .. closed') - Total(CommissionsOf, commissions) - Total(Dues, ClearedDays)
  BY <1>6, <1>7, <1>8, <1>9
<1>11. commissions \cup ClearedDays \subseteq 1 .. closed'
  BY <1>4 DEF BooksAgree, ReceivableAgrees, S
<1>12. ReceivableAgrees'
  BY <1>1, <1>2, <1>10, <1>11 DEF ReceivableAgrees, Total
<1> QED
  BY <1>3, <1>12 DEF BooksAgree

\* Every step keeps the books.
LEMMA BooksStep ==
  ASSUME IInv, [Next]_vars
  PROVE  BooksAgree'
<1>0. TypeOK /\ ClosedInv /\ RowInv /\ SignInv /\ ClearedIsNotOwed /\ BooksAgree
  BY DEF IInv
<1>1. CASE WorkerSteps
  <2>1. ASSUME WorkerStops \/ WorkerStarts \/ Sweep \/ \E d \in AllDays : MarkOverdue(d) PROVE BooksAgree'
    BY <1>0, <2>1, BooksKept DEF WorkerStops, WorkerStarts, Sweep, MarkOverdue, links, books, trade
  <2> QED
    BY <1>0, <1>1, <2>1, CloseDayBooked DEF WorkerSteps
<1>2. CASE AgentSteps
  <2>1. ASSUME NEW q \in Requests, ConfirmPayment(q) \/ GiveUp(q) \/ \E d \in AllDays : BeginConfirm(q, d)
        PROVE  BooksAgree'
    BY <1>0, <2>1, BooksKept DEF ConfirmPayment, GiveUp, BeginConfirm, links, books, trade
  <2>2. ASSUME NEW d \in AllDays, SettleFromWallet(d) PROVE BooksAgree'
    <3>1. row[d] # "NONE" /\ ~Cleared(d)
      BY <1>0, <2>2 DEF SettleFromWallet, ClearedIsNotOwed, Cleared, Open
    <3> QED
      BY <1>0, <2>2, <3>1, ClearingBooked DEF SettleFromWallet, trade
  <2> QED
    BY <1>0, <1>2, <2>1, <2>2, TradeBooked DEF AgentSteps
<1>3. CASE FinanceSteps
  <2>1. ASSUME NEW d \in AllDays, SettleBank(d) PROVE BooksAgree'
    <3>1. /\ row[d] # "NONE" /\ PostCommission(d) /\ UNCHANGED <<closed, credits, wallet, sold, paid>>
      BY <2>1 DEF SettleBank, trade
    <3>2. CASE IsSettled(d)
      BY <1>0, <2>1, <3>1, <3>2, CommissionOnlyBooked DEF SettleBank
    <3>3. CASE ~IsSettled(d)
      <4>1. Due(d) > 0 /\ Due(d) \in Int
        BY <2>1, Amounts DEF SettleBank
      <4>2. ~Cleared(d)
        BY <1>0, <3>3, <4>1 DEF IsSettled, SignInv, Cleared
      <4> QED
        BY <1>0, <2>1, <3>1, <3>3, <4>2, ClearingBooked DEF SettleBank
    <3> QED
      BY <3>2, <3>3
  <2>2. ASSUME NEW d \in AllDays, CreditNegative(d) PROVE BooksAgree'
    <3>1. /\ row[d] # "NONE" /\ PostCommission(d) /\ UNCHANGED <<closed, settledBy, bank, sold, paid>>
      BY <2>2 DEF CreditNegative, Unbooked, trade
    <3>2. CASE d \in credits
      BY <1>0, <2>2, <3>1, <3>2, CommissionOnlyBooked DEF CreditNegative
    <3>3. CASE d \notin credits
      <4>1. Due(d) < 0 /\ Due(d) \in Int
        BY <2>2, Amounts DEF CreditNegative
      <4>2. ~Cleared(d)
        BY <1>0, <3>3, <4>1 DEF SignInv, Cleared
      <4> QED
        BY <1>0, <2>2, <3>1, <3>3, <4>2, ClearingBooked DEF CreditNegative
    <3> QED
      BY <3>2, <3>3
  <2>3. ASSUME NEW d \in AllDays, EnsureCommission(d) PROVE BooksAgree'
    BY <1>0, <2>3, CommissionOnlyBooked DEF EnsureCommission, Unbooked, trade
  <2>4. ASSUME NEW st \in {"ACTIVE", "FROZEN", "CLOSED"}, SetWalletStatus(st) PROVE BooksAgree'
    BY <1>0, <2>4, BooksKept DEF SetWalletStatus, links, books, trade
  <2> QED
    BY <1>3, <2>1, <2>2, <2>3, <2>4 DEF FinanceSteps, Recover
<1>4. CASE UNCHANGED vars
  BY <1>0, <1>4, BooksKept DEF vars, links, books, trade
<1> QED
  BY <1>1, <1>2, <1>3, <1>4 DEF Next

\* A row appears for a day that is closed, and no day is opened again.
LEMMA ClosedStep ==
  ASSUME IInv, [Next]_vars
  PROVE  ClosedInv'
<1>0. /\ closed \in Nat /\ \A d \in AllDays : d \in Nat /\ (row[d] # "NONE" => d <= closed)
      /\ row \in [AllDays -> Open \cup {"NONE", "AGENT_CONFIRMED", "RECEIVED", "CREDITED_TO_WALLET"}]
  BY BookedDays, AgentMoneyAssumption DEF IInv, ClosedInv, TypeOK, AllDays
<1>1. ASSUME row' = row, closed' = closed \/ closed' = closed + 1 PROVE ClosedInv'
  BY <1>0, <1>1 DEF ClosedInv
<1>2. ASSUME NEW d \in AllDays, d <= closed, NEW s, row' = [row EXCEPT ![d] = s], closed' = closed
      PROVE  ClosedInv'
  BY <1>0, <1>2 DEF ClosedInv
<1>3. CASE WorkerSteps
  <2>1. ASSUME Sweep PROVE ClosedInv'
    <3>1. PICK d \in Swept : row' = [row EXCEPT ![d] = "PENDING"]
      BY <2>1 DEF Sweep
    <3>2. d \in AllDays /\ d = closed /\ closed' = closed
      BY <2>1, <3>1 DEF Swept, Sweep
    <3>3. d <= closed
      BY <1>0, <3>2
    <3> QED
      BY <1>2, <3>1, <3>2, <3>3
  <2>2. ASSUME NEW d \in AllDays, MarkOverdue(d) PROVE ClosedInv'
    BY <1>0, <1>2, <2>2 DEF MarkOverdue, StillPending
  <2> QED
    BY <1>1, <1>3, <2>1, <2>2 DEF WorkerSteps, CloseDay, WorkerStops, WorkerStarts
<1>4. CASE AgentSteps
  <2>1. ASSUME NEW q \in Requests, ConfirmPayment(q) PROVE ClosedInv'
    <3>1. reading[q] \in AllDays /\ row[reading[q]] # "NONE"
      BY <2>1, AgentMoneyAssumption DEF ConfirmPayment, IInv, TypeOK, RowInv, AllDays
    <3> QED
      BY <1>0, <1>2, <2>1, <3>1 DEF ConfirmPayment
  <2>2. ASSUME NEW d \in AllDays, SettleFromWallet(d) PROVE ClosedInv'
    BY <1>0, <1>2, <2>2 DEF SettleFromWallet, Open
  <2> QED
    BY <1>1, <1>4, <2>1, <2>2 DEF AgentSteps, GiveUp, BeginConfirm, Sell, PayPrize
<1>5. CASE FinanceSteps
  <2>1. ASSUME NEW d \in AllDays, SettleBank(d) \/ CreditNegative(d) \/ EnsureCommission(d) PROVE ClosedInv'
    <3>1. d <= closed /\ closed' = closed /\ (row' = row \/ \E s : row' = [row EXCEPT ![d] = s])
      BY <1>0, <2>1 DEF SettleBank, CreditNegative, EnsureCommission, Unbooked
    <3> QED
      BY <1>1, <1>2, <3>1
  <2> QED
    BY <1>1, <1>5, <2>1 DEF FinanceSteps, Recover, SetWalletStatus
<1>6. CASE UNCHANGED vars
  BY <1>1, <1>6 DEF vars
<1> QED
  BY <1>3, <1>4, <1>5, <1>6 DEF Next

-----------------------------------------------------------------------------
(* The theorems *)

\* No day is over, no account is touched.
LEMMA Initially == Init => IInv
<1> SUFFICES ASSUME Init PROVE IInv
  OBVIOUS
<1>1. TypeOK
  BY AgentMoneyAssumption DEF Init, TypeOK
<1>2. /\ ClearedDays = {} /\ DaysSettledBy("WALLET") = {} /\ DaysSettledBy("BANK") = {}
      /\ 1 .. closed = {} /\ commissions = {} /\ credits = {} /\ sold = {} /\ paid = {}
  BY DEF Init, ClearedDays, Cleared, DaysSettledBy
<1>3. /\ Total(Balances, {}) = 0 /\ Total(CommissionsOf, {}) = 0 /\ Total(Dues, {}) = 0
      /\ Cardinality({}) = 0
  BY TotalEmpty, FS_EmptySet
<1>4. Charge * 0 = 0 /\ Prize * 0 = 0 /\ Funds \in Int
  BY <1>1, BookedDays
<1>5. BooksAgree
  BY <1>2, <1>3, <1>4 DEF Init, BooksAgree, ReceivableAgrees, BankAgrees, WalletAgrees, Traded
<1> QED
  BY <1>1, <1>5 DEF Init, IInv, ClosedInv, RowInv, SignInv, ClearedIsNotOwed, Open

\* Every step keeps the invariant.
LEMMA StepKeeps == IInv /\ [Next]_vars => IInv'
<1> SUFFICES ASSUME IInv, [Next]_vars PROVE IInv'
  OBVIOUS
<1>1. CASE Next
  <2>1. Rows'
    BY <1>1, WorkerKeeps, AgentKeeps, FinanceKeeps DEF Next
  <2> QED
    BY <2>1, ClearingStep, SignsKept, BooksStep, ClosedStep DEF IInv, Rows
<1>2. CASE UNCHANGED vars
  <2>1. UNCHANGED <<closed, worker, row, commissions, settledBy, credits, reading, receivable, wallet, bank, walletStatus, sold, paid>>
    BY <1>2 DEF vars, links, books, trade
  <2>2. TypeOK'
    BY <2>1 DEF IInv, TypeOK
  <2> QED
    BY <2>1, <2>2, ClearingStep, SignsKept, RowsKept, BooksStep, ClosedStep DEF IInv
<1> QED
  BY <1>1, <1>2

\* The whole invariant, of which each property below is a part.
LEMMA Invariant == Spec => []IInv
BY Initially, StepKeeps, PTL DEF Spec

\* Rows, links and balances stay in the states the code distinguishes, whatever the
\* days, the amounts and the rate.
THEOREM RemittancesTyped == Spec => []TypeOK
<1>1. IInv => TypeOK
  BY DEF IInv
<1> QED
  BY <1>1, Invariant, PTL

\* Receivable, bank and wallet hold what the links of the rows say, whatever the days, the
\* amounts and the rate, and however announcements, settlements and the recovery interleave.
THEOREM AgentBooksAgree == Spec => []BooksAgree
<1>1. IInv => BooksAgree
  BY DEF IInv
<1> QED
  BY <1>1, Invariant, PTL

\* No day that was settled or credited is asked for, although announcements are written
\* over rows that were settled since they were read.
THEOREM NothingOwedTwice == Spec => []ClearedIsNotOwed
<1>1. IInv => ClearedIsNotOwed
  BY DEF IInv
<1> QED
  BY <1>1, Invariant, PTL

\* However announcements, settlements and the recovery interleave, a day is cleared once
\* and the bank receives what is due for it once.
THEOREM DaysClearedOnce == Spec => ClearedOnce
<1>1. ASSUME IInv, [Next]_vars
      PROVE  /\ \A d \in AllDays : Cleared(d) =>
                   settledBy'[d] = settledBy[d] /\ (d \in credits' <=> d \in credits)
             /\ bank' # bank => \E d \in AllDays : ~Cleared(d) /\ Cleared(d)' /\ bank' = bank + Due(d)
  <2>1. ClearsOne /\ settledBy \in [AllDays -> {"NONE", "WALLET", "BANK"}]
    BY <1>1, ClearingStep DEF IInv, TypeOK
  <2>2. CASE UNCHANGED <<settledBy, credits, bank>>
    BY <2>2
  <2>3. ASSUME NEW e \in AllDays, Settles(e)
        PROVE  /\ \A d \in AllDays : Cleared(d) =>
                     settledBy'[d] = settledBy[d] /\ (d \in credits' <=> d \in credits)
               /\ bank' # bank => ~Cleared(e) /\ Cleared(e)' /\ bank' = bank + Due(e)
    BY <2>1, <2>3 DEF Settles, Cleared
  <2>4. ASSUME NEW e \in AllDays, Credits(e)
        PROVE  /\ \A d \in AllDays : Cleared(d) =>
                     settledBy'[d] = settledBy[d] /\ (d \in credits' <=> d \in credits)
               /\ bank' = bank
    BY <2>4 DEF Credits, Cleared
  <2> QED
    BY <2>1, <2>2, <2>3, <2>4 DEF ClearsOne
<1> QED
  BY <1>1, Invariant, PTL DEF Spec, ClearedOnce
=============================================================================
