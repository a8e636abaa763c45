----------------------------- MODULE WalletProofs -----------------------------
(***************************************************************************)
(* The wallet's safety properties, for any wallets, holds, requests and    *)
(* number of sessions, and any isolation snapshots they read from.         *)
(***************************************************************************)
EXTENDS Wallet, FiniteSetTheorems, TLAPS

\* What the assumption says of one request.
LEMMA Asked ==
  ASSUME NEW r \in Requests
  PROVE  /\ Details[r].kind \in Kinds /\ Details[r].wallet \in Wallets
         /\ Details[r].amount \in Nat /\ Details[r].amount > 0
         /\ Details[r].hold \in Holds \cup {NoHold}
         /\ Details[r].kind \in {"HOLD", "RELEASE", "CAPTURE"} =>
              Details[r].hold \in Holds /\ Details[r].hold \in HoldsOf(Details[r].wallet)
         /\ r # NoRequest
BY DetailsAssumption DEF RequestDetails, HoldsOf

\* The requests that move money, as one action.
MoneyStep(s) == Credit(s) \/ Debit(s) \/ CreateHold(s) \/ ReleaseHold(s) \/ CaptureHold(s)

\* The other open transactions keep their snapshots and record what they missed.
Left(s, done, rows) ==
    /\ request' \in [Sessions -> Requests \cup {NoRequest}] /\ request'[s] = NoRequest
    /\ snap' \in [Sessions -> Database]
    /\ missed' \in [Sessions -> SUBSET Requests] /\ touched' \in [Sessions -> SUBSET Wallets]
    /\ \A q \in Sessions : request'[q] # NoRequest =>
         /\ request[q] # NoRequest /\ request'[q] = request[q] /\ snap'[q] = snap[q]
         /\ missed'[q] = missed[q] \cup done /\ touched'[q] = touched[q] \cup rows

\* The tables before the first request are well typed.
LEMMA EmptyTyped == EmptyTables \in Database
BY DEF EmptyTables, Database

\* Leaving a transaction does only that.
LEMMA LeaveWrite ==
  ASSUME TypeOK, NEW s \in Sessions, NEW done \in SUBSET Requests, NEW rows \in SUBSET Wallets,
         Leave(s, done, rows)
  PROVE  Left(s, done, rows)
BY EmptyTyped DEF TypeOK, Leave, Left

\* What a posting does to the balances and to the sessions.
LEMMA PostWrite ==
  ASSUME TypeOK, NEW s \in Sessions, request[s] \in Requests,
         NEW a \in Int, NEW b \in Int, Post(s, a, b)
  PROVE  LET r == request[s]
             w == Details[r].wallet
         IN  /\ MayCommit(s) /\ r \notin journal /\ journal' = journal \cup {r}
             /\ UNCHANGED status
             /\ available' \in [Wallets -> Int] /\ held' \in [Wallets -> Int]
             /\ available'[w] = available[w] + a /\ held'[w] = held[w] + b
             /\ \A x \in Wallets : x # w => available'[x] = available[x] /\ held'[x] = held[x]
             /\ View(s).available[w] + a >= 0 /\ View(s).held[w] + b >= 0
             /\ Left(s, {r}, {})
<1>1. Details[request[s]].wallet \in Wallets
  BY Asked
<1>2. available \in [Wallets -> Int] /\ held \in [Wallets -> Int]
  BY DEF TypeOK, Tables, Database
<1>3. Left(s, {request[s]}, {})
  BY LeaveWrite DEF Post
<1> QED
  BY <1>1, <1>2, <1>3 DEF Post, MayCommit

\* What a transaction that may commit has read is current, where it matters.
LEMMA ViewIsCurrent ==
  ASSUME IInv, NEW s \in Sessions, request[s] \in Requests, MayCommit(s)
  PROVE  LET r == request[s]
             w == Details[r].wallet
         IN  /\ View(s).status[w] = status[w]
             /\ Details[r].hold # NoHold => View(s).hold[Details[r].hold] = hold[Details[r].hold]
             /\ OneLevel(w) /\ Details[r].kind \in {"DEBIT", "SALE", "HOLD"}
                  => available[w] >= View(s).available[w]
             /\ Details[r].kind = "SALE" => View(s).available[w] = available[w]
             /\ Details[r].kind = "CLOSE" /\ Empty(View(s), w) => Empty(Tables, w)
<1> DEFINE r == request[s]
           w == Details[r].wallet
<1>1. r \in Requests /\ r # NoRequest /\ w \in Wallets /\ Details[r].kind \in Kinds
  BY Asked
<1>2. StatusInv(s, w) /\ SpendInv(s, w) /\ SaleInv(s, w)
  BY <1>1 DEF IInv, SnapInv
<1>3. missed[s] \subseteq Requests /\ available \in [Wallets -> Int] /\ snap[s].available \in [Wallets -> Int]
  BY DEF IInv, TypeOK, Tables, Database
<1>4. CASE Details[r].kind = "SALE"
  <2>1. View(s) = Tables
    BY <1>4 DEF View, ReadsSnapshot, Isolation
  <2>2. available[w] >= available[w]
    BY <1>1, <1>3
  <2> QED
    BY <1>4, <2>1, <2>2 DEF Tables
<1>5. CASE Details[r].kind # "SALE"
  <2>1. View(s) = snap[s] /\ ReadsSnapshot(r)
    BY <1>5 DEF View, ReadsSnapshot, Isolation
  <2>2. /\ w \notin touched[s]
        /\ Details[r].hold # NoHold => hold[Details[r].hold] = snap[s].hold[Details[r].hold]
        /\ \A x \in missed[s] : ~Skew(r, x)
    BY <2>1 DEF MayCommit
  <2>3. snap[s].status[w] = status[w]
    BY <1>2, <2>2 DEF StatusInv
  <2>4. ASSUME OneLevel(w), Details[r].kind \in {"DEBIT", "HOLD"}
        PROVE  available[w] >= snap[s].available[w]
    <3>1. r \in Spenders(w)
      BY <1>1, <2>4 DEF Spenders
    <3>2. \A q \in Spenders(w) : ReadsSnapshot(q)
      BY <2>1, <2>4, <3>1 DEF OneLevel, ReadsSnapshot
    <3>3. ASSUME NEW x \in missed[s], Spends(x, w) PROVE FALSE
      BY <1>3, <2>1, <2>2, <2>4, <3>3
      DEF Spends, Skew, DependsOn, ReadsBalance, MovesMoney, ReadsSnapshot, Isolation
    <3> QED
      BY <1>2, <3>2, <3>3 DEF SpendInv
  <2>5. ASSUME Details[r].kind = "CLOSE", Empty(snap[s], w)
        PROVE  Empty(Tables, w)
    <3>1. ASSUME NEW x \in missed[s], Moves(x, w) PROVE FALSE
      BY <1>3, <2>1, <2>2, <2>5, <3>1
      DEF Moves, Skew, DependsOn, ReadsBalance, MovesMoney, ReadsSnapshot, Isolation
    <3>2. /\ held[w] = snap[s].held[w]
          /\ \A h \in HoldsOf(w) : hold[h] = snap[s].hold[h]
          /\ available[w] <= snap[s].available[w]
          /\ available[w] = snap[s].available[w] \/ available[w] >= 0
      BY <1>2, <3>1 DEF SaleInv
    <3> QED
      BY <1>1, <1>3, <2>5, <3>2 DEF Empty, Tables
  <2> QED
    BY <1>5, <2>1, <2>2, <2>3, <2>4, <2>5
<1> QED
  BY <1>4, <1>5

-----------------------------------------------------------------------------
\* What any step that moves money does, whichever request it serves.
Moved(s) ==
    LET r == request[s]
        w == Details[r].wallet
    IN  /\ r \in Requests /\ r \notin journal /\ journal' = journal \cup {r} /\ MovesMoney(r)
        /\ UNCHANGED status /\ status[w] # "CLOSED"
        /\ available' \in [Wallets -> Int] /\ held' \in [Wallets -> Int]
        /\ \A x \in Wallets : x # w => available'[x] = available[x] /\ held'[x] = held[x]
        /\ \/ available'[w] >= available[w]
           \/ /\ Details[r].kind \in {"DEBIT", "SALE", "HOLD"} /\ status[w] = "ACTIVE"
              /\ OneLevel(w) => available'[w] >= 0
        /\ Details[r].kind = "SALE" =>
             /\ available'[w] <= available[w] /\ available'[w] >= 0
             /\ held'[w] = held[w] /\ UNCHANGED hold
        /\ \/ available'[w] + held'[w] >= available[w] + held[w]
           \/ status[w] = "ACTIVE"
        /\ Left(s, {r}, {})

\* What it does to the holds: it opens, releases or captures the request's own.
HoldMoved(s) ==
    LET r == request[s]
        h == Details[r].hold
    IN  /\ hold' \in [Holds -> {"NONE", "HELD", "RELEASED", "CAPTURED"}]
        /\ \/ Details[r].kind \notin {"RELEASE", "CAPTURE", "HOLD"} /\ UNCHANGED hold
           \/ /\ h \in Holds /\ \A g \in Holds : g # h => hold'[g] = hold[g]
              /\ \/ Details[r].kind = "HOLD" /\ hold[h] = "NONE" /\ hold'[h] = "HELD"
                 \/ Details[r].kind = "RELEASE" /\ hold[h] = "HELD" /\ hold'[h] = "RELEASED"
                 \/ Details[r].kind = "CAPTURE" /\ hold[h] = "HELD" /\ hold'[h] = "CAPTURED"

\* What it does to the held balance: a hold adds its amount and its resolution takes it away.
HeldMoved(s) ==
    LET r == request[s]
        w == Details[r].wallet
        a == Details[r].amount
    IN  /\ Details[r].kind \in {"CREDIT", "DEBIT", "SALE"} => held'[w] = held[w]
        /\ Details[r].kind = "HOLD" => held'[w] = held[w] + a
        /\ Details[r].kind \in {"RELEASE", "CAPTURE"} => held'[w] = held[w] - a

\* The five requests that move money, one by one.
LEMMA MoneyShape ==
  ASSUME IInv, NEW s \in Sessions, MoneyStep(s)
  PROVE  Moved(s) /\ HoldMoved(s) /\ HeldMoved(s)
<1> DEFINE r == request[s]
           w == Details[r].wallet
           a == Details[r].amount
           h == Details[r].hold
<1>1. r \in Requests
  BY DEF MoneyStep, Credit, Debit, CreateHold, ReleaseHold, CaptureHold, Runs
<1>2. /\ Details[r].kind \in Kinds /\ w \in Wallets /\ a \in Nat /\ a > 0
      /\ a \in Int /\ -a \in Int /\ 0 \in Int
      /\ h \in Holds \cup {NoHold}
      /\ Details[r].kind \in {"HOLD", "RELEASE", "CAPTURE"} => h \in Holds /\ h # NoHold
  BY <1>1, Asked, DetailsAssumption
<1>3. /\ TypeOK
      /\ available[w] \in Int /\ held[w] \in Int
      /\ hold \in [Holds -> {"NONE", "HELD", "RELEASED", "CAPTURED"}]
  BY <1>2 DEF IInv, TypeOK, Tables, Database
<1>4. CASE Credit(s)
  <2>1. Post(s, a, 0) /\ Details[r].kind = "CREDIT" /\ UNCHANGED hold
        /\ View(s).status[w] # "CLOSED"
    BY <1>4 DEF Credit, Runs, Amount, MayReceive, WalletStatus
  <2>2. /\ MayCommit(s) /\ r \notin journal /\ journal' = journal \cup {r} /\ UNCHANGED status
        /\ available' \in [Wallets -> Int] /\ held' \in [Wallets -> Int]
        /\ available'[w] = available[w] + a /\ held'[w] = held[w] + 0
        /\ \A x \in Wallets : x # w => available'[x] = available[x] /\ held'[x] = held[x]
        /\ Left(s, {r}, {})
    BY <1>1, <1>2, <1>3, <2>1, PostWrite
  <2>3. View(s).status[w] = status[w]
    BY <1>1, <2>2, ViewIsCurrent
  <2> QED
    BY <1>1, <1>2, <1>3, <2>1, <2>2, <2>3 DEF Moved, HoldMoved, HeldMoved, MovesMoney
<1>5. CASE Debit(s)
  <2>1. Post(s, -a, 0) /\ Details[r].kind \in {"DEBIT", "SALE"} /\ UNCHANGED hold
        /\ View(s).status[w] = "ACTIVE"
    BY <1>5 DEF Debit, Runs, Amount, MaySpend, WalletStatus
  <2>2. /\ MayCommit(s) /\ r \notin journal /\ journal' = journal \cup {r} /\ UNCHANGED status
        /\ available' \in [Wallets -> Int] /\ held' \in [Wallets -> Int]
        /\ available'[w] = available[w] + (-a) /\ held'[w] = held[w] + 0
        /\ \A x \in Wallets : x # w => available'[x] = available[x] /\ held'[x] = held[x]
        /\ View(s).available[w] + (-a) >= 0
        /\ Left(s, {r}, {})
    BY <1>1, <1>2, <1>3, <2>1, PostWrite
  <2>3. /\ View(s).status[w] = status[w]
        /\ OneLevel(w) => available[w] >= View(s).available[w]
        /\ Details[r].kind = "SALE" => View(s).available[w] = available[w]
    BY <1>1, <2>1, <2>2, ViewIsCurrent
  <2>4. View(s).available[w] \in Int
    BY <1>1, <1>2 DEF IInv, TypeOK, Database, View, Tables
  <2>5. OneLevel(w) \/ Details[r].kind = "SALE" => available'[w] >= 0
    BY <1>2, <1>3, <2>2, <2>3, <2>4
  <2>6. held'[w] = held[w]
    BY <1>3, <2>2
  <2> QED
    BY <1>1, <1>2, <1>3, <2>1, <2>2, <2>3, <2>5, <2>6 DEF Moved, HoldMoved, HeldMoved, MovesMoney
<1>6. CASE CreateHold(s)
  <2>1. Post(s, -a, a) /\ Details[r].kind = "HOLD" /\ hold' = [hold EXCEPT ![h] = "HELD"]
        /\ View(s).status[w] = "ACTIVE" /\ View(s).hold[h] = "NONE"
    BY <1>6 DEF CreateHold, Runs, Amount, MaySpend, WalletStatus, HoldStatus, SetHold
  <2>2. /\ MayCommit(s) /\ r \notin journal /\ journal' = journal \cup {r} /\ UNCHANGED status
        /\ available' \in [Wallets -> Int] /\ held' \in [Wallets -> Int]
        /\ available'[w] = available[w] + (-a) /\ held'[w] = held[w] + a
        /\ \A x \in Wallets : x # w => available'[x] = available[x] /\ held'[x] = held[x]
        /\ View(s).available[w] + (-a) >= 0
        /\ Left(s, {r}, {})
    BY <1>1, <1>2, <1>3, <2>1, PostWrite
  <2>3. /\ View(s).status[w] = status[w] /\ View(s).hold[h] = hold[h]
        /\ OneLevel(w) => available[w] >= View(s).available[w]
    BY <1>1, <1>2, <2>1, <2>2, ViewIsCurrent
  <2>4. View(s).available[w] \in Int
    BY <1>1, <1>2 DEF IInv, TypeOK, Database, View, Tables
  <2>5. OneLevel(w) => available'[w] >= 0
    BY <1>2, <1>3, <2>2, <2>3, <2>4
  <2> QED
    BY <1>1, <1>2, <1>3, <2>1, <2>2, <2>3, <2>5 DEF Moved, HoldMoved, HeldMoved, MovesMoney
<1>7. CASE ReleaseHold(s)
  <2>1. Post(s, a, -a) /\ Details[r].kind = "RELEASE" /\ hold' = [hold EXCEPT ![h] = "RELEASED"]
        /\ View(s).status[w] # "CLOSED" /\ View(s).hold[h] = "HELD"
    BY <1>7 DEF ReleaseHold, Runs, Amount, MayReceive, WalletStatus, HoldStatus, SetHold, Resolvable
  <2>2. /\ MayCommit(s) /\ r \notin journal /\ journal' = journal \cup {r} /\ UNCHANGED status
        /\ available' \in [Wallets -> Int] /\ held' \in [Wallets -> Int]
        /\ available'[w] = available[w] + a /\ held'[w] = held[w] + (-a)
        /\ \A x \in Wallets : x # w => available'[x] = available[x] /\ held'[x] = held[x]
        /\ Left(s, {r}, {})
    BY <1>1, <1>2, <1>3, <2>1, PostWrite
  <2>3. View(s).status[w] = status[w] /\ View(s).hold[h] = hold[h]
    BY <1>1, <1>2, <2>1, <2>2, ViewIsCurrent
  <2> QED
    BY <1>1, <1>2, <1>3, <2>1, <2>2, <2>3 DEF Moved, HoldMoved, HeldMoved, MovesMoney
<1>8. CASE CaptureHold(s)
  <2>1. Post(s, 0, -a) /\ Details[r].kind = "CAPTURE" /\ hold' = [hold EXCEPT ![h] = "CAPTURED"]
        /\ View(s).status[w] = "ACTIVE" /\ View(s).hold[h] = "HELD"
    BY <1>8 DEF CaptureHold, Runs, Amount, MaySpend, WalletStatus, HoldStatus, SetHold, Resolvable
  <2>2. /\ MayCommit(s) /\ r \notin journal /\ journal' = journal \cup {r} /\ UNCHANGED status
        /\ available' \in [Wallets -> Int] /\ held' \in [Wallets -> Int]
        /\ available'[w] = available[w] + 0 /\ held'[w] = held[w] + (-a)
        /\ \A x \in Wallets : x # w => available'[x] = available[x] /\ held'[x] = held[x]
        /\ Left(s, {r}, {})
    BY <1>1, <1>2, <1>3, <2>1, PostWrite
  <2>3. View(s).status[w] = status[w] /\ View(s).hold[h] = hold[h]
    BY <1>1, <1>2, <2>1, <2>2, ViewIsCurrent
  <2> QED
    BY <1>1, <1>2, <1>3, <2>1, <2>2, <2>3 DEF Moved, HoldMoved, HeldMoved, MovesMoney
<1> QED
  BY <1>4, <1>5, <1>6, <1>7, <1>8 DEF MoneyStep

\* The other steps: they change no balance, no hold and no journal.
QuietStep ==
    \/ \E s \in Sessions : (\E r \in Requests : Begin(s, r)) \/ CloseWallet(s) \/ RollBack(s)
    \/ \E w \in Wallets : FreezeWallet(w) \/ UnfreezeWallet(w)

\* Every step moves money or is quiet.
LEMMA StepKinds ==
  ASSUME [Next]_vars
  PROVE  (\E s \in Sessions : MoneyStep(s)) \/ QuietStep \/ UNCHANGED vars
BY DEF Next, MoneyStep, QuietStep

\* A closing wallet was empty, and the other sessions learn of it.
LEMMA CloseShape ==
  ASSUME IInv, NEW s \in Sessions, CloseWallet(s)
  PROVE  LET w == Details[request[s]].wallet
         IN  /\ request[s] \in Requests /\ w \in Wallets
             /\ status' = [status EXCEPT ![w] = "CLOSED"]
             /\ UNCHANGED <<journal, available, held, hold>>
             /\ Empty(Tables, w) /\ Left(s, {request[s]}, {w})
             /\ ~MovesMoney(request[s])
<1> DEFINE w == Details[request[s]].wallet
<1>1. request[s] \in Requests /\ Details[request[s]].kind = "CLOSE" /\ MayCommit(s)
      /\ Empty(View(s), w) /\ Leave(s, {request[s]}, {w})
  BY DEF CloseWallet, Runs
<1>2. w \in Wallets /\ Left(s, {request[s]}, {w})
  BY <1>1, Asked, LeaveWrite DEF IInv
<1>3. Empty(Tables, w)
  BY <1>1, ViewIsCurrent
<1> QED
  BY <1>1, <1>2, <1>3 DEF CloseWallet, MovesMoney

\* Freezing and unfreezing only concern the status, and never a closed wallet.
LEMMA FreezeShape ==
  ASSUME TypeOK, NEW w \in Wallets, FreezeWallet(w) \/ UnfreezeWallet(w)
  PROVE  /\ \E st \in {"ACTIVE", "FROZEN"} : status' = [status EXCEPT ![w] = st]
         /\ status[w] # "CLOSED"
         /\ UNCHANGED <<journal, available, held, hold, request, snap, missed>>
         /\ touched' \in [Sessions -> SUBSET Wallets]
         /\ \A q \in Sessions : request[q] # NoRequest => touched'[q] = touched[q] \cup {w}
BY DEF FreezeWallet, UnfreezeWallet, SetStatus, TypeOK

-----------------------------------------------------------------------------
\* Every step keeps the tables and the sessions well typed.
LEMMA TypeStep == IInv /\ [Next]_vars => TypeOK'
<1> SUFFICES ASSUME IInv, [Next]_vars PROVE TypeOK'
  OBVIOUS
<1>0. TypeOK
  BY DEF IInv
<1>1. CASE \E s \in Sessions : MoneyStep(s)
  <2>1. PICK s \in Sessions : MoneyStep(s)
    BY <1>1
  <2>2. Moved(s) /\ HoldMoved(s)
    BY <2>1, MoneyShape
  <2> QED
    BY <1>0, <2>2 DEF TypeOK, Tables, Database, Moved, HoldMoved, Left
<1>2. ASSUME NEW s \in Sessions, NEW r \in Requests, Begin(s, r) PROVE TypeOK'
  BY <1>0, <1>2 DEF Begin, dbVars, TypeOK, Tables, Database
<1>3. ASSUME NEW s \in Sessions, CloseWallet(s) PROVE TypeOK'
  BY <1>0, <1>3, CloseShape DEF TypeOK, Tables, Database, Left
<1>4. ASSUME NEW s \in Sessions, RollBack(s) PROVE TypeOK'
  <2>1. Left(s, {}, {})
    BY <1>0, <1>4, LeaveWrite DEF RollBack
  <2> QED
    BY <1>0, <1>4, <2>1 DEF RollBack, dbVars, TypeOK, Tables, Database, Left
<1>5. ASSUME NEW w \in Wallets, FreezeWallet(w) \/ UnfreezeWallet(w) PROVE TypeOK'
  <2>1. PICK st \in {"ACTIVE", "FROZEN"} : status' = [status EXCEPT ![w] = st]
    BY <1>0, <1>5, FreezeShape
  <2>2. /\ UNCHANGED <<journal, available, held, hold, request, snap, missed>>
        /\ touched' \in [Sessions -> SUBSET Wallets]
    BY <1>0, <1>5, FreezeShape
  <2> QED
    BY <1>0, <2>1, <2>2 DEF TypeOK, Tables, Database
<1>6. CASE UNCHANGED vars
  BY <1>0, <1>6 DEF vars, dbVars, sessionVars, TypeOK, Tables, Database
<1> QED
  BY <1>1, <1>2, <1>3, <1>4, <1>5, <1>6, StepKinds DEF QuietStep

\* No step overdraws a wallet whose debits run at one isolation level.
LEMMA OverdraftStep == IInv /\ [Next]_vars => NeverOverdrawn'
<1> SUFFICES ASSUME IInv, [Next]_vars, NEW w \in Wallets, OneLevel(w) PROVE available'[w] >= 0
  BY DEF NeverOverdrawn, OneLevel, Spenders, ReadsSnapshot, Isolation
<1>0. available[w] >= 0 /\ available[w] \in Int
  BY DEF IInv, NeverOverdrawn, TypeOK, Tables, Database
<1>1. CASE \E s \in Sessions : MoneyStep(s)
  <2>1. PICK s \in Sessions : MoneyStep(s)
    BY <1>1
  <2>2. Moved(s)
    BY <2>1, MoneyShape
  <2> QED
    BY <1>0, <2>2 DEF Moved
<1>2. CASE UNCHANGED available
  BY <1>0, <1>2
<1>3. QuietStep => UNCHANGED available
  BY DEF QuietStep, Begin, CloseWallet, RollBack, FreezeWallet, UnfreezeWallet, SetStatus, dbVars
<1> QED
  BY <1>1, <1>2, <1>3, StepKinds DEF vars, dbVars

\* Requests that compete for a hold resolve it once.
LEMMA ResolveStep == IInv /\ [Next]_vars => HoldResolvedOnce'
<1> SUFFICES ASSUME IInv, [Next]_vars PROVE HoldResolvedOnce'
  OBVIOUS
<1>0. HoldResolvedOnce /\ hold \in [Holds -> {"NONE", "HELD", "RELEASED", "CAPTURED"}]
      /\ journal \subseteq Requests
  BY DEF IInv, TypeOK, Tables, Database
<1>1. CASE \E s \in Sessions : MoneyStep(s)
  <2>1. PICK s \in Sessions : MoneyStep(s)
    BY <1>1
  <2>2. Moved(s) /\ HoldMoved(s)
    BY <2>1, MoneyShape
  <2> DEFINE r == request[s]
             h == Details[r].hold
  <2>3. journal' = journal \cup {r} /\ r \in Requests /\ Details[r].kind \in Kinds
    BY <2>2, Asked DEF Moved
  <2>4. ASSUME NEW g \in Holds
        PROVE  /\ \A p, q \in Resolvers(g)' : p = q
               /\ \A q \in Resolvers(g)' :
                    hold'[g] = IF Details[q].kind = "RELEASE" THEN "RELEASED" ELSE "CAPTURED"
    <3>1. CASE g = h /\ Details[r].kind \in {"RELEASE", "CAPTURE"}
      <4>1. hold[h] = "HELD" /\ Resolvers(g) = {}
        <5>1. hold[h] = "HELD"
          BY <2>2, <3>1 DEF HoldMoved
        <5>2. ASSUME NEW q \in Resolvers(g) PROVE FALSE
          BY <1>0, <3>1, <5>1, <5>2 DEF HoldResolvedOnce
        <5> QED
          BY <5>1, <5>2
      <4>2. Resolvers(g)' = {r}
        BY <2>3, <3>1, <4>1 DEF Resolvers
      <4>3. hold'[g] = IF Details[r].kind = "RELEASE" THEN "RELEASED" ELSE "CAPTURED"
        BY <2>2, <3>1 DEF HoldMoved
      <4> QED
        BY <4>2, <4>3
    <3>2. CASE g # h \/ Details[r].kind \notin {"RELEASE", "CAPTURE"}
      <4>1. Resolvers(g)' = Resolvers(g)
        BY <2>3, <3>2 DEF Resolvers
      <4>2. hold'[g] = hold[g] \/ (hold[g] = "NONE" /\ g = h /\ hold'[g] = "HELD")
        BY <2>2, <2>3, <3>2 DEF HoldMoved
      <4>3. ASSUME hold[g] = "NONE" PROVE Resolvers(g) = {}
        <5>1. ASSUME NEW q \in Resolvers(g) PROVE FALSE
          BY <1>0, <4>3, <5>1 DEF HoldResolvedOnce
        <5> QED
          BY <5>1
      <4> QED
        BY <1>0, <4>1, <4>2, <4>3 DEF HoldResolvedOnce
    <3> QED
      BY <3>1, <3>2
  <2> QED
    BY <2>4 DEF HoldResolvedOnce
<1>2. CASE UNCHANGED <<journal, hold>>
  BY <1>0, <1>2 DEF HoldResolvedOnce, Resolvers
<1>3. QuietStep => UNCHANGED <<journal, hold>>
  BY DEF QuietStep, Begin, CloseWallet, RollBack, FreezeWallet, UnfreezeWallet, SetStatus, dbVars
<1> QED
  BY <1>1, <1>2, <1>3, StepKinds DEF vars, dbVars

\* A closed wallet is empty and stays so.
LEMMA ClosedStep == IInv /\ [Next]_vars => ClosedIsEmpty'
<1> SUFFICES ASSUME IInv, [Next]_vars, NEW w \in Wallets, status'[w] = "CLOSED"
             PROVE  available'[w] = 0 /\ held'[w] = 0 /\ \A h \in HoldsOf(w) : hold'[h] # "HELD"
  BY DEF ClosedIsEmpty, HoldsOf
<1> DEFINE Empties == available[w] = 0 /\ held[w] = 0 /\ \A h \in HoldsOf(w) : hold[h] # "HELD"
<1>0. /\ status \in [Wallets -> {"ACTIVE", "FROZEN", "CLOSED"}]
      /\ status[w] = "CLOSED" => Empties
  BY DEF IInv, ClosedIsEmpty, TypeOK, Tables, Database
<1>1. CASE \E s \in Sessions : MoneyStep(s)
  <2>1. PICK s \in Sessions : MoneyStep(s)
    BY <1>1
  <2>2. Moved(s) /\ HoldMoved(s)
    BY <2>1, MoneyShape
  <2> DEFINE r == request[s]
  <2>3. /\ r \in Requests /\ w # Details[r].wallet /\ status[w] = "CLOSED"
        /\ available'[w] = available[w] /\ held'[w] = held[w]
    BY <2>2 DEF Moved
  <2>4. ASSUME NEW h \in HoldsOf(w) PROVE hold'[h] = hold[h]
    <3>1. h \in Holds /\ h # NoHold /\ \E q \in Requests : Details[q].hold = h /\ Details[q].wallet = w
      BY <2>4, DetailsAssumption DEF HoldsOf
    <3>2. h # Details[r].hold
      BY <2>3, <3>1, DetailsAssumption
    <3> QED
      BY <2>2, <3>1, <3>2 DEF HoldMoved
  <2> QED
    BY <1>0, <2>3, <2>4
<1>2. ASSUME NEW s \in Sessions, CloseWallet(s)
      PROVE  available'[w] = 0 /\ held'[w] = 0 /\ \A h \in HoldsOf(w) : hold'[h] # "HELD"
  <2> DEFINE x == Details[request[s]].wallet
  <2>1. /\ x \in Wallets /\ status' = [status EXCEPT ![x] = "CLOSED"] /\ Empty(Tables, x)
        /\ UNCHANGED <<available, held, hold>>
    BY <1>2, CloseShape
  <2>2. CASE w = x
    BY <2>1, <2>2 DEF Empty, Tables
  <2>3. CASE w # x
    BY <1>0, <2>1, <2>3
  <2> QED
    BY <2>2, <2>3
<1>3. ASSUME NEW x \in Wallets, FreezeWallet(x) \/ UnfreezeWallet(x)
      PROVE  status[w] = "CLOSED" /\ UNCHANGED <<available, held, hold>>
  BY <1>0, <1>3, FreezeShape DEF IInv
<1>4. CASE UNCHANGED <<status, available, held, hold>>
  BY <1>0, <1>4
<1>5. ASSUME NEW s \in Sessions, (\E r \in Requests : Begin(s, r)) \/ RollBack(s)
      PROVE  UNCHANGED <<status, available, held, hold>>
  BY <1>5 DEF Begin, RollBack, dbVars
<1> QED
  BY <1>0, <1>1, <1>2, <1>3, <1>4, <1>5, StepKinds DEF QuietStep, vars, dbVars

-----------------------------------------------------------------------------
\* What a committing request leaves true of the snapshots of the others.
LEMMA SnapAfterMoney ==
  ASSUME IInv, NEW s \in Sessions, MoneyStep(s), NEW q \in Sessions, request'[q] # NoRequest,
         NEW w \in Wallets
  PROVE  StatusInv(q, w)' /\ SpendInv(q, w)' /\ SaleInv(q, w)'
<1> DEFINE r == request[s]
<1>1. Moved(s) /\ HoldMoved(s)
  BY MoneyShape
<1>2. /\ request[q] # NoRequest /\ snap'[q] = snap[q]
      /\ missed'[q] = missed[q] \cup {r} /\ touched'[q] = touched[q] \cup {}
      /\ status' = status /\ r \in Requests
  BY <1>1 DEF Moved, Left
<1>3. StatusInv(q, w) /\ SpendInv(q, w) /\ SaleInv(q, w)
  BY <1>2 DEF IInv, SnapInv
<1>4. /\ available[w] \in Int /\ available'[w] \in Int /\ snap[q].available[w] \in Int
      /\ held[w] \in Int /\ held'[w] \in Int
  BY <1>1 DEF Moved, IInv, TypeOK, Tables, Database
<1>5. StatusInv(q, w)'
  BY <1>2, <1>3 DEF StatusInv
<1>6. SpendInv(q, w)'
  <2>1. SUFFICES ASSUME \A x \in missed'[q] : ~Spends(x, w), \A x \in Spenders(w) : ReadsSnapshot(x)
                 PROVE  available'[w] >= snap[q].available[w]
    BY <1>2 DEF SpendInv, Spenders, Spends, ReadsSnapshot, Isolation
  <2>2. available[w] >= snap[q].available[w] /\ ~Spends(r, w)
    BY <1>2, <1>3, <2>1 DEF SpendInv
  <2>3. w = Details[r].wallet => Details[r].kind \notin {"DEBIT", "SALE", "HOLD"}
    BY <1>2, <2>1, <2>2 DEF Spends, Spenders, ReadsSnapshot, Isolation
  <2>4. available'[w] >= available[w]
    BY <1>1, <1>4, <2>3 DEF Moved
  <2> QED
    BY <1>4, <2>2, <2>4
<1>7. SaleInv(q, w)'
  <2>1. SUFFICES ASSUME \A x \in missed'[q] : ~Moves(x, w)
                 PROVE  /\ held'[w] = snap[q].held[w]
                        /\ \A h \in HoldsOf(w) : hold'[h] = snap[q].hold[h]
                        /\ available'[w] <= snap[q].available[w]
                        /\ available'[w] = snap[q].available[w] \/ available'[w] >= 0
    BY <1>2 DEF SaleInv, Moves, MovesMoney, ReadsSnapshot, Isolation, HoldsOf
  <2>2. /\ held[w] = snap[q].held[w]
        /\ \A h \in HoldsOf(w) : hold[h] = snap[q].hold[h]
        /\ available[w] <= snap[q].available[w]
        /\ available[w] = snap[q].available[w] \/ available[w] >= 0
        /\ ~Moves(r, w)
    BY <1>2, <1>3, <2>1 DEF SaleInv
  <2>3. CASE Details[r].wallet = w
    <3>1. Details[r].kind = "SALE"
      BY <1>1, <2>2, <2>3 DEF Moves, Moved, ReadsSnapshot, Isolation
    <3>2. held'[w] = held[w] /\ UNCHANGED hold
      BY <1>1, <2>3, <3>1 DEF Moved, HoldMoved
    <3>3. \/ available'[w] = available[w]
          \/ available'[w] <= available[w] /\ available'[w] >= 0
      BY <1>1, <2>3, <3>1 DEF Moved
    <3> QED
      BY <1>4, <2>2, <3>2, <3>3
  <2>4. CASE Details[r].wallet # w
    <3>1. available'[w] = available[w] /\ held'[w] = held[w]
      BY <1>1, <2>4 DEF Moved
    <3>2. ASSUME NEW h \in HoldsOf(w) PROVE hold'[h] = hold[h]
      <4>1. h \in Holds /\ h # NoHold /\ \E x \in Requests : Details[x].hold = h /\ Details[x].wallet = w
        BY <3>2, DetailsAssumption DEF HoldsOf
      <4>2. h # Details[r].hold
        BY <1>2, <2>4, <4>1, DetailsAssumption
      <4> QED
        BY <1>1, <4>1, <4>2 DEF HoldMoved
    <3> QED
      BY <2>2, <3>1, <3>2
  <2> QED
    BY <2>3, <2>4
<1> QED
  BY <1>5, <1>6, <1>7

\* Every step keeps every open snapshot as close to the tables as SnapInv says.
LEMMA SnapStep == IInv /\ [Next]_vars => SnapInv'
<1> SUFFICES ASSUME IInv, [Next]_vars, NEW q \in Sessions, request'[q] # NoRequest, NEW w \in Wallets
             PROVE  StatusInv(q, w)' /\ SpendInv(q, w)' /\ SaleInv(q, w)'
  BY DEF SnapInv
<1>0. TypeOK /\ TypeOK' /\ Tables \in Database
  BY TypeStep DEF IInv, TypeOK
<1>a. ASSUME request[q] # NoRequest
      PROVE  StatusInv(q, w) /\ SpendInv(q, w) /\ SaleInv(q, w)
  BY <1>a DEF IInv, SnapInv
<1>b. ASSUME request[q] # NoRequest, UNCHANGED <<journal, available, held, hold>>,
             snap'[q] = snap[q], missed[q] \subseteq missed'[q],
             \A x \in missed'[q] \ missed[q] : ~MovesMoney(x)
      PROVE  SpendInv(q, w)' /\ SaleInv(q, w)'
  <2>1. SpendInv(q, w) /\ SaleInv(q, w)
    BY <1>a, <1>b
  <2> QED
    BY <1>b, <2>1
    DEF SpendInv, SaleInv, Spends, Moves, MovesMoney, ReadsSnapshot, Isolation, Spenders, HoldsOf
<1>1. CASE \E s \in Sessions : MoneyStep(s)
  BY <1>1, SnapAfterMoney
<1>2. ASSUME NEW s \in Sessions, NEW r \in Requests, Begin(s, r)
      PROVE  StatusInv(q, w)' /\ SpendInv(q, w)' /\ SaleInv(q, w)'
  <2>1. UNCHANGED <<dbVars, missed, touched>> /\ Tables' = Tables
    BY <1>2 DEF Begin, Tables, dbVars
  <2>2. CASE q = s
    <3>1. snap'[q] = Tables
      BY <1>0, <1>2, <2>2 DEF Begin, TypeOK
    <3>2. /\ snap'[q].status = status' /\ snap'[q].available = available'
          /\ snap'[q].held = held' /\ snap'[q].hold = hold'
      BY <2>1, <3>1 DEF Tables, dbVars
    <3>3. available'[w] \in Int
      BY <1>0 DEF TypeOK, Tables, Database
    <3>4. StatusInv(q, w)'
      BY <3>2 DEF StatusInv
    <3>5. SpendInv(q, w)'
      BY <3>2, <3>3 DEF SpendInv
    <3>6. SaleInv(q, w)'
      BY <3>2, <3>3 DEF SaleInv
    <3> QED
      BY <3>4, <3>5, <3>6
  <2>3. CASE q # s
    <3>1. request'[q] = request[q] /\ snap'[q] = snap[q]
      BY <1>0, <1>2, <2>3 DEF Begin, TypeOK
    <3> QED
      BY <1>a, <2>1, <3>1
      DEF dbVars, StatusInv, SpendInv, SaleInv, Spends, Moves, MovesMoney, ReadsSnapshot, Isolation, Spenders, HoldsOf
  <2> QED
    BY <2>2, <2>3
<1>3. ASSUME NEW s \in Sessions, CloseWallet(s)
      PROVE  StatusInv(q, w)' /\ SpendInv(q, w)' /\ SaleInv(q, w)'
  <2> DEFINE x == Details[request[s]].wallet
  <2>1. /\ x \in Wallets /\ status' = [status EXCEPT ![x] = "CLOSED"]
        /\ UNCHANGED <<journal, available, held, hold>>
        /\ Left(s, {request[s]}, {x}) /\ ~MovesMoney(request[s])
    BY <1>3, CloseShape
  <2>2. /\ request[q] # NoRequest /\ snap'[q] = snap[q]
        /\ missed'[q] = missed[q] \cup {request[s]} /\ touched'[q] = touched[q] \cup {x}
    BY <2>1 DEF Left
  <2>3. SpendInv(q, w)' /\ SaleInv(q, w)'
    BY <1>b, <2>1, <2>2
  <2>4. StatusInv(q, w)'
    BY <1>a, <2>1, <2>2 DEF StatusInv
  <2> QED
    BY <2>3, <2>4
<1>4. ASSUME NEW s \in Sessions, RollBack(s)
      PROVE  StatusInv(q, w)' /\ SpendInv(q, w)' /\ SaleInv(q, w)'
  <2>1. Left(s, {}, {}) /\ UNCHANGED dbVars
    BY <1>0, <1>4, LeaveWrite DEF RollBack
  <2>2. /\ request[q] # NoRequest /\ snap'[q] = snap[q]
        /\ missed'[q] = missed[q] /\ touched'[q] = touched[q]
    BY <2>1 DEF Left
  <2> QED
    BY <1>a, <1>b, <2>1, <2>2 DEF dbVars, StatusInv
<1>5. ASSUME NEW x \in Wallets, FreezeWallet(x) \/ UnfreezeWallet(x)
      PROVE  StatusInv(q, w)' /\ SpendInv(q, w)' /\ SaleInv(q, w)'
  <2>1. PICK st \in {"ACTIVE", "FROZEN"} : status' = [status EXCEPT ![x] = st]
    BY <1>0, <1>5, FreezeShape
  <2>2. /\ UNCHANGED <<journal, available, held, hold, request, snap, missed>>
        /\ request[q] # NoRequest /\ touched'[q] = touched[q] \cup {x}
    BY <1>0, <1>5, FreezeShape
  <2>3. SpendInv(q, w)' /\ SaleInv(q, w)'
    BY <1>b, <2>2
  <2>4. StatusInv(q, w)'
    BY <1>a, <2>1, <2>2 DEF StatusInv
  <2> QED
    BY <2>3, <2>4
<1>6. CASE UNCHANGED vars
  BY <1>a, <1>6
  DEF vars, dbVars, sessionVars, StatusInv, SpendInv, SaleInv, Spends, Moves, MovesMoney,
      ReadsSnapshot, Isolation, Spenders, HoldsOf
<1> QED
  BY <1>1, <1>2, <1>3, <1>4, <1>5, <1>6, StepKinds DEF QuietStep

-----------------------------------------------------------------------------
(* The held balance *)

\* A hold belongs to one wallet and has one amount, whichever request names it.
LEMMA HoldIs ==
  ASSUME NEW r \in Requests, Details[r].hold \in Holds
  PROVE  /\ HoldAmount(Details[r].hold) = Details[r].amount
         /\ Details[r].hold \in HoldsOf(Details[r].wallet)
         /\ \A w \in Wallets : w # Details[r].wallet => Details[r].hold \notin HoldsOf(w)
<1> DEFINE h == Details[r].hold
           q == CHOOSE x \in Requests : Details[x].hold = h
<1>1. q \in Requests /\ Details[q].hold = h
  OBVIOUS
<1>2. \A x \in Requests : Details[x].hold = h =>
        Details[x].wallet = Details[r].wallet /\ Details[x].amount = Details[r].amount
  BY DetailsAssumption
<1> HIDE DEF q
<1>3. HoldAmount(h) = Details[r].amount
  BY <1>1, <1>2 DEF HoldAmount, q
<1> QED
  BY <1>2, <1>3 DEF HoldsOf

\* The naira of one hold.
LEMMA NairaOf ==
  ASSUME NEW r \in Requests, NEW h
  PROVE  /\ IsFiniteSet({h} \X (1 .. Details[r].amount))
         /\ Cardinality({h} \X (1 .. Details[r].amount)) = Details[r].amount
<1>1. Details[r].amount \in Nat
  BY Asked
<1> DEFINE n == Details[r].amount
<1> HIDE DEF n
<1>2. n \in Nat => IsFiniteSet(1 .. n) /\ Cardinality(1 .. n) = n
  <2> SUFFICES ASSUME n \in Nat PROVE IsFiniteSet(1 .. n) /\ Cardinality(1 .. n) = n
    OBVIOUS
  <2>1. IsFiniteSet(1 .. n) /\ Cardinality(1 .. n) = IF 1 > n THEN 0 ELSE n - 1 + 1
    BY FS_Interval
  <2> QED
    BY <2>1
<1>3. IsFiniteSet({h}) /\ Cardinality({h}) = 1
  BY FS_Singleton
<1>4. n \in Nat => IsFiniteSet({h} \X (1 .. n)) /\ Cardinality({h} \X (1 .. n)) = 1 * n
  BY <1>2, <1>3, FS_Product
<1> QED
  BY <1>1, <1>4 DEF n

\* An open hold keeps its money in the held balance, and a resolved one does not.
LEMMA HeldStep == IInv /\ [Next]_vars => HeldInv'
<1> SUFFICES ASSUME IInv, [Next]_vars, NEW w \in Wallets
             PROVE  held'[w] = Cardinality(HeldNaira(w)') /\ IsFiniteSet(HeldNaira(w)')
  BY DEF HeldInv, HeldIsOutstanding
<1>1. held[w] = Cardinality(HeldNaira(w)) /\ IsFiniteSet(HeldNaira(w)) /\ held[w] \in Int
  BY DEF IInv, HeldInv, HeldIsOutstanding, TypeOK, Tables, Database
<1>2. ASSUME held'[w] = held[w], \A g \in HoldsOf(w) : hold'[g] = hold[g]
      PROVE  held'[w] = Cardinality(HeldNaira(w)') /\ IsFiniteSet(HeldNaira(w)')
  <2>1. HeldNaira(w)' = HeldNaira(w)
    BY <1>2 DEF HeldNaira, OpenHolds
  <2> QED
    BY <1>1, <1>2, <2>1
<1>3. ASSUME NEW s \in Sessions, MoneyStep(s)
      PROVE  held'[w] = Cardinality(HeldNaira(w)') /\ IsFiniteSet(HeldNaira(w)')
  <2> DEFINE r == request[s]
             h == Details[r].hold
             new == {h} \X (1 .. Details[r].amount)
  <2>1. Moved(s) /\ HoldMoved(s) /\ HeldMoved(s)
    BY <1>3, MoneyShape
  <2>2. r \in Requests /\ Details[r].kind \in Kinds \ {"CLOSE"} /\ HoldsOf(w) \subseteq Holds
    BY <2>1, Asked DEF Moved, MovesMoney, HoldsOf
  <2>3. CASE Details[r].kind \in {"CREDIT", "DEBIT", "SALE"}
    <3>1. held'[w] = held[w] /\ UNCHANGED hold
      BY <2>1, <2>3 DEF Moved, HoldMoved, HeldMoved
    <3> QED
      BY <1>2, <3>1
  <2>4. CASE Details[r].kind \in {"HOLD", "RELEASE", "CAPTURE"} /\ w # Details[r].wallet
    <3>1. h \in Holds /\ \A g \in Holds : g # h => hold'[g] = hold[g]
      BY <2>1, <2>4 DEF HoldMoved
    <3>2. h \notin HoldsOf(w)
      BY <2>2, <2>4, <3>1, HoldIs
    <3>3. held'[w] = held[w]
      BY <2>1, <2>4 DEF Moved
    <3> QED
      BY <1>2, <2>2, <3>1, <3>2, <3>3
  <2>5. CASE Details[r].kind \in {"HOLD", "RELEASE", "CAPTURE"} /\ w = Details[r].wallet
    <3>1. h \in Holds /\ \A g \in Holds : g # h => hold'[g] = hold[g]
      BY <2>1, <2>5 DEF HoldMoved
    <3>2. h \in HoldsOf(w) /\ HoldAmount(h) = Details[r].amount
      BY <2>2, <2>5, <3>1, HoldIs
    <3>3. IsFiniteSet(new) /\ Cardinality(new) = Details[r].amount /\ Details[r].amount \in Nat
      BY <2>2, NairaOf, Asked
    <3>4. Cardinality(HeldNaira(w)) \in Nat
      BY <1>1, FS_CardinalityType
    <3>5. CASE Details[r].kind = "HOLD"
      <4>1. hold[h] = "NONE" /\ hold'[h] = "HELD" /\ held'[w] = held[w] + Details[r].amount
        BY <2>1, <2>5, <3>5 DEF HoldMoved, HeldMoved
      <4>2. h \notin OpenHolds(w) /\ OpenHolds(w)' = OpenHolds(w) \cup {h}
        BY <2>2, <3>1, <3>2, <4>1 DEF OpenHolds
      <4>3. HeldNaira(w)' = HeldNaira(w) \cup new /\ HeldNaira(w) \cap new = {}
        BY <3>2, <4>2 DEF HeldNaira
      <4> HIDE DEF new
      <4>4. IsFiniteSet(HeldNaira(w)')
            /\ Cardinality(HeldNaira(w)') = Cardinality(HeldNaira(w)) + Cardinality(new) - Cardinality({})
        BY <1>1, <3>3, <4>3, FS_Union
      <4> QED
        BY <1>1, <3>3, <3>4, <4>1, <4>4, FS_EmptySet
    <3>6. CASE Details[r].kind \in {"RELEASE", "CAPTURE"}
      <4>1. hold[h] = "HELD" /\ hold'[h] # "HELD" /\ held'[w] = held[w] - Details[r].amount
        BY <2>1, <2>5, <3>6 DEF HoldMoved, HeldMoved
      <4>2. h \in OpenHolds(w) /\ OpenHolds(w)' = OpenHolds(w) \ {h}
        BY <2>2, <3>1, <3>2, <4>1 DEF OpenHolds
      <4>3. new \subseteq HeldNaira(w) /\ HeldNaira(w)' = HeldNaira(w) \ new
        BY <3>2, <4>2 DEF HeldNaira
      <4>4. HeldNaira(w) \cap new = new
        BY <4>3
      <4> HIDE DEF new
      <4>5. IsFiniteSet(HeldNaira(w)')
            /\ Cardinality(HeldNaira(w)') = Cardinality(HeldNaira(w)) - Cardinality(HeldNaira(w) \cap new)
        BY <1>1, <4>3, FS_Difference
      <4> QED
        BY <1>1, <3>3, <3>4, <4>1, <4>4, <4>5
    <3> QED
      BY <2>5, <3>5, <3>6
  <2> QED
    BY <2>2, <2>3, <2>4, <2>5 DEF Kinds
<1>4. CASE UNCHANGED <<held, hold>>
  BY <1>2, <1>4
<1>5. QuietStep => UNCHANGED <<held, hold>>
  BY DEF QuietStep, Begin, CloseWallet, RollBack, FreezeWallet, UnfreezeWallet, SetStatus, dbVars
<1> QED
  BY <1>3, <1>4, <1>5, StepKinds DEF vars, dbVars

-----------------------------------------------------------------------------
\* Empty wallets and idle sessions satisfy the inductive invariant.
LEMMA InvariantInit == Init => IInv
<1> SUFFICES ASSUME Init PROVE IInv
  OBVIOUS
<1>1. /\ Tables = EmptyTables
      /\ available = [w \in Wallets |-> 0] /\ status = [w \in Wallets |-> "ACTIVE"] /\ journal = {}
  BY DEF Init, Tables, EmptyTables
<1>2. TypeOK
  BY <1>1, EmptyTyped DEF Init, TypeOK
<1>3. SnapInv
  BY DEF Init, SnapInv
<1>4. NeverOverdrawn /\ ClosedIsEmpty /\ HoldResolvedOnce
  BY <1>1 DEF NeverOverdrawn, ClosedIsEmpty, HoldResolvedOnce, Resolvers
<1>5. HeldInv
  <2>1. \A w \in Wallets : HeldNaira(w) = {} /\ held[w] = 0
    BY DEF Init, EmptyTables, HeldNaira, OpenHolds, HoldsOf
  <2> QED
    BY <2>1, FS_EmptySet DEF HeldInv, HeldIsOutstanding
<1> QED
  BY <1>2, <1>3, <1>4, <1>5 DEF IInv

\* Every step of the wallet keeps it: the lemmas above, one per conjunct.
LEMMA InvariantStep == IInv /\ [Next]_vars => IInv'
BY TypeStep, SnapStep, OverdraftStep, ClosedStep, ResolveStep, HeldStep DEF IInv

\* The inductive invariant holds in every reachable state.
THEOREM Invariance == Spec => []IInv
BY InvariantInit, InvariantStep, PTL DEF Spec

\* In every reachable state the tables and the sessions are well typed.
THEOREM WalletTyping == Spec => []TypeOK
<1>1. IInv => TypeOK
  BY DEF IInv
<1> QED
  BY <1>1, Invariance, PTL

\* No number of sessions, debits and holds overdraws a wallet whose debits run at
\* one isolation level.
THEOREM NoOverdraft == Spec => []NeverOverdrawn
<1>1. IInv => NeverOverdrawn
  BY DEF IInv
<1> QED
  BY <1>1, Invariance, PTL

\* A closed wallet is empty, whatever was under way when it was closed.
THEOREM ClosingIsFinal == Spec => []ClosedIsEmpty
<1>1. IInv => ClosedIsEmpty
  BY DEF IInv
<1> QED
  BY <1>1, Invariance, PTL

\* Of the requests that compete for a hold exactly one resolves it.
THEOREM HoldsResolveOnce == Spec => []HoldResolvedOnce
<1>1. IInv => HoldResolvedOnce
  BY DEF IInv
<1> QED
  BY <1>1, Invariance, PTL

\* The held balance is the sum of the open holds: no hold is taken or resolved twice, or
\* only in the journal or only in its row.
THEOREM HeldMoneyIsOutstanding == Spec => []HeldIsOutstanding
<1>1. IInv => HeldIsOutstanding
  BY DEF IInv, HeldInv
<1> QED
  BY <1>1, Invariance, PTL

\* No money leaves a wallet that is frozen or closed.
THEOREM FreezingHolds == Spec => FrozenKeepsMoney
<1> DEFINE Keeps == \A w \in Wallets : status[w] # "ACTIVE"
                      => available'[w] + held'[w] >= available[w] + held[w]
<1>1. IInv /\ [Next]_vars => Keeps
  <2> SUFFICES ASSUME IInv, [Next]_vars, NEW w \in Wallets, status[w] # "ACTIVE"
               PROVE  available'[w] + held'[w] >= available[w] + held[w]
    OBVIOUS
  <2>0. available[w] \in Int /\ held[w] \in Int
    BY DEF IInv, TypeOK, Tables, Database
  <2>1. CASE \E s \in Sessions : MoneyStep(s)
    <3>1. PICK s \in Sessions : MoneyStep(s)
      BY <2>1
    <3>2. Moved(s)
      BY <3>1, MoneyShape
    <3> QED
      BY <2>0, <3>2 DEF Moved
  <2>2. CASE UNCHANGED <<available, held>>
    BY <2>0, <2>2
  <2>3. QuietStep => UNCHANGED <<available, held>>
    BY DEF QuietStep, Begin, CloseWallet, RollBack, FreezeWallet, UnfreezeWallet, SetStatus, dbVars
  <2> QED
    BY <2>1, <2>2, <2>3, StepKinds DEF vars, dbVars
<1>2. IInv /\ [Next]_vars => [Keeps]_vars
  BY <1>1
<1>3. Spec => [][Keeps]_vars
  BY <1>2, Invariance, PTL DEF Spec
<1> QED
  BY <1>3 DEF FrozenKeepsMoney

-----------------------------------------------------------------------------
(* The wallet implements the account, if every wallet's debits run at one   *)
(* isolation level.                                                          *)

\* What a posting is, seen by the account: the request is served, on the current
\* balances.
LEMMA PostServes ==
  ASSUME IInv, NEW s \in Sessions, request[s] \in Requests, OneLevel(Details[request[s]].wallet),
         NEW a \in Int, NEW b \in Int, Post(s, a, b), NEW allowed,
         WalletStatus(s) \in allowed,
         a >= 0 \/ Details[request[s]].kind \in {"DEBIT", "SALE", "HOLD"}
  PROVE  A!Serve(request[s], allowed, a, b)
<1> DEFINE r == request[s]
           w == Details[r].wallet
<1>1. w \in Wallets /\ MayCommit(s) /\ r \notin journal
  BY Asked DEF Post, MayCommit
<1>2. View(s).status[w] = status[w] /\ status[w] \in allowed
  BY <1>1, ViewIsCurrent DEF WalletStatus
<1>3. available[w] \in Int /\ View(s).available[w] \in Int
  BY <1>1 DEF IInv, TypeOK, Database, View, Tables
<1>4. available[w] + a >= 0
  <2>1. CASE a >= 0
    BY <1>1, <1>3, <2>1 DEF IInv, NeverOverdrawn
  <2>2. CASE Details[r].kind \in {"DEBIT", "SALE", "HOLD"}
    <3>1. available[w] >= View(s).available[w]
      BY <1>1, <2>2, ViewIsCurrent
    <3>2. View(s).available[w] + a >= 0
      BY DEF Post
    <3> QED
      BY <1>3, <3>1, <3>2
  <2> QED
    BY <2>1, <2>2
<1> QED
  BY <1>1, <1>2, <1>4 DEF Post, A!Serve

\* A step that moves money serves its request.
LEMMA MoneyServes ==
  ASSUME IInv, \A w \in Wallets : OneLevel(w), NEW s \in Sessions, MoneyStep(s)
  PROVE  request[s] \in Requests /\ A!Request(request[s])
<1> DEFINE r == request[s]
           a == Details[r].amount
           h == Details[r].hold
<1>1. r \in Requests
  BY DEF MoneyStep, Credit, Debit, CreateHold, ReleaseHold, CaptureHold, Runs
<1>2. /\ OneLevel(Details[r].wallet) /\ a \in Nat /\ a \in Int /\ -a \in Int /\ 0 \in Int
      /\ a >= 0 /\ Details[r].hold \in Holds \cup {NoHold}
      /\ Details[r].kind \in {"HOLD", "RELEASE", "CAPTURE"} => h # NoHold
      /\ WalletStatus(s) # "CLOSED" => WalletStatus(s) \in A!Open
  <2>1. Details[r].wallet \in Wallets /\ a \in Nat /\ h \in Holds \cup {NoHold}
        /\ (Details[r].kind \in {"HOLD", "RELEASE", "CAPTURE"} => h # NoHold)
    BY <1>1, Asked, DetailsAssumption
  <2>2. WalletStatus(s) \in {"ACTIVE", "FROZEN", "CLOSED"}
    BY <2>1 DEF IInv, TypeOK, Database, View, Tables, WalletStatus
  <2> QED
    BY <2>1, <2>2 DEF A!Open
<1>3. ASSUME MayCommit(s), h # NoHold PROVE HoldStatus(s) = hold[h]
  BY <1>1, <1>3, ViewIsCurrent DEF HoldStatus
<1>4. CASE Credit(s)
  <2>1. Details[r].kind = "CREDIT" /\ Post(s, a, 0) /\ UNCHANGED hold /\ WalletStatus(s) # "CLOSED"
    BY <1>4 DEF Credit, Runs, Amount, MayReceive
  <2>2. A!Serve(r, A!Open, a, 0)
    BY <1>1, <1>2, <2>1, PostServes
  <2> QED
    BY <1>1, <2>1, <2>2 DEF A!Request, A!Deposit
<1>5. CASE Debit(s)
  <2>1. /\ Details[r].kind \in {"DEBIT", "SALE"} /\ Post(s, -a, 0) /\ UNCHANGED hold
        /\ WalletStatus(s) \in {"ACTIVE"}
    BY <1>5 DEF Debit, Runs, Amount, MaySpend
  <2>2. A!Serve(r, {"ACTIVE"}, -a, 0)
    BY <1>1, <1>2, <2>1, PostServes
  <2> QED
    BY <1>1, <2>1, <2>2 DEF A!Request, A!Spend
<1>6. CASE CreateHold(s)
  <2>1. /\ Details[r].kind = "HOLD" /\ Post(s, -a, a) /\ WalletStatus(s) \in {"ACTIVE"}
        /\ HoldStatus(s) = "NONE" /\ hold' = [hold EXCEPT ![h] = "HELD"]
    BY <1>6 DEF CreateHold, Runs, Amount, MaySpend, SetHold
  <2>2. A!Serve(r, {"ACTIVE"}, -a, a) /\ hold[h] = "NONE"
    BY <1>1, <1>2, <1>3, <2>1, PostServes DEF Post
  <2> QED
    BY <1>1, <2>1, <2>2 DEF A!Request, A!Reserve, A!MoveHold
<1>7. CASE ReleaseHold(s)
  <2>1. /\ Details[r].kind = "RELEASE" /\ Post(s, a, -a) /\ WalletStatus(s) # "CLOSED"
        /\ HoldStatus(s) = "HELD" /\ hold' = [hold EXCEPT ![h] = "RELEASED"]
    BY <1>7 DEF ReleaseHold, Runs, Amount, MayReceive, SetHold, Resolvable
  <2>2. A!Serve(r, A!Open, a, -a) /\ hold[h] = "HELD"
    BY <1>1, <1>2, <1>3, <2>1, PostServes DEF Post
  <2> QED
    BY <1>1, <2>1, <2>2 DEF A!Request, A!Release, A!MoveHold
<1>8. CASE CaptureHold(s)
  <2>1. /\ Details[r].kind = "CAPTURE" /\ Post(s, 0, -a) /\ WalletStatus(s) \in {"ACTIVE"}
        /\ HoldStatus(s) = "HELD" /\ hold' = [hold EXCEPT ![h] = "CAPTURED"]
    BY <1>8 DEF CaptureHold, Runs, Amount, MaySpend, SetHold, Resolvable
  <2>2. A!Serve(r, {"ACTIVE"}, 0, -a)
    BY <1>1, <1>2, <2>1, 0 >= 0, PostServes
  <2>3. hold[h] = "HELD"
    BY <1>2, <1>3, <2>1 DEF Post
  <2> QED
    BY <1>1, <2>1, <2>2, <2>3 DEF A!Request, A!Capture, A!MoveHold
<1> QED
  BY <1>1, <1>4, <1>5, <1>6, <1>7, <1>8 DEF MoneyStep

\* Every step of the wallet serves a request, changes a status as the account
\* allows, or changes nothing the account shows.
LEMMA AccountStep ==
  ASSUME \A w \in Wallets : OneLevel(w)
  PROVE  IInv /\ [Next]_vars => [A!Next]_A!vars
<1> SUFFICES ASSUME IInv, [Next]_vars PROVE [A!Next]_A!vars
  OBVIOUS
<1>1. ASSUME NEW s \in Sessions, MoneyStep(s) PROVE A!Next
  BY <1>1, MoneyServes DEF A!Next, A!Requests, Requests
<1>2. ASSUME NEW s \in Sessions, CloseWallet(s) PROVE A!Next
  <2> DEFINE w == Details[request[s]].wallet
  <2>1. /\ w \in Wallets /\ status' = [status EXCEPT ![w] = "CLOSED"] /\ Empty(Tables, w)
        /\ UNCHANGED <<journal, available, held, hold>>
    BY <1>2, CloseShape
  <2>2. status[w] # "CLOSED"
    <3>1. request[s] \in Requests /\ WalletStatus(s) # "CLOSED" /\ MayCommit(s)
      BY <1>2 DEF CloseWallet, Runs
    <3> QED
      BY <3>1, ViewIsCurrent DEF WalletStatus
  <2>3. A!SetStatus(w, "CLOSED")
    BY <2>1, <2>2 DEF A!SetStatus, Empty, Tables
  <2> QED
    BY <2>1, <2>3 DEF A!Next
<1>3. ASSUME NEW w \in Wallets, FreezeWallet(w) \/ UnfreezeWallet(w) PROVE A!Next
  <2>1. PICK st \in {"ACTIVE", "FROZEN"} : status' = [status EXCEPT ![w] = st]
    BY <1>3, FreezeShape DEF IInv
  <2>2. status[w] # "CLOSED" /\ UNCHANGED <<journal, available, held, hold>>
    BY <1>3, FreezeShape DEF IInv
  <2>3. A!SetStatus(w, st) /\ st \in A!Open \cup {"CLOSED"}
    BY <2>1, <2>2 DEF A!SetStatus, A!Open
  <2> QED
    BY <2>3 DEF A!Next
<1>4. ASSUME NEW s \in Sessions, (\E r \in Requests : Begin(s, r)) \/ RollBack(s)
      PROVE  UNCHANGED A!vars
  BY <1>4 DEF Begin, RollBack, dbVars, A!vars
<1>5. UNCHANGED vars => UNCHANGED A!vars
  BY DEF vars, dbVars, A!vars
<1> QED
  BY <1>1, <1>2, <1>3, <1>4, <1>5, StepKinds DEF QuietStep

\* Behind its snapshots, locks and aborts the wallet is an account that serves one
\* request at a time on current balances, if no wallet has debits at two
\* isolation levels.
THEOREM WalletIsAnAccount ==
  ASSUME \A w \in Wallets : OneLevel(w)
  PROVE  Spec => ImplementsAccount
<1>1. Init => A!Init
  BY DEF Init, A!Init, EmptyTables
<1>2. IInv /\ [Next]_vars => [A!Next]_A!vars
  BY AccountStep
<1> QED
  BY <1>1, <1>2, Invariance, PTL DEF Spec, ImplementsAccount, A!Spec
=============================================================================
