--------------------------- MODULE DrawEngineProofs ---------------------------
(***************************************************************************)
(* Theorems about DrawEngine, for every set of draws, engines, tickets and *)
(* entries and every bound.                                                *)
(***************************************************************************)
EXTENDS DrawEngine, TLAPS

(***************************************************************************)
(* Typing                                                                  *)
(***************************************************************************)

\* A write of draws.status changes that column of that row and nothing else.
LEMMA StatusWrite ==
  ASSUME NEW d \in Draws, NEW s \in DrawStatus,
         draw \in [Draws -> DrawRecord], SetStatus(d, s)
  PROVE  /\ draw' \in [Draws -> DrawRecord]
         /\ draw'[d] = [draw[d] EXCEPT !.status = s]
         /\ draw'[d].status = s
         /\ \A x \in Draws : x # d => draw'[x] = draw[x]
<1>1. draw' = [draw EXCEPT ![d] = [draw[d] EXCEPT !.status = s]]
  BY DEF SetStatus
<1>2. [draw[d] EXCEPT !.status = s] \in DrawRecord
  BY DEF DrawRecord
<1>3. [draw[d] EXCEPT !.status = s].status = s
  BY DEF DrawRecord
<1> QED
  BY <1>1, <1>2, <1>3

\* A step of one execution loop leaves its list of due draws and the other
\* engines' loops alone.
LEMMA ExecWrite ==
  ASSUME NEW e \in Engines, NEW pc \in ExecPc,
         NEW d \in Draws \cup {NoDraw}, NEW pool \in SUBSET Units, pc = "idle" <=> d = NoDraw,
         exec \in [Engines -> Execution], ExecStep(e, pc, d, pool)
  PROVE  /\ exec' \in [Engines -> Execution]
         /\ exec'[e].pc = pc /\ exec'[e].draw = d /\ exec'[e].pool = pool
         /\ \A x \in Engines : x # e => exec'[x] = exec[x]
<1> DEFINE after == [pc |-> pc, due |-> exec[e].due, draw |-> d, pool |-> pool]
<1>1. after \in Execution
  BY DEF Execution
<1> QED
  BY <1>1 DEF ExecStep

\* Going on to the next draw frees the loop.
LEMMA NextDrawWrite ==
  ASSUME NEW e \in Engines, exec \in [Engines -> Execution], NextDraw(e)
  PROVE  /\ exec' \in [Engines -> Execution]
         /\ exec'[e].pc = "idle" /\ exec'[e].pool = {}
         /\ \A x \in Engines : x # e => exec'[x] = exec[x]
<1>1. "idle" \in ExecPc /\ NoDraw \in Draws \cup {NoDraw} /\ {} \in SUBSET Units
  BY DEF ExecPc
<1>2. ExecStep(e, "idle", NoDraw, {})
  BY DEF NextDraw
<1> QED
  BY <1>1, <1>2, ExecWrite

\* A change to the list of due draws of one engine, in any state of its loop.
LEMMA DueWrite ==
  ASSUME NEW e \in Engines, NEW D \in SUBSET Draws, exec \in [Engines -> Execution],
         exec' = [exec EXCEPT ![e].due = D]
  PROVE  /\ exec' \in [Engines -> Execution]
         /\ exec'[e].pc = exec[e].pc /\ exec'[e].draw = exec[e].draw /\ exec'[e].pool = exec[e].pool
         /\ \A x \in Engines : x # e => exec'[x] = exec[x]
<1> DEFINE after == [pc |-> exec[e].pc, due |-> D, draw |-> exec[e].draw, pool |-> exec[e].pool]
<1>1. exec' = [exec EXCEPT ![e] = [exec[e] EXCEPT !.due = D]]
  OBVIOUS
<1>2. exec[e] \in Execution
  OBVIOUS
<1>3. [exec[e] EXCEPT !.due = D] = after /\ after \in Execution
  <2>1. exec[e] \in [pc : ExecPc, due : SUBSET Draws, draw : Draws \cup {NoDraw}, pool : SUBSET Units]
    BY <1>2 DEF Execution
  <2> QED
    BY <1>2, <2>1 DEF Execution
<1> HIDE DEF after
<1>4. exec' = [exec EXCEPT ![e] = after]
  BY <1>1, <1>3
<1> QED
  BY <1>3, <1>4 DEF after

\* The tables and the loops start with the declared types.
LEMMA TypeInit == Init => TypeOK
<1>1. Uncreated \in DrawRecord
  BY BoundsAssumption DEF Uncreated, DrawRecord, Times
<1>2. Idle \in Execution
  BY DEF Idle, Execution, ExecPc
<1> QED
  BY <1>1, <1>2, BoundsAssumption DEF Init, TypeOK, Times, NotPaid, UnitStatus, PaymentStatus

\* The step of typing, one case per action.
LEMMA TypeStep == TypeOK /\ [Next]_vars => TypeOK'
<1> SUFFICES ASSUME TypeOK, [Next]_vars PROVE TypeOK'
  OBVIOUS
<1> USE DEF TypeOK, drawVars, ticketVars, engineVars, adminVars
<1>1. CASE Tick
  BY <1>1, BoundsAssumption DEF Tick, Times, NotPaid
<1>2. ASSUME NEW d \in Draws, CreateDraw(d) PROVE TypeOK'
  BY <1>2 DEF CreateDraw, Schedules, DrawRecord, DrawStatus, OpenStatus
<1>3. ASSUME NEW d \in Draws, ReadEditable(d) \/ ReadCancellable(d) PROVE TypeOK'
  BY <1>3 DEF ReadEditable, ReadCancellable
<1>4. ASSUME NEW d \in Draws, WriteEdit(d) PROVE TypeOK'
  BY <1>4 DEF WriteEdit, Schedules, DrawRecord
<1>5. ASSUME NEW d \in Draws, WriteCancel(d) PROVE TypeOK'
  BY <1>5 DEF WriteCancel, SetStatus, DrawRecord, DrawStatus
<1>6. ASSUME NEW e \in Engines, ReadUncommitted(e) PROVE TypeOK'
  BY <1>6 DEF ReadUncommitted
<1>7. ASSUME NEW e \in Engines, NEW d \in Draws, CommitSeed(e, d) PROVE TypeOK'
  BY <1>7 DEF CommitSeed
<1>8. ASSUME NEW e \in Engines, ReadReady(e) \/ ReadPastCutoff(e) PROVE TypeOK'
  <2>1. Ready \subseteq Transition /\ PastCutoff \subseteq Transition
    BY DEF Ready, PastCutoff, ClosableStatus, Transition
  <2> QED
    BY <1>8, <2>1 DEF ReadReady, ReadPastCutoff
<1>9. ASSUME NEW e \in Engines, NEW m \in Transition, WriteTransition(e, m) PROVE TypeOK'
  <2>1. draw' \in [Draws -> DrawRecord]
    BY <1>9, StatusWrite DEF WriteTransition, Transition, DrawStatus, OpenStatus
  <2> QED
    BY <1>9, <2>1 DEF WriteTransition
<1>10. ASSUME NEW e \in Engines, ReadDue(e) PROVE TypeOK'
  <2>1. {d \in Draws : IsDue(d)} \in SUBSET Draws
    OBVIOUS
  <2>2. exec' = [exec EXCEPT ![e].due = {d \in Draws : IsDue(d)}]
    BY <1>10 DEF ReadDue
  <2> HIDE DEF IsDue
  <2>3. exec' \in [Engines -> Execution]
    BY <2>1, <2>2, DueWrite
  <2> QED
    BY <1>10, <2>3 DEF ReadDue
<1>11. ASSUME NEW e \in Engines, NEW d \in Draws, ClaimDraw(e, d) PROVE TypeOK'
  <2>1. draw' \in [Draws -> DrawRecord]
    BY <1>11, StatusWrite DEF ClaimDraw, DrawStatus
  <2>2. exec' \in [Engines -> Execution]
    <3>1. exec[e].due \ {d} \in SUBSET Draws
      BY DEF Execution
    <3>2. [pc |-> "claimed", due |-> exec[e].due \ {d}, draw |-> d, pool |-> {}] \in Execution
      BY <3>1, SetsAssumption DEF Execution, ExecPc
    <3> QED
      BY <1>11, <3>1, <3>2, DueWrite DEF ClaimDraw
  <2> QED
    BY <1>11, <2>1, <2>2 DEF ClaimDraw
<1>12. ASSUME NEW e \in Engines, ReadCommitment(e) \/ LockPool(e) PROVE TypeOK'
  <2>1. exec[e].draw \in Draws \cup {NoDraw}
    BY DEF Execution
  <2>2. EligiblePool(exec[e].draw) \in SUBSET Units
    BY DEF EligiblePool, Units
  <2>a. exec[e].pc # "idle" => exec[e].draw \in Draws
    BY DEF Execution
  <2>b. {"idle", "committed", "empty", "locked"} \subseteq ExecPc /\ {} \in SUBSET Units
    BY DEF ExecPc
  <2>3. exec' \in [Engines -> Execution]
    <3>1. CASE ReadCommitment(e)
      BY <3>1, <2>1, <2>a, <2>b, SetsAssumption, ExecWrite, NextDrawWrite DEF ReadCommitment
    <3>2. CASE LockPool(e)
      <4> DEFINE pc == IF EligiblePool(exec[e].draw) = {} THEN "empty" ELSE "locked"
      <4>1. pc \in ExecPc /\ pc # "idle"
        BY DEF ExecPc
      <4>2. ExecStep(e, pc, exec[e].draw, EligiblePool(exec[e].draw)) /\ exec[e].draw # NoDraw
        BY <3>2, <2>a, SetsAssumption DEF LockPool
      <4> HIDE DEF pc
      <4> QED
        BY <4>1, <4>2, <2>1, <2>2, ExecWrite
    <3> QED
      BY <1>12, <3>1, <3>2
  <2> QED
    BY <1>12, <2>3 DEF ReadCommitment, LockPool
<1>13. ASSUME NEW e \in Engines, CancelEmptyDraw(e) PROVE TypeOK'
  <2>0. exec[e].draw \in Draws
    BY <1>13 DEF CancelEmptyDraw, Execution
  <2>1. draw' \in [Draws -> DrawRecord]
    BY <1>13, <2>0, StatusWrite DEF CancelEmptyDraw, DrawStatus
  <2>2. exec' \in [Engines -> Execution]
    BY <1>13, NextDrawWrite DEF CancelEmptyDraw
  <2> QED
    BY <1>13, <2>1, <2>2 DEF CancelEmptyDraw
<1>14. ASSUME NEW e \in Engines, PublishResult(e) PROVE TypeOK'
  <2>0. exec[e].draw \in Draws
    BY <1>14 DEF PublishResult, Execution
  <2>1. draw' \in [Draws -> DrawRecord]
    BY <1>14, <2>0, StatusWrite DEF PublishResult, DrawStatus
  <2>2. exec' \in [Engines -> Execution]
    BY <1>14, NextDrawWrite DEF PublishResult
  <2>3. unit' \in [Units -> UnitStatus]
    BY <1>14 DEF PublishResult, UnitStatus
  <2>5. exec[e].pool \in SUBSET Units
    BY DEF Execution
  <2>6. seed[exec[e].draw] \in Engines \cup {NoSeed}
    BY <2>0
  <2>4. result' \in [Draws -> DrawResult \cup {NoResult}]
    BY <1>14, <2>0, <2>5, <2>6 DEF PublishResult, DrawResult
  <2> QED
    BY <1>14, <2>1, <2>2, <2>3, <2>4 DEF PublishResult
<1>15. ASSUME NEW e \in Engines, AbandonDraw(e) PROVE TypeOK'
  <2>1. exec' \in [Engines -> Execution]
    BY <1>15, NextDrawWrite DEF AbandonDraw
  <2> QED
    BY <1>15, <2>1 DEF AbandonDraw
<1>16. ASSUME NEW e \in Engines,
              LoseSeedTick(e) \/ LoseLifecycleTick(e) \/ LoseExecutionTick(e) \/ CrashEngine(e)
       PROVE  TypeOK'
  <2>1. Idle \in Execution
    BY DEF Idle, Execution, ExecPc
  <2> QED
    BY <1>16, <2>1 DEF LoseSeedTick, LoseLifecycleTick, LoseExecutionTick, CrashEngine
<1>17. ASSUME NEW t \in Tickets, NEW d \in Draws,
              InitiatePurchase(t, d) \/ WalletPurchase(t, d) \/ AgentChecksDraw(t, d)
       PROVE  TypeOK'
  BY <1>17 DEF InitiatePurchase, WalletPurchase, AgentChecksDraw, UnitStatus, PaymentStatus
<1>18. ASSUME NEW t \in Tickets,
              CustomerPays(t) \/ PaymentFails(t) \/ ConfirmPurchase(t) \/ AgentIssuesTicket(t)
       PROVE  TypeOK'
  BY <1>18 DEF CustomerPays, PaymentFails, ConfirmPurchase, AgentIssuesTicket,
               UnitStatus, PaymentStatus
<1>19. ASSUME NEW t \in Tickets,
              CheckRefund(t) \/ ReserveRefund(t) \/ RefundSucceeds(t) \/ RefundFails(t)
       PROVE  TypeOK'
  BY <1>19 DEF CheckRefund, ReserveRefund, RefundSucceeds, RefundFails,
               Quarantine, ExpireQuarantined, UnitStatus, PaymentStatus
<1>20. CASE UNCHANGED vars
  BY <1>20 DEF vars
<1> QED
  BY <1>1, <1>2, <1>3, <1>4, <1>5, <1>6, <1>7, <1>8, <1>9, <1>10, <1>11, <1>12, <1>13,
     <1>14, <1>15, <1>16, <1>17, <1>18, <1>19, <1>20
  DEF Next, AdminNext, EngineNext, SeedLoop, LifecycleLoop, ExecutionLoop, SalesNext, RefundNext

\* Every step of the system keeps every table and every process well typed.
THEOREM Typing == Spec => []TypeOK
<1> QED
  BY TypeInit, TypeStep, PTL DEF Spec

(***************************************************************************)
(* The inductive invariant, one lemma per part                             *)
(***************************************************************************)

\* No action but a sale binds a ticket to a draw, and a sale needs an ACTIVE draw,
\* which only a transition read from a committed draw can make.
LEMMA SeedStep == IInv /\ [Next]_vars => SeedInv'
<1> SUFFICES ASSUME IInv, [Next]_vars PROVE SeedInv'
  OBVIOUS
<1> USE DEF IInv, drawVars, ticketVars, engineVars, adminVars
<1>0. TypeOK /\ SeedInv /\ draw \in [Draws -> DrawRecord] /\ drawOf \in [Units -> Draws \cup {NoDraw}]
  BY DEF TypeOK
<1>1. CASE UNCHANGED <<draw, seed, lifecycle, drawOf>>
  BY <1>0, <1>1 DEF SeedInv, Status
<1>2. ASSUME NEW d \in Draws, CreateDraw(d) \/ WriteEdit(d) PROVE SeedInv'
  <2>1. /\ UNCHANGED <<seed, lifecycle, drawOf>>
        /\ \A x \in Draws : Status(x)' = "ACTIVE" => Status(x) = "ACTIVE"
    <3>1. CASE CreateDraw(d)
      BY <1>0, <3>1 DEF CreateDraw, Status
    <3>2. CASE WriteEdit(d)
      BY <1>0, <3>2 DEF WriteEdit, Status
    <3> QED
      BY <1>2, <3>1, <3>2
  <2> QED
    BY <1>0, <2>1 DEF SeedInv
<1>3. ASSUME NEW d \in Draws, NEW s \in DrawStatus \ {"ACTIVE"}, SetStatus(d, s),
             UNCHANGED <<seed, lifecycle, drawOf>>
      PROVE  SeedInv'
  <2>1. \A x \in Draws : Status(x)' = "ACTIVE" => Status(x) = "ACTIVE"
    BY <1>0, <1>3, StatusWrite DEF Status
  <2> QED
    BY <1>0, <1>3, <2>1 DEF SeedInv
<1>4. ASSUME NEW e \in Engines, NEW d \in Draws, CommitSeed(e, d) PROVE SeedInv'
  <2>1. UNCHANGED <<draw, lifecycle, drawOf>> /\ \A x \in Draws : seed[x] # NoSeed => seed'[x] # NoSeed
    BY <1>4 DEF CommitSeed, FirstCommitment, TypeOK
  <2>2. \A x \in Engines : \A m \in lifecycle[x] : m.draw \in Draws
    BY DEF TypeOK, Transition
  <2> QED
    BY <1>0, <2>1, <2>2 DEF SeedInv, Status
<1>5. ASSUME NEW e \in Engines, ReadReady(e) \/ ReadPastCutoff(e) PROVE SeedInv'
  <2>1. \A m \in Ready \cup PastCutoff : m.to = "ACTIVE" => seed[m.draw] # NoSeed
    BY DEF Ready, PastCutoff, Committed
  <2> QED
    BY <1>0, <1>5, <2>1 DEF ReadReady, ReadPastCutoff, SeedInv, Status, TypeOK
<1>6. ASSUME NEW e \in Engines, NEW m \in Transition, WriteTransition(e, m) PROVE SeedInv'
  <2>1. m.draw \in Draws /\ m.to \in DrawStatus /\ (m.to = "ACTIVE" => seed[m.draw] # NoSeed)
    BY <1>0, <1>6 DEF WriteTransition, SeedInv, Transition, DrawStatus, OpenStatus
  <2>2. \A x \in Draws : Status(x)' = "ACTIVE" => seed[x] # NoSeed
    BY <1>0, <1>6, <2>1, StatusWrite DEF WriteTransition, Status, SeedInv
  <2> QED
    BY <1>0, <1>6, <2>2 DEF WriteTransition, SeedInv, TypeOK
<1>7. ASSUME NEW e \in Engines, LoseLifecycleTick(e) \/ CrashEngine(e) PROVE SeedInv'
  BY <1>0, <1>7 DEF LoseLifecycleTick, CrashEngine, SeedInv, Status, TypeOK
<1>8. ASSUME NEW t \in Tickets, NEW d \in Draws,
             InitiatePurchase(t, d) \/ WalletPurchase(t, d) \/ AgentChecksDraw(t, d)
      PROVE  SeedInv'
  <2>1. UNCHANGED <<draw, seed, lifecycle>> /\ Status(d) = "ACTIVE" /\ drawOf' = [drawOf EXCEPT ![t] = d]
    BY <1>8 DEF InitiatePurchase, WalletPurchase, AgentChecksDraw, SalesOpen
  <2>2. Tickets \subseteq Units
    BY DEF Units
  <2> QED
    BY <1>0, <2>1, <2>2 DEF SeedInv, Status
<1> QED
  <2>1. ASSUME NEW e \in Engines, NEW d \in Draws, ClaimDraw(e, d) PROVE SeedInv'
    BY <1>1, <1>3, <2>1 DEF ClaimDraw, DrawStatus
  <2>2. ASSUME NEW e \in Engines, CancelEmptyDraw(e) \/ PublishResult(e) PROVE SeedInv'
    <3>1. exec[e].draw \in Draws
      BY <2>2 DEF CancelEmptyDraw, PublishResult, TypeOK, Execution
    <3> QED
      BY <1>3, <2>2, <3>1 DEF CancelEmptyDraw, PublishResult, DrawStatus
  <2>3. ASSUME NEW d \in Draws, WriteCancel(d) PROVE SeedInv'
    BY <1>3, <2>3 DEF WriteCancel, DrawStatus
  <2>4. ASSUME NEW e \in Engines,
               \/ ReadUncommitted(e) \/ ReadDue(e) \/ ReadCommitment(e) \/ LockPool(e)
               \/ AbandonDraw(e) \/ LoseSeedTick(e) \/ LoseExecutionTick(e)
        PROVE  SeedInv'
    BY <1>1, <2>4 DEF ReadUncommitted, ReadDue, ReadCommitment, LockPool, AbandonDraw,
                      LoseSeedTick, LoseExecutionTick
  <2>5. ASSUME NEW d \in Draws, ReadEditable(d) \/ ReadCancellable(d) PROVE SeedInv'
    BY <1>1, <2>5 DEF ReadEditable, ReadCancellable
  <2>6. ASSUME NEW t \in Tickets,
               \/ CustomerPays(t) \/ PaymentFails(t) \/ ConfirmPurchase(t) \/ AgentIssuesTicket(t)
               \/ CheckRefund(t) \/ ReserveRefund(t) \/ RefundSucceeds(t) \/ RefundFails(t)
        PROVE  SeedInv'
    BY <1>1, <2>6 DEF CustomerPays, PaymentFails, ConfirmPurchase, AgentIssuesTicket,
                      CheckRefund, ReserveRefund, RefundSucceeds, RefundFails
  <2>7. CASE Tick \/ UNCHANGED vars
    BY <1>1, <2>7 DEF Tick, vars
  <2> QED
    BY <1>2, <1>4, <1>5, <1>6, <1>7, <1>8, <2>1, <2>2, <2>3, <2>4, <2>5, <2>6, <2>7
    DEF Next, AdminNext, EngineNext, SeedLoop, LifecycleLoop, ExecutionLoop, SalesNext, RefundNext

\* A ticket is issued to a bound purchase only, and no payment is refunded, failed
\* or pending with the ticket it is for in the wrong state.
LEMMA TicketStep == IInv /\ [Next]_vars => TicketInv'
<1> SUFFICES ASSUME IInv, [Next]_vars PROVE TicketInv'
  OBVIOUS
<1> USE DEF IInv, drawVars, ticketVars, engineVars, adminVars
<1>0. /\ TypeOK /\ TicketInv
      /\ unit \in [Units -> UnitStatus] /\ drawOf \in [Units -> Draws \cup {NoDraw}]
      /\ payment \in [Tickets -> PaymentStatus] /\ refunding \subseteq GatewayTickets
      /\ Tickets \subseteq Units /\ GatewayTickets \subseteq Tickets /\ Locking \subseteq Tickets
      /\ Entries \subseteq Units /\ \A t \in Tickets : t \notin Entries
      /\ \A t \in AgentTickets : t \notin Locking
      /\ \A t \in WalletTickets : t \notin GatewayTickets
      /\ \A t \in AgentTickets : t \notin GatewayTickets
  BY SetsAssumption DEF TypeOK, Tickets, Units, Locking
<1>1. CASE UNCHANGED <<unit, drawOf, payment, refunding>>
  BY <1>0, <1>1 DEF TicketInv
<1>2. ASSUME NEW e \in Engines, PublishResult(e) PROVE TicketInv'
  <2>1. PICK w \in exec[e].pool : unit' = [unit EXCEPT ![w] = "WINNING"]
    BY <1>2 DEF PublishResult
  <2>2. w \in Units /\ unit[w] \notin {"NONE", "CHECKED"}
    BY <2>1, <1>0 DEF PoolInv, Issued, TypeOK, Execution
  <2>3. UNCHANGED <<drawOf, payment, refunding>>
    BY <1>2 DEF PublishResult
  <2> QED
    BY <1>0, <2>1, <2>2, <2>3 DEF TicketInv
<1>3. ASSUME NEW t \in Tickets, NEW d \in Draws, InitiatePurchase(t, d) PROVE TicketInv'
  BY <1>0, <1>3 DEF InitiatePurchase, TicketInv
<1>4. ASSUME NEW t \in Tickets, NEW d \in Draws, WalletPurchase(t, d) PROVE TicketInv'
  BY <1>0, <1>4 DEF WalletPurchase, TicketInv
<1>5. ASSUME NEW t \in Tickets, NEW d \in Draws, AgentChecksDraw(t, d) PROVE TicketInv'
  BY <1>0, <1>5 DEF AgentChecksDraw, TicketInv
<1>6. ASSUME NEW t \in Tickets, PaymentFails(t) PROVE TicketInv'
  BY <1>0, <1>6 DEF PaymentFails, TicketInv
<1>7. ASSUME NEW t \in Tickets, ConfirmPurchase(t) PROVE TicketInv'
  BY <1>0, <1>7 DEF ConfirmPurchase, TicketInv
<1>8. ASSUME NEW t \in Tickets, AgentIssuesTicket(t) PROVE TicketInv'
  <2>1. t \notin Locking /\ t \notin GatewayTickets
    BY <1>0, <1>8 DEF AgentIssuesTicket, TicketInv, Locking
  <2> QED
    BY <1>0, <1>8, <2>1 DEF AgentIssuesTicket, TicketInv
<1>9. ASSUME NEW t \in Tickets, ReserveRefund(t) PROVE TicketInv'
  <2>1. t \in GatewayTickets
    BY <1>9 DEF ReserveRefund, TypeOK
  <2>2. CASE UNCHANGED <<payment, unit>>
    BY <1>0, <1>9, <2>2 DEF ReserveRefund, TicketInv
  <2>3. CASE /\ payment' = [payment EXCEPT ![t] = "REFUND_PENDING"]
             /\ unit' = [unit EXCEPT ![t] = Quarantine(@)]
    <3>1. drawOf' = drawOf /\ refunding' = refunding \ {t}
      BY <1>9 DEF ReserveRefund
    <3>2. unit'[t] \in {"REFUND_PENDING", unit[t]} /\ (unit[t] # "ACTIVE" => unit'[t] = unit[t])
      BY <1>0, <2>3 DEF Quarantine
    <3>3. drawOf[t] \in Draws
      BY <1>0, <1>9, <2>1 DEF TicketInv, ReserveRefund
    <3> QED
      BY <1>0, <2>1, <2>3, <3>1, <3>2, <3>3 DEF TicketInv
  <2> QED
    BY <1>9, <2>2, <2>3 DEF ReserveRefund
<1>10. ASSUME NEW t \in Tickets, CheckRefund(t) PROVE TicketInv'
  BY <1>0, <1>10 DEF CheckRefund, TicketInv
<1>11. ASSUME NEW t \in Tickets, RefundSucceeds(t) PROVE TicketInv'
  BY <1>0, <1>11 DEF RefundSucceeds, TicketInv, ExpireQuarantined
<1>12. ASSUME NEW t \in Tickets, RefundFails(t) PROVE TicketInv'
  BY <1>0, <1>12 DEF RefundFails, TicketInv
<1> QED
  <2>1. ASSUME NEW d \in Draws,
               CreateDraw(d) \/ ReadEditable(d) \/ WriteEdit(d) \/ ReadCancellable(d) \/ WriteCancel(d)
        PROVE  TicketInv'
    BY <1>1, <2>1 DEF CreateDraw, ReadEditable, WriteEdit, ReadCancellable, WriteCancel
  <2>2. ASSUME NEW e \in Engines, SeedLoop(e) \/ LifecycleLoop(e) PROVE TicketInv'
    BY <1>1, <2>2 DEF SeedLoop, LifecycleLoop, ReadUncommitted, CommitSeed, ReadReady, ReadPastCutoff, WriteTransition
  <2>3. ASSUME NEW e \in Engines,
               \/ ReadDue(e) \/ (\E d \in Draws : ClaimDraw(e, d)) \/ ReadCommitment(e) \/ LockPool(e)
               \/ CancelEmptyDraw(e) \/ AbandonDraw(e)
               \/ LoseSeedTick(e) \/ LoseLifecycleTick(e) \/ LoseExecutionTick(e) \/ CrashEngine(e)
        PROVE  TicketInv'
    BY <1>1, <2>3 DEF ReadDue, ClaimDraw, ReadCommitment, LockPool, CancelEmptyDraw, AbandonDraw,
                      LoseSeedTick, LoseLifecycleTick, LoseExecutionTick, CrashEngine
  <2>4. ASSUME NEW t \in Tickets, CustomerPays(t) PROVE TicketInv'
    BY <1>1, <2>4 DEF CustomerPays
  <2>5. CASE Tick \/ UNCHANGED vars
    BY <1>1, <2>5 DEF Tick, vars
  <2> QED
    BY <1>2, <1>3, <1>4, <1>5, <1>6, <1>7, <1>8, <1>9, <1>10, <1>11, <1>12, <2>1, <2>2, <2>3, <2>4, <2>5
    DEF Next, AdminNext, EngineNext, ExecutionLoop, SalesNext, RefundNext

\* Only a claim starts an execution, it starts from SALES_CLOSED, and a draw that is
\* executed or final never goes back there.
LEMMA ExecutionStep == IInv /\ [Next]_vars => ExecInv'
<1> SUFFICES ASSUME IInv, [Next]_vars PROVE ExecInv'
  OBVIOUS
<1> USE DEF IInv, drawVars, ticketVars, engineVars, adminVars
<1>0. /\ TypeOK /\ ExecInv /\ OneExecutor
      /\ draw \in [Draws -> DrawRecord] /\ seed \in [Draws -> Engines \cup {NoSeed}]
      /\ exec \in [Engines -> Execution] /\ result \in [Draws -> DrawResult \cup {NoResult}]
      /\ \A x \in Engines : exec[x].pc # "idle" => exec[x].draw \in Draws
      /\ \A x \in Engines : exec[x].due \in SUBSET Draws
  BY DEF TypeOK, ExecInv, Execution
<1> DEFINE Claimed == {"EXECUTING", "CANCELLED"}
           StatusKept == \A x \in Draws : /\ Status(x) \in Claimed => Status(x)' \in Claimed
                                          /\ Status(x) \in Final => Status(x)' \in Final
           SeedKept == \A x \in Draws : seed[x] # NoSeed => seed'[x] # NoSeed
           NoneStarts == \A x \in Engines : exec'[x].pc # "idle" =>
                           /\ exec[x].pc # "idle" /\ exec'[x].draw = exec[x].draw
                           /\ exec'[x].pc # "claimed" =>
                                exec[x].pc # "claimed" \/ seed[exec[x].draw] # NoSeed
\* A step that starts no execution and publishes nothing.
<1>1. ASSUME StatusKept, SeedKept, NoneStarts, result' = result PROVE ExecInv'
  <2>1. \A x \in Engines : exec'[x].pc # "idle" =>
          /\ draw'[exec'[x].draw].status \in Claimed
          /\ result'[exec'[x].draw] = NoResult
          /\ exec'[x].pc # "claimed" => seed'[exec'[x].draw] # NoSeed
    BY <1>0, <1>1 DEF ExecInv, Status
  <2>2. OneExecutor'
    BY <1>0, <1>1 DEF OneExecutor
  <2>3. \A x \in Draws : result'[x] # NoResult => Status(x)' \in Final
    BY <1>0, <1>1 DEF ExecInv
  <2> HIDE DEF Claimed
  <2> QED
    BY <2>1, <2>2, <2>3 DEF ExecInv, Claimed, Status
<1>2. ASSUME UNCHANGED draw PROVE StatusKept
  BY <1>2 DEF Status
<1>3. ASSUME UNCHANGED seed PROVE SeedKept
  BY <1>3
<1>4. ASSUME UNCHANGED exec PROVE NoneStarts
  BY <1>4
<1>5. ASSUME NEW d \in Draws, SetStatus(d, "CANCELLED") PROVE StatusKept
  BY <1>0, <1>5, StatusWrite DEF Status, DrawStatus, Final
<1>6. ASSUME NEW e \in Engines, NextDraw(e) PROVE NoneStarts
  <2>1. exec'[e].pc = "idle" /\ \A x \in Engines : x # e => exec'[x] = exec[x]
    <3>1. exec \in [Engines -> Execution]
      BY <1>0
    <3> QED
      BY <3>1, <1>6, NextDrawWrite
  <2> QED
    BY <2>1
<1>7. ASSUME NEW d \in Draws, CreateDraw(d) \/ WriteEdit(d) PROVE ExecInv'
  <2>1. StatusKept
    <3>1. CASE CreateDraw(d)
      BY <1>0, <3>1 DEF CreateDraw, Status, Final
    <3>2. CASE WriteEdit(d)
      BY <1>0, <3>2 DEF WriteEdit, Status
    <3> QED
      BY <1>7, <3>1, <3>2
  <2> QED
    BY <2>1, <1>1, <1>3, <1>4, <1>7 DEF CreateDraw, WriteEdit
<1>8. ASSUME NEW d \in Draws, WriteCancel(d) PROVE ExecInv'
  BY <1>1, <1>3, <1>4, <1>5, <1>8 DEF WriteCancel
<1>9. ASSUME NEW e \in Engines, NEW d \in Draws, CommitSeed(e, d) PROVE ExecInv'
  <2>1. SeedKept
    BY <1>0, <1>9 DEF CommitSeed, FirstCommitment
  <2> QED
    BY <2>1, <1>1, <1>2, <1>4, <1>9 DEF CommitSeed
<1>10. ASSUME NEW e \in Engines, NEW m \in Transition, WriteTransition(e, m) PROVE ExecInv'
  <2>1. StatusKept
    BY <1>0, <1>10, StatusWrite
    DEF WriteTransition, StillFrom, Transition, Status, DrawStatus, OpenStatus, Final
  <2> QED
    BY <2>1, <1>1, <1>3, <1>4, <1>10 DEF WriteTransition
<1>11. ASSUME NEW e \in Engines, ReadDue(e) PROVE ExecInv'
  <2>1. NoneStarts
    <3> DEFINE D == {d \in Draws : IsDue(d)}
    <3>1. D \in SUBSET Draws /\ exec' = [exec EXCEPT ![e].due = D]
      BY <1>11 DEF ReadDue
    <3> HIDE DEF D
    <3> QED
      BY <1>0, <3>1, DueWrite
  <2> QED
    BY <2>1, <1>1, <1>2, <1>3, <1>11 DEF ReadDue
<1>12. ASSUME NEW e \in Engines, NEW d \in Draws, ClaimDraw(e, d) PROVE ExecInv'
  <2>1. CASE Claimable(d)
    <3>1. /\ Status(d) = "SALES_CLOSED" /\ SetStatus(d, "EXECUTING")
          /\ exec' = [exec EXCEPT ![e] = [pc |-> "claimed", due |-> @.due \ {d},
                                          draw |-> d, pool |-> {}]]
          /\ UNCHANGED <<seed, result>>
      BY <1>12, <2>1 DEF ClaimDraw, Claimable
    <3>2. /\ Status(d)' = "EXECUTING" /\ \A x \in Draws : x # d => Status(x)' = Status(x)
      BY <1>0, <3>1, StatusWrite DEF Status, DrawStatus
    <3>3. /\ exec'[e].pc = "claimed" /\ exec'[e].draw = d
          /\ \A x \in Engines : x # e => exec'[x] = exec[x]
      BY <1>0, <3>1
    <3>4. result[d] = NoResult /\ \A x \in Engines : exec[x].pc # "idle" => exec[x].draw # d
      BY <1>0, <3>1 DEF ExecInv, Final
    <3>5. \A x \in Engines : exec'[x].pc # "idle" =>
            /\ draw'[exec'[x].draw].status \in Claimed
            /\ result'[exec'[x].draw] = NoResult
            /\ exec'[x].pc # "claimed" => seed'[exec'[x].draw] # NoSeed
      BY <1>0, <3>1, <3>2, <3>3, <3>4 DEF ExecInv, Status
    <3>6. OneExecutor'
      BY <1>0, <3>3, <3>4, SetsAssumption DEF OneExecutor
    <3>7. \A x \in Draws : result'[x] # NoResult => Status(x)' \in Final
      BY <1>0, <3>1, <3>2, <3>4 DEF ExecInv
    <3> HIDE DEF Claimed
    <3> QED
      BY <3>5, <3>6, <3>7 DEF ExecInv, Claimed, Status
  <2>2. CASE ~Claimable(d)
    <3>1. /\ exec[e].due \ {d} \in SUBSET Draws
          /\ exec' = [exec EXCEPT ![e].due = exec[e].due \ {d}]
          /\ UNCHANGED <<draw, seed, result>>
      BY <1>0, <1>12, <2>2 DEF ClaimDraw
    <3>2. NoneStarts
      BY <1>0, <3>1, DueWrite
    <3> QED
      BY <3>1, <3>2, <1>1, <1>2, <1>3
  <2> QED
    BY <2>1, <2>2
<1>13. ASSUME NEW e \in Engines, ReadCommitment(e) PROVE ExecInv'
  <2> DEFINE d == exec[e].draw
  <2>1. d \in Draws /\ d # NoDraw /\ UNCHANGED <<draw, seed, result>>
    BY <1>0, <1>13, SetsAssumption DEF ReadCommitment
  <2>2. CASE seed[d] # NoSeed
    <3>1. ExecStep(e, "committed", d, {}) /\ exec[e].pc = "claimed"
      BY <1>13, <2>2 DEF ReadCommitment
    <3>2. "committed" \in ExecPc
      BY DEF ExecPc
    <3> HIDE DEF d
    <3>3. exec'[e].draw = d /\ \A x \in Engines : x # e => exec'[x] = exec[x]
      <4>1. {} \in SUBSET Units /\ d \in Draws \cup {NoDraw} /\ exec \in [Engines -> Execution]
        BY <1>0, <2>1
      <4>2. "committed" = "idle" <=> d = NoDraw
        BY <2>1
      <4> QED
        BY <3>1, <3>2, <4>1, <4>2, ExecWrite
    <3>4. NoneStarts
      BY <3>1, <3>3, <2>2 DEF d
    <3> QED
      BY <2>1, <3>4, <1>1, <1>2, <1>3
  <2>3. CASE seed[d] = NoSeed
    BY <1>13, <2>1, <2>3, <1>1, <1>2, <1>3, <1>6 DEF ReadCommitment
  <2> QED
    BY <2>2, <2>3
<1>14. ASSUME NEW e \in Engines, LockPool(e) PROVE ExecInv'
  <2> DEFINE d == exec[e].draw
             pc == IF EligiblePool(d) = {} THEN "empty" ELSE "locked"
             pool == EligiblePool(d)
  <2>1. /\ d \in Draws /\ d # NoDraw /\ UNCHANGED <<draw, seed, result>>
        /\ exec[e].pc = "committed" /\ pc \in ExecPc /\ pc # "idle"
        /\ ExecStep(e, pc, d, pool) /\ pool \in SUBSET Units
    BY <1>0, <1>14, SetsAssumption DEF LockPool, ExecPc, EligiblePool, Units
  <2> HIDE DEF d, pc, pool
  <2>2. exec'[e].draw = d /\ \A x \in Engines : x # e => exec'[x] = exec[x]
    <3>1. d \in Draws \cup {NoDraw} /\ exec \in [Engines -> Execution] /\ (pc = "idle" <=> d = NoDraw)
      BY <1>0, <2>1
    <3> QED
      BY <2>1, <3>1, ExecWrite
  <2>3. NoneStarts
    BY <2>1, <2>2 DEF d
  <2> QED
    BY <2>1, <2>3, <1>1, <1>2, <1>3
<1>15. ASSUME NEW e \in Engines, CancelEmptyDraw(e) PROVE ExecInv'
  <2>1. exec[e].draw \in Draws
    BY <1>0, <1>15 DEF CancelEmptyDraw
  <2> QED
    BY <2>1, <1>1, <1>3, <1>5, <1>6, <1>15 DEF CancelEmptyDraw
<1>16. ASSUME NEW e \in Engines, PublishResult(e) PROVE ExecInv'
  <2> DEFINE d == exec[e].draw
  <2>1. /\ d \in Draws /\ exec[e].pc = "locked" /\ SetStatus(d, "COMPLETED") /\ NextDraw(e)
        /\ UNCHANGED seed /\ \A x \in Draws : x # d => result'[x] = result[x]
    BY <1>0, <1>16 DEF PublishResult
  <2> HIDE DEF d
  <2>2. draw'[d].status = "COMPLETED" /\ \A x \in Draws : x # d => Status(x)' = Status(x)
    <3>1. draw \in [Draws -> DrawRecord] /\ d \in Draws /\ "COMPLETED" \in DrawStatus /\ SetStatus(d, "COMPLETED")
      BY <1>0, <2>1 DEF DrawStatus
    <3> QED
      BY <3>1, StatusWrite DEF Status
  <2>3. exec'[e].pc = "idle" /\ \A x \in Engines : x # e => exec'[x] = exec[x]
    <3>1. exec \in [Engines -> Execution] /\ NextDraw(e)
      BY <1>0, <2>1
    <3> QED
      BY <3>1, NextDrawWrite
  <2>4. \A x \in Engines : x # e /\ exec[x].pc # "idle" => exec[x].draw # d
    BY <1>0, <2>1 DEF OneExecutor, d
  <2>5. \A x \in Engines : exec'[x].pc # "idle" =>
          /\ draw'[exec'[x].draw].status \in Claimed
          /\ result'[exec'[x].draw] = NoResult
          /\ exec'[x].pc # "claimed" => seed'[exec'[x].draw] # NoSeed
    BY <1>0, <2>1, <2>2, <2>3, <2>4 DEF ExecInv, Status
  <2>6. OneExecutor'
    BY <1>0, <2>3 DEF OneExecutor
  <2>7. \A x \in Draws : result'[x] # NoResult => Status(x)' \in Final
    BY <1>0, <2>1, <2>2 DEF ExecInv, Final, Status
  <2> HIDE DEF Claimed
  <2> QED
    BY <2>5, <2>6, <2>7 DEF ExecInv, Claimed, Status
<1>17. ASSUME NEW e \in Engines, AbandonDraw(e) PROVE ExecInv'
  BY <1>1, <1>2, <1>3, <1>6, <1>17 DEF AbandonDraw
<1>18. ASSUME NEW e \in Engines, LoseExecutionTick(e) \/ CrashEngine(e) PROVE ExecInv'
  <2>1. NoneStarts
    BY <1>0, <1>18 DEF LoseExecutionTick, CrashEngine, Idle
  <2> QED
    BY <2>1, <1>1, <1>2, <1>3, <1>18 DEF LoseExecutionTick, CrashEngine
<1>19. CASE UNCHANGED <<draw, seed, result, exec>>
  BY <1>19, <1>1, <1>2, <1>3, <1>4
<1> QED
  <2>1. ASSUME NEW d \in Draws, ReadEditable(d) \/ ReadCancellable(d) PROVE ExecInv'
    BY <1>19, <2>1 DEF ReadEditable, ReadCancellable
  <2>2. ASSUME NEW e \in Engines,
               ReadUncommitted(e) \/ ReadReady(e) \/ ReadPastCutoff(e) \/ LoseSeedTick(e) \/ LoseLifecycleTick(e)
        PROVE  ExecInv'
    BY <1>19, <2>2 DEF ReadUncommitted, ReadReady, ReadPastCutoff, LoseSeedTick, LoseLifecycleTick
  <2>3. CASE SalesNext
    BY <1>19, <2>3 DEF SalesNext, InitiatePurchase, WalletPurchase, AgentChecksDraw, CustomerPays,
                       PaymentFails, ConfirmPurchase, AgentIssuesTicket
  <2>4. CASE RefundNext
    BY <1>19, <2>4 DEF RefundNext, CheckRefund, ReserveRefund, RefundSucceeds, RefundFails
  <2>5. CASE Tick \/ UNCHANGED vars
    BY <1>19, <2>5 DEF Tick, vars
  <2> QED
    BY <1>7, <1>8, <1>9, <1>10, <1>11, <1>12, <1>13, <1>14, <1>15, <1>16, <1>17, <1>18,
       <2>1, <2>2, <2>3, <2>4, <2>5
    DEF Next, AdminNext, EngineNext, SeedLoop, LifecycleLoop, ExecutionLoop

\* What a step may do to the tickets and entries: an issued one stays issued and
\* bound to its draw, one of a locking channel goes live in an open draw only, and
\* only the publication of a result makes a winner.
Bound == \A u \in Units : Issued(u) => unit'[u] \notin {"NONE", "CHECKED"} /\ drawOf'[u] = drawOf[u]

SoldWhileOpen ==
    \A t \in Locking : unit'[t] = "ACTIVE" =>
      \/ unit[t] = "ACTIVE" /\ drawOf'[t] = drawOf[t]
      \/ drawOf'[t] \in Draws /\ Status(drawOf'[t]) \in {"ACTIVE", "SALES_CLOSED"}

WinnersKept ==
    UNCHANGED result /\ \A u \in Units : unit'[u] = "WINNING" <=> unit[u] = "WINNING"

\* Only the draw itself makes a unit WINNING; sales and refunds leave the winners be.
LEMMA UnitStep ==
  IInv /\ [Next]_vars =>
    Bound /\ SoldWhileOpen /\ (WinnersKept \/ \E e \in Engines : PublishResult(e))
<1> DEFINE Goal == Bound /\ SoldWhileOpen /\ (WinnersKept \/ \E e \in Engines : PublishResult(e))
<1> SUFFICES ASSUME IInv, [Next]_vars PROVE Goal
  OBVIOUS
<1> USE DEF IInv, drawVars, ticketVars, engineVars, adminVars
<1>0. /\ TicketInv /\ PoolInv /\ TypeOK
      /\ unit \in [Units -> UnitStatus] /\ drawOf \in [Units -> Draws \cup {NoDraw}]
      /\ refunding \subseteq GatewayTickets
      /\ GatewayTickets \subseteq Locking /\ Locking \subseteq Tickets /\ Tickets \subseteq Units
      /\ \A t \in Tickets : t \notin Entries
  BY SetsAssumption DEF TypeOK, Tickets, Units, Locking
<1>1. CASE UNCHANGED <<unit, drawOf, result>>
  BY <1>0, <1>1 DEF Bound, SoldWhileOpen, WinnersKept, Issued
<1>2. ASSUME NEW e \in Engines, PublishResult(e) PROVE Goal
  <2>1. PICK w \in exec[e].pool : unit' = [unit EXCEPT ![w] = "WINNING"]
    BY <1>2 DEF PublishResult
  <2>2. UNCHANGED drawOf
    BY <1>2 DEF PublishResult
  <2> QED
    BY <1>0, <1>2, <2>1, <2>2 DEF Bound, SoldWhileOpen, Issued
<1>3. ASSUME NEW t \in Tickets, NEW d \in Draws, InitiatePurchase(t, d) PROVE Goal
  <2>1. unit[t] = "NONE" /\ UNCHANGED <<unit, result>> /\ drawOf' = [drawOf EXCEPT ![t] = d]
    BY <1>0, <1>3 DEF InitiatePurchase, TicketInv
  <2> QED
    BY <1>0, <2>1 DEF Bound, SoldWhileOpen, WinnersKept, Issued
<1>4. ASSUME NEW t \in Tickets, NEW d \in Draws, WalletPurchase(t, d) PROVE Goal
  BY <1>0, <1>4 DEF WalletPurchase, SalesOpen, Bound, SoldWhileOpen, WinnersKept, Issued
<1>5. ASSUME NEW t \in Tickets, NEW d \in Draws, AgentChecksDraw(t, d) PROVE Goal
  BY <1>0, <1>5 DEF AgentChecksDraw, Bound, SoldWhileOpen, WinnersKept, Issued
<1>6. ASSUME NEW t \in Tickets, ConfirmPurchase(t) PROVE Goal
  <2>1. UNCHANGED <<result, drawOf>>
    BY <1>6 DEF ConfirmPurchase
  <2>2. unit[t] = "NONE" /\ drawOf[t] \in Draws
    BY <1>0, <1>6 DEF ConfirmPurchase, TicketInv
  <2>3. \/ UNCHANGED unit
        \/ unit' = [unit EXCEPT ![t] = "ACTIVE"] /\ Status(drawOf[t]) \in {"ACTIVE", "SALES_CLOSED"}
    BY <1>6 DEF ConfirmPurchase, Fulfillable
  <2> QED
    BY <1>0, <2>1, <2>2, <2>3 DEF Bound, SoldWhileOpen, WinnersKept, Issued
<1>7. ASSUME NEW t \in Tickets, AgentIssuesTicket(t) PROVE Goal
  <2>1. t \notin Locking
    BY <1>0, <1>7 DEF AgentIssuesTicket, TicketInv
  <2> QED
    BY <1>0, <1>7, <2>1 DEF AgentIssuesTicket, Bound, SoldWhileOpen, WinnersKept, Issued
<1>8. ASSUME NEW t \in Tickets, ReserveRefund(t) PROVE Goal
  <2>1. UNCHANGED <<result, drawOf>>
    BY <1>8 DEF ReserveRefund
  <2>2. \/ UNCHANGED unit
        \/ unit' = [unit EXCEPT ![t] = Quarantine(unit[t])]
    BY <1>8 DEF ReserveRefund
  <2> QED
    BY <1>0, <2>1, <2>2 DEF Quarantine, Bound, SoldWhileOpen, WinnersKept, Issued
<1>9. ASSUME NEW t \in Tickets, RefundSucceeds(t) PROVE Goal
  BY <1>0, <1>9 DEF RefundSucceeds, ExpireQuarantined, Bound, SoldWhileOpen, WinnersKept, Issued
<1> HIDE DEF Goal
<1> QED
  <2>1. CASE AdminNext
    BY <1>1, <2>1 DEF AdminNext, CreateDraw, ReadEditable, WriteEdit, ReadCancellable, WriteCancel
  <2>2. ASSUME NEW e \in Engines, SeedLoop(e) \/ LifecycleLoop(e) PROVE Goal
    BY <1>1, <2>2 DEF SeedLoop, LifecycleLoop, ReadUncommitted, CommitSeed, ReadReady, ReadPastCutoff, WriteTransition
  <2>3. ASSUME NEW e \in Engines,
               \/ ReadDue(e) \/ (\E d \in Draws : ClaimDraw(e, d)) \/ ReadCommitment(e) \/ LockPool(e)
               \/ CancelEmptyDraw(e) \/ AbandonDraw(e)
               \/ LoseSeedTick(e) \/ LoseLifecycleTick(e) \/ LoseExecutionTick(e) \/ CrashEngine(e)
        PROVE  Goal
    BY <1>1, <2>3 DEF ReadDue, ClaimDraw, ReadCommitment, LockPool, CancelEmptyDraw, AbandonDraw,
                      LoseSeedTick, LoseLifecycleTick, LoseExecutionTick, CrashEngine
  <2>4. ASSUME NEW t \in Tickets,
               CustomerPays(t) \/ PaymentFails(t) \/ CheckRefund(t) \/ RefundFails(t)
        PROVE  Goal
    BY <1>1, <2>4 DEF CustomerPays, PaymentFails, CheckRefund, RefundFails
  <2>5. CASE Tick \/ UNCHANGED vars
    BY <1>1, <2>5 DEF Tick, vars
  <2> QED
    BY <1>2, <1>3, <1>4, <1>5, <1>6, <1>7, <1>8, <1>9, <2>1, <2>2, <2>3, <2>4, <2>5
    DEF Next, EngineNext, ExecutionLoop, SalesNext, RefundNext

\* What a step may do to the pool an engine holds: keep it, drop it, or read it anew.
LEMMA LoopStep ==
  ASSUME IInv, [Next]_vars, NEW e \in Engines
  PROVE  \/ exec'[e].pc = exec[e].pc /\ exec'[e].draw = exec[e].draw /\ exec'[e].pool = exec[e].pool
         \/ exec'[e].pool = {} /\ exec'[e].pc \notin {"locked", "empty"}
         \/ LockPool(e)
<1> DEFINE Kept == exec'[e].pc = exec[e].pc /\ exec'[e].draw = exec[e].draw /\ exec'[e].pool = exec[e].pool
           Dropped == exec'[e].pool = {} /\ exec'[e].pc \notin {"locked", "empty"}
           Goal == Kept \/ Dropped \/ LockPool(e)
<1> SUFFICES Goal
  OBVIOUS
<1> USE DEF IInv, drawVars, ticketVars, engineVars, adminVars
<1>0. exec \in [Engines -> Execution] /\ exec[e].due \in SUBSET Draws
  BY DEF TypeOK, Execution
<1>1. CASE UNCHANGED exec
  BY <1>1
<1>2. ASSUME NEW x \in Engines, ReadDue(x) PROVE Goal
  <2> DEFINE D == {d \in Draws : IsDue(d)}
  <2>1. D \in SUBSET Draws /\ exec' = [exec EXCEPT ![x].due = D]
    BY <1>2 DEF ReadDue
  <2> HIDE DEF D
  <2> QED
    BY <1>0, <2>1, DueWrite
<1>3. ASSUME NEW x \in Engines, NEW d \in Draws, ClaimDraw(x, d) PROVE Goal
  <2>1. CASE Claimable(d)
    <3>1. exec' = [exec EXCEPT ![x] = [pc |-> "claimed", due |-> @.due \ {d}, draw |-> d, pool |-> {}]]
      BY <1>3, <2>1 DEF ClaimDraw
    <3> QED
      BY <1>0, <3>1
  <2>2. CASE ~Claimable(d)
    <3>1. exec[x].due \ {d} \in SUBSET Draws
      BY <1>0 DEF TypeOK, Execution
    <3>2. exec' = [exec EXCEPT ![x].due = exec[x].due \ {d}]
      BY <1>3, <2>2 DEF ClaimDraw
    <3> QED
      BY <1>0, <3>1, <3>2, DueWrite
  <2> QED
    BY <2>1, <2>2
<1>4. ASSUME NEW x \in Engines, NextDraw(x) PROVE Goal
  BY <1>0, <1>4, NextDrawWrite
<1>5. ASSUME NEW x \in Engines, ReadCommitment(x) PROVE Goal
  <2>1. CASE seed[exec[x].draw] # NoSeed
    <3>1. ExecStep(x, "committed", exec[x].draw, {})
      BY <1>5, <2>1 DEF ReadCommitment
    <3> QED
      BY <1>0, <3>1 DEF ExecStep
  <2>2. CASE seed[exec[x].draw] = NoSeed
    BY <1>4, <1>5, <2>2 DEF ReadCommitment
  <2> QED
    BY <2>1, <2>2
<1>6. ASSUME NEW x \in Engines, LockPool(x) PROVE Goal
  <2>1. CASE x = e
    BY <1>6, <2>1
  <2>2. CASE x # e
    BY <1>0, <1>6, <2>2 DEF LockPool, ExecStep
  <2> QED
    BY <2>1, <2>2
<1>7. ASSUME NEW x \in Engines, CancelEmptyDraw(x) \/ PublishResult(x) \/ AbandonDraw(x) PROVE Goal
  BY <1>4, <1>7 DEF CancelEmptyDraw, PublishResult, AbandonDraw
<1>8. ASSUME NEW x \in Engines, LoseExecutionTick(x) \/ CrashEngine(x) PROVE Goal
  BY <1>0, <1>8 DEF LoseExecutionTick, CrashEngine, Idle
<1> HIDE DEF Goal
<1> QED
  <2>1. CASE AdminNext
    BY <1>1, <2>1 DEF AdminNext, CreateDraw, ReadEditable, WriteEdit, ReadCancellable, WriteCancel
  <2>2. ASSUME NEW x \in Engines,
               SeedLoop(x) \/ LifecycleLoop(x) \/ LoseSeedTick(x) \/ LoseLifecycleTick(x)
        PROVE  Goal
    BY <1>1, <2>2 DEF SeedLoop, LifecycleLoop, ReadUncommitted, CommitSeed, ReadReady, ReadPastCutoff,
                      WriteTransition, LoseSeedTick, LoseLifecycleTick
  <2>3. CASE SalesNext
    BY <1>1, <2>3 DEF SalesNext, InitiatePurchase, WalletPurchase, AgentChecksDraw, CustomerPays,
                      PaymentFails, ConfirmPurchase, AgentIssuesTicket
  <2>4. CASE RefundNext
    BY <1>1, <2>4 DEF RefundNext, CheckRefund, ReserveRefund, RefundSucceeds, RefundFails
  <2>5. CASE Tick \/ UNCHANGED vars
    BY <1>1, <2>5 DEF Tick, vars
  <2> QED
    BY <1>2, <1>3, <1>5, <1>6, <1>7, <1>8, <2>1, <2>2, <2>3, <2>4, <2>5
    DEF Next, EngineNext, ExecutionLoop

\* A pool is read after the claim, when no locking channel sells for the draw any more.
LEMMA PoolStep == IInv /\ [Next]_vars => PoolInv'
<1> SUFFICES ASSUME IInv, [Next]_vars, NEW e \in Engines
    PROVE  /\ \A u \in exec'[e].pool : drawOf'[u] = exec'[e].draw /\ unit'[u] \notin {"NONE", "CHECKED"}
           /\ exec'[e].pc \in {"locked", "empty"} =>
                \A t \in Locking : drawOf'[t] = exec'[e].draw /\ unit'[t] = "ACTIVE" => t \in exec'[e].pool
  BY DEF PoolInv, Issued
<1> USE DEF IInv
<1>0. /\ ExecInv /\ PoolInv /\ exec[e].pool \subseteq Units
      /\ Locking \subseteq Tickets /\ Tickets \subseteq Units
  BY DEF TypeOK, Execution, Locking, Tickets, Units
<1>1. Bound /\ SoldWhileOpen
  BY UnitStep
<1>2. CASE exec'[e].pc = exec[e].pc /\ exec'[e].draw = exec[e].draw /\ exec'[e].pool = exec[e].pool
  <2>1. \A u \in exec'[e].pool : drawOf'[u] = exec'[e].draw /\ unit'[u] \notin {"NONE", "CHECKED"}
    BY <1>0, <1>1, <1>2 DEF PoolInv, Bound
  <2>2. ASSUME exec'[e].pc \in {"locked", "empty"}, NEW t \in Locking,
               drawOf'[t] = exec'[e].draw, unit'[t] = "ACTIVE"
        PROVE  t \in exec'[e].pool
    <3>1. Status(exec[e].draw) \in {"EXECUTING", "CANCELLED"}
      BY <1>0, <1>2, <2>2 DEF ExecInv
    <3>2. unit[t] = "ACTIVE" /\ drawOf[t] = exec[e].draw
      BY <1>1, <1>2, <2>2, <3>1 DEF SoldWhileOpen
    <3> QED
      BY <1>0, <1>2, <2>2, <3>2 DEF PoolInv
  <2> QED
    BY <2>1, <2>2
<1>3. CASE exec'[e].pool = {} /\ exec'[e].pc \notin {"locked", "empty"}
  BY <1>3
<1>4. CASE LockPool(e)
  <2>1. UNCHANGED <<unit, drawOf>>
    BY <1>4 DEF LockPool, ticketVars
  <2>2. exec'[e].draw = exec[e].draw /\ exec'[e].pool = EligiblePool(exec[e].draw)
    BY <1>4 DEF LockPool, ExecStep, TypeOK
  <2> QED
    BY <1>0, <2>1, <2>2 DEF EligiblePool, Issued
<1> QED
  BY <1>2, <1>3, <1>4, LoopStep

\* Where a result is published: the draw had none, and its winner is in its pool.
LEMMA Publication ==
  ASSUME IInv, NEW e \in Engines, PublishResult(e)
  PROVE  \E d \in Draws, w \in Units :
           /\ exec[e].pc = "locked" /\ exec[e].draw = d /\ w \in exec[e].pool
           /\ result[d] = NoResult /\ drawOf[w] = d
           /\ UNCHANGED drawOf /\ unit' = [unit EXCEPT ![w] = "WINNING"]
           /\ result'[d] # NoResult /\ result'[d].winner = w /\ result'[d].pool = exec[e].pool
           /\ seed[d] # NoSeed /\ result'[d].seed = seed[d] /\ UNCHANGED seed
           /\ \A x \in Draws : x # d => result'[x] = result[x]
<1> USE DEF IInv
<1>1. PICK w \in exec[e].pool :
        /\ result' = [result EXCEPT ![exec[e].draw] = [winner |-> w, pool |-> exec[e].pool,
                                                       seed |-> seed[exec[e].draw]]]
        /\ unit' = [unit EXCEPT ![w] = "WINNING"]
  BY DEF PublishResult
<1>2. /\ exec[e].draw \in Draws /\ exec[e].pool \in SUBSET Units /\ w \in Units
      /\ exec[e].pc = "locked" /\ result[exec[e].draw] = NoResult /\ UNCHANGED <<drawOf, seed>>
      /\ seed[exec[e].draw] # NoSeed
  BY <1>1 DEF PublishResult, TypeOK, Execution, ExecInv
<1>3. drawOf[w] = exec[e].draw
  BY <1>1 DEF PoolInv
<1>4. [winner |-> w, pool |-> exec[e].pool, seed |-> seed[exec[e].draw]] \in DrawResult
  BY <1>2 DEF TypeOK, DrawResult
<1>5. /\ result'[exec[e].draw] = [winner |-> w, pool |-> exec[e].pool, seed |-> seed[exec[e].draw]]
      /\ \A x \in Draws : x # exec[e].draw => result'[x] = result[x]
  BY <1>1, <1>2 DEF TypeOK
<1>6. /\ result'[exec[e].draw] # NoResult
      /\ result'[exec[e].draw].winner = w /\ result'[exec[e].draw].pool = exec[e].pool
      /\ result'[exec[e].draw].seed = seed[exec[e].draw]
  BY <1>4, <1>5, SetsAssumption
<1> QED
  BY <1>1, <1>2, <1>3, <1>5, <1>6

\* The winner is published and marked in one transaction, and nothing unmarks it.
LEMMA WinnerStep == IInv /\ [Next]_vars => WinnerInv'
<1> SUFFICES ASSUME IInv, [Next]_vars PROVE WinnerInv'
  OBVIOUS
<1> USE DEF IInv
<1>0. /\ WinnerInv /\ unit \in [Units -> UnitStatus]
      /\ \A d \in Draws : result[d] # NoResult => result[d].winner \in Units
  BY DEF TypeOK, DrawResult
<1>1. CASE WinnersKept
  <2>1. \A u \in Units : unit[u] = "WINNING" => drawOf'[u] = drawOf[u]
    BY UnitStep DEF Bound, Issued
  <2> QED
    BY <1>0, <1>1, <2>1 DEF WinnerInv, WinnersKept
<1>2. ASSUME NEW e \in Engines, PublishResult(e) PROVE WinnerInv'
  <2>1. PICK d \in Draws, w \in Units :
          /\ result[d] = NoResult /\ drawOf[w] = d
          /\ UNCHANGED drawOf /\ unit' = [unit EXCEPT ![w] = "WINNING"]
          /\ result'[d] # NoResult /\ result'[d].winner = w
          /\ \A x \in Draws : x # d => result'[x] = result[x]
    BY <1>2, Publication
  <2>2. \A u \in Units : unit'[u] = "WINNING" <=> u = w \/ unit[u] = "WINNING"
    BY <1>0, <2>1
  <2>3. ASSUME NEW u \in Units, unit'[u] = "WINNING"
        PROVE  drawOf'[u] \in Draws /\ result'[drawOf'[u]] # NoResult /\ result'[drawOf'[u]].winner = u
    BY <1>0, <2>1, <2>2, <2>3 DEF WinnerInv
  <2>4. ASSUME NEW x \in Draws, result'[x] # NoResult
        PROVE  unit'[result'[x].winner] = "WINNING" /\ drawOf'[result'[x].winner] = x
    BY <1>0, <2>1, <2>2, <2>4 DEF WinnerInv
  <2> QED
    BY <2>3, <2>4 DEF WinnerInv
<1> QED
  BY <1>1, <1>2, UnitStep

\* Once a result is out, no locking channel adds a live ticket to its draw.
LEMMA LockedSaleStep == IInv /\ [Next]_vars => NoLockedSaleLeftOut'
<1> SUFFICES ASSUME IInv, [Next]_vars, NEW d \in Draws, NEW t \in Locking,
                    result'[d] # NoResult, drawOf'[t] = d, unit'[t] \in {"ACTIVE", "WINNING"}
             PROVE  t \in result'[d].pool
  BY DEF NoLockedSaleLeftOut
<1> USE DEF IInv
<1>0. /\ t \in Units /\ NoLockedSaleLeftOut /\ ExecInv /\ WinnerInv /\ PoolInv
      /\ unit \in [Units -> UnitStatus]
  BY DEF TypeOK, Locking, Tickets, Units
<1>1. CASE WinnersKept
  <2>1. result[d] # NoResult /\ result'[d] = result[d] /\ Status(d) \in Final
    BY <1>0, <1>1 DEF WinnersKept, ExecInv
  <2>2. CASE unit'[t] = "WINNING"
    <3>1. unit[t] = "WINNING" /\ drawOf'[t] = drawOf[t]
      BY <1>0, <1>1, <2>2, UnitStep DEF WinnersKept, Bound, Issued
    <3> QED
      BY <1>0, <2>1, <3>1 DEF NoLockedSaleLeftOut
  <2>3. CASE unit'[t] = "ACTIVE"
    <3>1. unit[t] = "ACTIVE" /\ drawOf[t] = d
      BY <2>1, <2>3, UnitStep DEF SoldWhileOpen, Final
    <3> QED
      BY <1>0, <2>1, <3>1 DEF NoLockedSaleLeftOut
  <2> QED
    BY <2>2, <2>3
<1>2. ASSUME NEW e \in Engines, PublishResult(e) PROVE t \in result'[d].pool
  <2>1. PICK x \in Draws, w \in Units :
          /\ exec[e].pc = "locked" /\ exec[e].draw = x /\ w \in exec[e].pool
          /\ result[x] = NoResult /\ drawOf[w] = x
          /\ UNCHANGED drawOf /\ unit' = [unit EXCEPT ![w] = "WINNING"]
          /\ result'[x] # NoResult /\ result'[x].winner = w /\ result'[x].pool = exec[e].pool
          /\ \A y \in Draws : y # x => result'[y] = result[y]
    BY <1>2, Publication
  <2>2. unit'[t] = IF t = w THEN "WINNING" ELSE unit[t]
    BY <1>0, <2>1
  <2>3. CASE d = x
    <3>1. unit[t] # "WINNING"
      BY <1>0, <2>1, <2>3 DEF WinnerInv
    <3> QED
      BY <1>0, <2>1, <2>2, <2>3, <3>1 DEF PoolInv
  <2>4. CASE d # x
    BY <1>0, <2>1, <2>2, <2>4 DEF NoLockedSaleLeftOut
  <2> QED
    BY <2>3, <2>4
<1> QED
  BY <1>1, <1>2, UnitStep

\* The seed is sealed once and a result keeps the seed it was published with.
Sealed == \A d \in Draws :
            /\ result[d] # NoResult => result'[d] = result[d]
            /\ seed[d] # NoSeed => seed'[d] = seed[d]
            /\ result'[d] # NoResult => result'[d].seed = seed[d]

\* No step replaces a result or a commitment, and what a new result reveals is
\* the commitment on record.
LEMMA RevealStep == IInv /\ [Next]_vars => Sealed /\ RevealInv'
<1> SUFFICES ASSUME IInv, [Next]_vars PROVE Sealed /\ RevealInv'
  OBVIOUS
<1> USE DEF IInv, drawVars, ticketVars, engineVars, adminVars
<1>0. RevealInv /\ seed \in [Draws -> Engines \cup {NoSeed}]
  BY DEF TypeOK
<1>1. CASE UNCHANGED <<seed, result>>
  BY <1>0, <1>1 DEF Sealed, RevealInv
<1>2. ASSUME NEW e \in Engines, NEW d \in Draws, CommitSeed(e, d) PROVE Sealed /\ RevealInv'
  <2>1. UNCHANGED result /\ \A x \in Draws : seed[x] # NoSeed => seed'[x] = seed[x]
    BY <1>0, <1>2 DEF CommitSeed, FirstCommitment
  <2> QED
    BY <1>0, <2>1 DEF Sealed, RevealInv
<1>3. ASSUME NEW e \in Engines, PublishResult(e) PROVE Sealed /\ RevealInv'
  <2>1. PICK d \in Draws, w \in Units :
          /\ result[d] = NoResult
          /\ seed[d] # NoSeed /\ result'[d].seed = seed[d] /\ UNCHANGED seed
          /\ \A x \in Draws : x # d => result'[x] = result[x]
    BY <1>3, Publication
  <2> QED
    BY <1>0, <2>1 DEF Sealed, RevealInv
<1> QED
  <2>1. CASE AdminNext
    BY <1>1, <2>1 DEF AdminNext, CreateDraw, ReadEditable, WriteEdit, ReadCancellable, WriteCancel
  <2>2. ASSUME NEW e \in Engines,
               \/ ReadUncommitted(e) \/ LifecycleLoop(e) \/ ReadDue(e) \/ (\E d \in Draws : ClaimDraw(e, d))
               \/ ReadCommitment(e) \/ LockPool(e) \/ CancelEmptyDraw(e) \/ AbandonDraw(e)
               \/ LoseSeedTick(e) \/ LoseLifecycleTick(e) \/ LoseExecutionTick(e) \/ CrashEngine(e)
        PROVE  Sealed /\ RevealInv'
    BY <1>1, <2>2 DEF ReadUncommitted, LifecycleLoop, ReadReady, ReadPastCutoff, WriteTransition, ReadDue, ClaimDraw,
                      ReadCommitment, LockPool, CancelEmptyDraw, AbandonDraw,
                      LoseSeedTick, LoseLifecycleTick, LoseExecutionTick, CrashEngine
  <2>3. CASE SalesNext
    BY <1>1, <2>3 DEF SalesNext, InitiatePurchase, WalletPurchase, AgentChecksDraw, CustomerPays,
                      PaymentFails, ConfirmPurchase, AgentIssuesTicket
  <2>4. CASE RefundNext
    BY <1>1, <2>4 DEF RefundNext, CheckRefund, ReserveRefund, RefundSucceeds, RefundFails
  <2>5. CASE Tick \/ UNCHANGED vars
    BY <1>1, <2>5 DEF Tick, vars
  <2> QED
    BY <1>2, <1>3, <2>1, <2>2, <2>3, <2>4, <2>5 DEF Next, EngineNext, SeedLoop, ExecutionLoop

\* The empty tables satisfy the inductive invariant.
LEMMA InvariantInit == Init => IInv
<1> SUFFICES ASSUME Init PROVE IInv
  OBVIOUS
<1>1. TypeOK
  BY TypeInit
<1>2. /\ \A e \in Engines : exec[e] = Idle /\ lifecycle[e] = {}
      /\ \A d \in Draws : draw[d] = Uncreated /\ result[d] = NoResult
      /\ \A t \in Tickets : unit[t] = "NONE" /\ drawOf[t] = NoDraw /\ payment[t] = "NONE"
      /\ \A n \in Entries : unit[n] = "ACTIVE" /\ drawOf[n] \in Draws
      /\ refunding = {}
  BY SetsAssumption DEF Init, Units
<1>3. SeedInv
  BY <1>2, SetsAssumption DEF SeedInv, Status, Uncreated
<1>4. TicketInv
  BY <1>2, SetsAssumption DEF TicketInv, Locking, Tickets
<1>5. ExecInv
  BY <1>2 DEF ExecInv, OneExecutor, Idle
<1>6. PoolInv
  BY <1>2 DEF PoolInv, Idle
<1>7. WinnerInv
  BY <1>2 DEF WinnerInv, Units
<1>8. NoLockedSaleLeftOut /\ RevealInv
  BY <1>2 DEF NoLockedSaleLeftOut, RevealInv
<1> QED
  BY <1>1, <1>3, <1>4, <1>5, <1>6, <1>7, <1>8 DEF IInv

\* Every step of the system keeps the inductive invariant: the lemmas above, one
\* per conjunct.
LEMMA InvariantStep == IInv /\ [Next]_vars => IInv'
<1> SUFFICES ASSUME IInv, [Next]_vars PROVE IInv'
  OBVIOUS
<1>1. TypeOK'
  BY TypeStep DEF IInv
<1>2. SeedInv' /\ TicketInv' /\ ExecInv' /\ PoolInv' /\ WinnerInv' /\ RevealInv'
      /\ NoLockedSaleLeftOut'
  BY SeedStep, TicketStep, ExecutionStep, PoolStep, WinnerStep, RevealStep, LockedSaleStep
<1> QED
  BY <1>1, <1>2 DEF IInv

\* The inductive invariant holds in every reachable state, for any number of
\* draws, engines and tickets: the loops and desks keep their rows consistent.
THEOREM Invariance == Spec => []IInv
<1> QED
  BY InvariantInit, InvariantStep, PTL DEF Spec

(***************************************************************************)
(* What follows for the players                                            *)
(***************************************************************************)

\* In every reachable state a draw with a ticket has its seed committed.
THEOREM NoSaleBeforeCommitment == Spec => []SeedBeforeSales
<1>1. IInv => SeedBeforeSales
  BY DEF IInv, SeedInv, SeedBeforeSales, TicketsOf, TicketInv
<1> QED
  BY <1>1, Invariance, PTL

\* In every reachable state at most one engine process executes a draw.
THEOREM ExecutionIsExclusive == Spec => []OneExecutor
<1>1. IInv => OneExecutor
  BY DEF IInv, ExecInv
<1> QED
  BY <1>1, Invariance, PTL

\* No pool that was drawn misses a live ticket of a channel that locks the draw.
THEOREM EveryLockedSaleIsDrawn == Spec => []NoLockedSaleLeftOut
<1>1. IInv => NoLockedSaleLeftOut
  BY DEF IInv
<1> QED
  BY <1>1, Invariance, PTL

\* The units marked WINNING are the winners of the published results.
THEOREM WinnersArePublished == Spec => []OneWinner
<1>1. IInv => OneWinner
  BY DEF IInv, WinnerInv, OneWinner
<1> QED
  BY <1>1, Invariance, PTL

\* Results and commitments are written once, and a result reveals the commitment.
THEOREM CommitmentIsRevealed == Spec => CommitThenReveal
<1>1. IInv /\ [Next]_vars => [Sealed]_vars
  BY RevealStep
<1>2. Spec => [][Sealed]_vars
  BY <1>1, Invariance, PTL DEF Spec
<1> QED
  BY <1>2 DEF CommitThenReveal, Sealed

\* A draw that was claimed, drawn or cancelled never goes back on sale.
THEOREM SalesNeverReopen == Spec => NeverReopened
<1> DEFINE Closed == {"EXECUTING"} \cup Final
           A == \A d \in Draws : Status(d) \in Closed => draw'[d].status \in Closed
<1>1. TypeOK /\ [Next]_vars => [A]_vars
  <2> SUFFICES ASSUME TypeOK, [Next]_vars PROVE A
    OBVIOUS
  <2> USE DEF drawVars, ticketVars, engineVars, adminVars
  <2>0. draw \in [Draws -> DrawRecord]
    BY DEF TypeOK
  <2>1. CASE UNCHANGED draw
    BY <2>1 DEF Status
  <2>2. ASSUME NEW d \in Draws, NEW s \in DrawStatus, SetStatus(d, s), s \in Closed PROVE A
    BY <2>0, <2>2, StatusWrite DEF Status
  <2>3. ASSUME NEW d \in Draws, CreateDraw(d) PROVE A
    BY <2>0, <2>3 DEF CreateDraw, Status, Final
  <2>4. ASSUME NEW d \in Draws, WriteEdit(d) PROVE A
    BY <2>0, <2>4 DEF WriteEdit, Status
  <2>5. ASSUME NEW d \in Draws, WriteCancel(d) PROVE A
    BY <2>2, <2>5 DEF WriteCancel, DrawStatus, Final
  <2>6. ASSUME NEW e \in Engines, NEW m \in Transition, WriteTransition(e, m) PROVE A
    <3>1. m.draw \in Draws /\ m.to \in DrawStatus /\ m.from \notin Closed
      BY DEF Transition, DrawStatus, OpenStatus, Final
    <3> QED
      BY <2>0, <2>1, <2>6, <3>1, StatusWrite DEF WriteTransition, StillFrom, Status
  <2>7. ASSUME NEW e \in Engines, NEW d \in Draws, ClaimDraw(e, d) PROVE A
    BY <2>1, <2>2, <2>7 DEF ClaimDraw, DrawStatus
  <2>8. ASSUME NEW e \in Engines, CancelEmptyDraw(e) \/ PublishResult(e) PROVE A
    <3>1. exec[e].draw \in Draws
      BY <2>8 DEF CancelEmptyDraw, PublishResult, TypeOK, Execution
    <3> QED
      BY <2>2, <2>8, <3>1 DEF CancelEmptyDraw, PublishResult, DrawStatus, Final
  <2> HIDE DEF A
  <2>9. ASSUME NEW d \in Draws, ReadEditable(d) \/ ReadCancellable(d) PROVE A
    BY <2>1, <2>9 DEF ReadEditable, ReadCancellable
  <2>10. ASSUME NEW e \in Engines,
                \/ SeedLoop(e) \/ ReadReady(e) \/ ReadPastCutoff(e) \/ ReadDue(e) \/ ReadCommitment(e)
                \/ LockPool(e) \/ AbandonDraw(e) \/ LoseSeedTick(e) \/ LoseLifecycleTick(e)
                \/ LoseExecutionTick(e) \/ CrashEngine(e)
         PROVE  A
    BY <2>1, <2>10 DEF SeedLoop, ReadUncommitted, CommitSeed, ReadReady, ReadPastCutoff, ReadDue,
                       ReadCommitment, LockPool, AbandonDraw, LoseSeedTick, LoseLifecycleTick,
                       LoseExecutionTick, CrashEngine
  <2>11. CASE SalesNext
    BY <2>1, <2>11 DEF SalesNext, InitiatePurchase, WalletPurchase, AgentChecksDraw, CustomerPays,
                       PaymentFails, ConfirmPurchase, AgentIssuesTicket
  <2>12. CASE RefundNext
    BY <2>1, <2>12 DEF RefundNext, CheckRefund, ReserveRefund, RefundSucceeds, RefundFails
  <2>13. CASE Tick \/ UNCHANGED vars
    BY <2>1, <2>13 DEF Tick, vars
  <2> QED
    BY <2>3, <2>4, <2>5, <2>6, <2>7, <2>8, <2>9, <2>10, <2>11, <2>12, <2>13
    DEF Next, AdminNext, EngineNext, LifecycleLoop, ExecutionLoop
<1> HIDE DEF A
<1>2. Spec => [][A]_vars
  BY <1>1, Typing, PTL DEF Spec
<1> QED
  BY <1>2 DEF NeverReopened, A

-----------------------------------------------------------------------------
(* DrawEngine implements Raffle: the inductive invariant tells, for every  *)
(* step, which step of the raffle it is.                                   *)

\* A step that leaves seeds, results, sales and withdrawals alone is a stutter.
LEMMA StutterStep ==
  ASSUME UNCHANGED <<seed, result>>, \A d \in Draws : TicketsOf(d)' = TicketsOf(d),
         Withdrawn' = Withdrawn
  PROVE  UNCHANGED R!vars
BY DEF R!vars

\* Tickets, draws and the sets the instance substitutes.
LEMMA Shapes ==
  ASSUME IInv
  PROVE  /\ Tickets = Locking \cup AgentTickets /\ Tickets \subseteq Units
         /\ GatewayTickets \subseteq Tickets
         /\ Units = Locking \cup AgentTickets \cup Entries
         /\ unit \in [Units -> UnitStatus] /\ drawOf \in [Units -> Draws \cup {NoDraw}]
         /\ seed \in [Draws -> Engines \cup {NoSeed}]
         /\ result \in [Draws -> DrawResult \cup {NoResult}]
         /\ SeedInv /\ TicketInv /\ ExecInv /\ PoolInv /\ WinnerInv
         /\ \A t \in Tickets : t \notin Entries
         /\ \A t \in AgentTickets : t \notin Locking
BY SetsAssumption DEF IInv, TypeOK, Tickets, Locking, Units

\* Going live for a draw is a sale.
LEMMA SaleStep ==
  ASSUME IInv, NEW t \in Tickets, NEW d \in Draws,
         ~Issued(t), unit' = [unit EXCEPT ![t] = "ACTIVE"],
         drawOf' = [drawOf EXCEPT ![t] = d],
         seed[d] # NoSeed, t \in Locking => result[d] = NoResult, UNCHANGED <<seed, result>>
  PROVE  R!Next
<1>1. \A x \in Draws : TicketsOf(x)' = IF x = d THEN TicketsOf(x) \cup {t} ELSE TicketsOf(x)
  BY Shapes DEF TicketsOf, Issued
<1>2. \A x \in Draws : t \notin TicketsOf(x)
  BY DEF TicketsOf
<1>3. Withdrawn' = Withdrawn
  BY Shapes DEF Withdrawn, Issued
<1>4. [x \in Draws |-> TicketsOf(x)]' = [[x \in Draws |-> TicketsOf(x)] EXCEPT ![d] = @ \cup {t}]
  BY <1>1
<1>5. R!Sell(t, d)
  BY <1>2, <1>3, <1>4 DEF R!Sell
<1> QED
  BY <1>5, Shapes DEF R!Next

\* Quarantining a live ticket is a withdrawal.
LEMMA WithdrawalStep ==
  ASSUME IInv, NEW t \in Tickets, unit[t] = "ACTIVE",
         unit' = [unit EXCEPT ![t] = "REFUND_PENDING"], UNCHANGED <<drawOf, seed, result>>
  PROVE  R!Next
<1>1. \A x \in Draws : TicketsOf(x)' = TicketsOf(x)
  BY Shapes DEF TicketsOf, Issued
<1>2. Withdrawn' = Withdrawn \cup {t}
  BY Shapes DEF Withdrawn
<1>3. drawOf[t] \in Draws /\ t \in TicketsOf(drawOf[t])
  BY Shapes DEF TicketInv, TicketsOf, Issued
<1>4. \A x \in Draws : result[x] # NoResult => result[x].winner # t
  BY Shapes DEF WinnerInv
<1>5. R!Withdraw(t)
  BY <1>1, <1>2, <1>3, <1>4 DEF R!Withdraw
<1> QED
  BY <1>3, <1>5, Shapes DEF R!Next

\* Publishing a result is the draw.
LEMMA DrawStep ==
  ASSUME IInv, NEW e \in Engines, PublishResult(e)
  PROVE  R!Next
<1>1. PICK d \in Draws, w \in Units :
        /\ exec[e].pc = "locked" /\ exec[e].draw = d /\ w \in exec[e].pool
        /\ result[d] = NoResult /\ seed[d] # NoSeed
        /\ UNCHANGED <<seed, drawOf>> /\ unit' = [unit EXCEPT ![w] = "WINNING"]
        /\ result' = [result EXCEPT ![d] = [winner |-> w, pool |-> exec[e].pool, seed |-> seed[d]]]
  <2>1. PICK w \in exec[e].pool :
          /\ result' = [result EXCEPT ![exec[e].draw] = [winner |-> w, pool |-> exec[e].pool,
                                                         seed |-> seed[exec[e].draw]]]
          /\ unit' = [unit EXCEPT ![w] = "WINNING"]
    BY DEF PublishResult
  <2>2. exec[e].draw \in Draws /\ w \in Units /\ seed[exec[e].draw] # NoSeed
    BY <2>1 DEF PublishResult, IInv, TypeOK, Execution, ExecInv
  <2> QED
    BY <2>1, <2>2 DEF PublishResult
<1> DEFINE pool == exec[e].pool
<1>2. pool \subseteq Units /\ \A u \in pool : drawOf[u] = d /\ Issued(u)
  BY <1>1 DEF IInv, TypeOK, Execution, PoolInv
<1>3. pool \subseteq TicketsOf(d) \cup Entries
  BY <1>2, Shapes DEF TicketsOf, Units
<1>4. (TicketsOf(d) \cap Locking) \ Withdrawn \subseteq pool
  <2> SUFFICES ASSUME NEW t \in TicketsOf(d), t \in Locking, t \notin Withdrawn PROVE t \in pool
    OBVIOUS
  <2>1. t \in Tickets /\ drawOf[t] = d /\ unit[t] \in {"ACTIVE", "WINNING"}
    BY Shapes DEF TicketsOf, Issued, Withdrawn, UnitStatus
  <2>2. unit[t] # "WINNING"
    BY <1>1, <2>1, Shapes DEF WinnerInv
  <2> QED
    BY <1>1, <2>1, <2>2, Shapes DEF PoolInv
<1>5. \A x \in Draws : TicketsOf(x)' = TicketsOf(x)
  BY <1>1, <1>2, Shapes DEF TicketsOf, Issued
<1>6. Withdrawn' = Withdrawn \ {w}
  BY <1>1, Shapes DEF Withdrawn
<1> HIDE DEF pool
<1>7. R!Draw(d, pool, w)
  BY <1>1, <1>3, <1>4, <1>5, <1>6 DEF R!Draw, pool
<1> QED
  BY <1>1, <1>2, <1>7, Shapes DEF R!Next, pool

\* Initially no draw has a commitment, a sale or a result.
LEMMA RaffleInit == Init => R!Init
<1> SUFFICES ASSUME Init PROVE R!Init
  OBVIOUS
<1>1. \A d \in Draws : TicketsOf(d) = {}
  BY SetsAssumption DEF Init, TicketsOf, Issued, Tickets, Units
<1>2. Withdrawn = {}
  BY SetsAssumption DEF Init, Withdrawn, Tickets, Units
<1> QED
  BY <1>1, <1>2 DEF Init, R!Init

\* Every step of the system is a step of the raffle, or none of its players sees it.
LEMMA RaffleStep == IInv /\ [Next]_vars => [R!Next]_(R!vars)
<1> DEFINE Goal == R!Next \/ UNCHANGED R!vars
<1> SUFFICES ASSUME IInv, [Next]_vars PROVE Goal
  OBVIOUS
<1> USE DEF drawVars, ticketVars, engineVars, adminVars
<1>1. CASE UNCHANGED <<seed, result, unit, drawOf>>
  BY <1>1, StutterStep DEF TicketsOf, Issued, Withdrawn
<1>2. ASSUME NEW e \in Engines, NEW d \in Draws, CommitSeed(e, d) PROVE Goal
  <2>1. UNCHANGED <<result, unit, drawOf>>
    BY <1>2 DEF CommitSeed
  <2>2. CASE seed[d] # NoSeed
    BY <1>1, <1>2, <2>1, <2>2 DEF CommitSeed, FirstCommitment
  <2>3. CASE seed[d] = NoSeed
    <3>1. seed' = [seed EXCEPT ![d] = e]
      BY <1>2, <2>3 DEF CommitSeed, FirstCommitment
    <3>2. (\A x \in Draws : TicketsOf(x)' = TicketsOf(x)) /\ Withdrawn' = Withdrawn
      BY <2>1 DEF TicketsOf, Issued, Withdrawn
    <3>3. R!Commit(d, e)
      BY <2>1, <2>3, <3>1, <3>2 DEF R!Commit
    <3> QED
      BY <3>3 DEF R!Next
  <2> QED
    BY <2>2, <2>3
<1>3. ASSUME NEW e \in Engines, PublishResult(e) PROVE Goal
  BY <1>3, DrawStep
<1>4. ASSUME NEW t \in Tickets, NEW d \in Draws, InitiatePurchase(t, d) \/ AgentChecksDraw(t, d)
      PROVE  Goal
  <2>1. /\ UNCHANGED <<seed, result>> /\ drawOf' = [drawOf EXCEPT ![t] = d]
        /\ unit[t] = "NONE" /\ (UNCHANGED unit \/ unit' = [unit EXCEPT ![t] = "CHECKED"])
    BY <1>4, Shapes DEF InitiatePurchase, AgentChecksDraw, TicketInv
  <2>2. \A x \in Draws : TicketsOf(x)' = TicketsOf(x)
    BY <2>1, Shapes DEF TicketsOf, Issued
  <2>3. Withdrawn' = Withdrawn
    BY <2>1, Shapes DEF Withdrawn
  <2> QED
    BY <2>1, <2>2, <2>3, StutterStep
<1>5. ASSUME NEW t \in Tickets, NEW d \in Draws, WalletPurchase(t, d) PROVE Goal
  <2>1. Status(d) = "ACTIVE" /\ ~Issued(t)
    BY <1>5 DEF WalletPurchase, SalesOpen, Issued
  <2>2. seed[d] # NoSeed /\ result[d] = NoResult
    BY <2>1, Shapes DEF SeedInv, ExecInv, Final
  <2> QED
    BY <1>5, <2>1, <2>2, SaleStep DEF WalletPurchase
<1>6. ASSUME NEW t \in Tickets, ConfirmPurchase(t) PROVE Goal
  <2>1. UNCHANGED <<seed, result, drawOf>> /\ t \in GatewayTickets
    BY <1>6 DEF ConfirmPurchase
  <2>2. CASE UNCHANGED unit
    BY <1>1, <2>1, <2>2
  <2>3. CASE unit' = [unit EXCEPT ![t] = "ACTIVE"] /\ Status(drawOf[t]) \in {"ACTIVE", "SALES_CLOSED"}
    <3>1. unit[t] = "NONE" /\ drawOf[t] \in Draws
      BY <1>6, Shapes DEF ConfirmPurchase, TicketInv
    <3>2. seed[drawOf[t]] # NoSeed /\ result[drawOf[t]] = NoResult
      BY <2>3, <3>1, Shapes DEF SeedInv, ExecInv, Final
    <3>3. drawOf' = [drawOf EXCEPT ![t] = drawOf[t]]
      BY <2>1, Shapes
    <3> QED
      BY <2>1, <2>3, <3>1, <3>2, <3>3, SaleStep DEF Issued
  <2> QED
    BY <1>6, <2>2, <2>3 DEF ConfirmPurchase, Fulfillable
<1>7. ASSUME NEW t \in Tickets, AgentIssuesTicket(t) PROVE Goal
  <2>1. t \notin Locking /\ drawOf[t] \in Draws /\ ~Issued(t)
    BY <1>7, Shapes DEF AgentIssuesTicket, TicketInv, Issued
  <2>2. seed[drawOf[t]] # NoSeed
    BY <2>1, Shapes DEF SeedInv
  <2>3. drawOf' = [drawOf EXCEPT ![t] = drawOf[t]]
    BY <1>7, Shapes DEF AgentIssuesTicket
  <2> QED
    BY <1>7, <2>1, <2>2, <2>3, SaleStep DEF AgentIssuesTicket
<1>8. ASSUME NEW t \in Tickets, ReserveRefund(t) PROVE Goal
  <2>1. UNCHANGED <<seed, result, drawOf>> /\ t \in Units
    BY <1>8, Shapes DEF ReserveRefund
  <2>2. CASE UNCHANGED unit
    BY <1>1, <2>1, <2>2
  <2>3. CASE unit' = [unit EXCEPT ![t] = Quarantine(unit[t])]
    <3>1. CASE unit[t] = "ACTIVE"
      BY <2>1, <2>3, <3>1, WithdrawalStep DEF Quarantine
    <3>2. CASE unit[t] # "ACTIVE"
      BY <2>1, <2>3, <3>2, <1>1, Shapes DEF Quarantine
    <3> QED
      BY <3>1, <3>2
  <2> QED
    BY <1>8, <2>2, <2>3 DEF ReserveRefund
<1>9. ASSUME NEW t \in Tickets, RefundSucceeds(t) PROVE Goal
  <2>1. UNCHANGED <<seed, result, drawOf>> /\ unit' = [unit EXCEPT ![t] = ExpireQuarantined(unit[t])]
    BY <1>9 DEF RefundSucceeds
  <2>2. \A x \in Draws : TicketsOf(x)' = TicketsOf(x)
    BY <2>1, Shapes DEF TicketsOf, Issued, ExpireQuarantined
  <2>3. Withdrawn' = Withdrawn
    BY <2>1, Shapes DEF Withdrawn, ExpireQuarantined
  <2> QED
    BY <2>1, <2>2, <2>3, StutterStep
<1> HIDE DEF Goal
<1> QED
  <2>1. CASE AdminNext
    BY <1>1, <2>1 DEF AdminNext, CreateDraw, ReadEditable, WriteEdit, ReadCancellable, WriteCancel
  <2>2. ASSUME NEW e \in Engines,
               \/ ReadUncommitted(e) \/ LifecycleLoop(e) \/ ReadDue(e) \/ (\E d \in Draws : ClaimDraw(e, d))
               \/ ReadCommitment(e) \/ LockPool(e) \/ CancelEmptyDraw(e) \/ AbandonDraw(e)
               \/ LoseSeedTick(e) \/ LoseLifecycleTick(e) \/ LoseExecutionTick(e) \/ CrashEngine(e)
        PROVE  Goal
    BY <1>1, <2>2 DEF ReadUncommitted, LifecycleLoop, ReadReady, ReadPastCutoff, WriteTransition, ReadDue, ClaimDraw,
                      ReadCommitment, LockPool, CancelEmptyDraw, AbandonDraw,
                      LoseSeedTick, LoseLifecycleTick, LoseExecutionTick, CrashEngine
  <2>3. ASSUME NEW t \in Tickets,
               CustomerPays(t) \/ PaymentFails(t) \/ CheckRefund(t) \/ RefundFails(t)
        PROVE  Goal
    BY <1>1, <2>3 DEF CustomerPays, PaymentFails, CheckRefund, RefundFails
  <2>4. CASE Tick \/ UNCHANGED vars
    BY <1>1, <2>4 DEF Tick, vars
  <2> QED
    BY <1>2, <1>3, <1>4, <1>5, <1>6, <1>7, <1>8, <1>9, <2>1, <2>2, <2>3, <2>4
    DEF Next, EngineNext, SeedLoop, ExecutionLoop, SalesNext, RefundNext

\* The engine, the sales channels, the administrators and the refund desk together
\* keep the promise of the raffle.
THEOREM EngineImplementsRaffle == Spec => ImplementsRaffle
<1>1. Spec => R!Init
  BY RaffleInit DEF Spec
<1>2. Spec => [][R!Next]_(R!vars)
  BY RaffleStep, Invariance, PTL DEF Spec
<1> QED
  BY <1>1, <1>2 DEF ImplementsRaffle, R!Spec
-----------------------------------------------------------------------------
(* Every gateway ticket keeps the contract of TicketOrder with its draw.   *)

\* Another ticket's step, or one that leaves the columns the contract shows.
LEMMA OrderUnseen ==
  ASSUME NEW t \in GatewayTickets, payment'[t] = payment[t], unit'[t] = unit[t],
         DrawState(drawOf[t])' = DrawState(drawOf[t]),
         ResultFor(t, drawOf[t])' = ResultFor(t, drawOf[t])
  PROVE  UNCHANGED O(t)!vars
BY DEF O!vars, OrderState, TicketState

\* Initially no payment is bound to a draw.
LEMMA OrderInit == Init => \A t \in GatewayTickets : O(t)!Init
<1> SUFFICES ASSUME Init, NEW t \in GatewayTickets PROVE O(t)!Init
  OBVIOUS
<1>1. payment[t] = "NONE" /\ unit[t] = "NONE" /\ drawOf[t] \notin Draws
  BY SetsAssumption DEF Init, Tickets, Units
<1> QED
  BY <1>1 DEF O!Init, OrderState, TicketState, DrawState, ResultFor

\* A write of a draw's status is its start or its cancellation, or is not seen.
LEMMA OrderOfStatus ==
  ASSUME IInv, NEW t \in GatewayTickets, NEW d \in Draws, NEW s \in DrawStatus,
         SetStatus(d, s), UNCHANGED <<payment, unit, drawOf, result>>,
         \/ s = "CANCELLED"
         \/ s = "EXECUTING" /\ Status(d) \in OpenStatus
         \/ s \in OpenStatus /\ Status(d) \in OpenStatus
  PROVE  O(t)!Next \/ UNCHANGED O(t)!vars
<1>1. /\ draw'[d].status = s
      /\ \A x \in Draws : x # d => draw'[x] = draw[x]
  BY StatusWrite DEF IInv, TypeOK
<1>2. /\ OrderState(t)' = OrderState(t) /\ TicketState(t)' = TicketState(t)
      /\ ResultFor(t, drawOf[t])' = ResultFor(t, drawOf[t])
  BY DEF OrderState, TicketState, ResultFor
<1>3. CASE drawOf[t] # d
  BY <1>1, <1>3, OrderUnseen DEF DrawState, Status, ResultFor
<1>4. CASE drawOf[t] = d /\ s = "CANCELLED"
  <2>1. DrawState(drawOf[t])' = "CANCELLED"
    BY <1>1, <1>4 DEF DrawState, Status
  <2>2. O(t)!Cancel
    BY <1>2, <2>1 DEF O!Cancel
  <2> QED
    BY <2>2 DEF O!Next
<1>5. CASE drawOf[t] = d /\ s = "EXECUTING" /\ Status(d) \in OpenStatus
  <2>1. DrawState(drawOf[t]) = "OPEN" /\ DrawState(drawOf[t])' = "RUNNING"
    BY <1>1, <1>5 DEF DrawState, Status, OpenStatus
  <2>2. O(t)!Start
    BY <1>2, <2>1 DEF O!Start
  <2> QED
    BY <2>2 DEF O!Next
<1>6. CASE drawOf[t] = d /\ s \in OpenStatus /\ Status(d) \in OpenStatus
  <2>1. DrawState(drawOf[t])' = DrawState(drawOf[t])
    BY <1>1, <1>6 DEF DrawState, Status, OpenStatus
  <2> QED
    BY <1>2, <2>1, OrderUnseen
<1> QED
  BY <1>3, <1>4, <1>5, <1>6

\* The pool a result is drawn from was frozen while the draw ran or was cancelled;
\* a gateway ticket that is not in it is not live.
LEMMA OrderPublished ==
  ASSUME IInv, NEW t \in GatewayTickets, NEW e \in Engines, PublishResult(e)
  PROVE  O(t)!Next \/ UNCHANGED O(t)!vars
<1> DEFINE d == exec[e].draw
           pool == exec[e].pool
<1>0. d \in Draws /\ pool \subseteq Units /\ exec[e].pc = "locked"
  BY DEF PublishResult, IInv, TypeOK, Execution
<1>1. PICK w \in pool :
        /\ result' = [result EXCEPT ![d] = [winner |-> w, pool |-> pool, seed |-> seed[d]]]
        /\ unit' = [unit EXCEPT ![w] = "WINNING"]
  BY DEF PublishResult
<1>2. result[d] = NoResult /\ UNCHANGED <<payment, drawOf>>
  BY DEF PublishResult, ticketVars
<1>3. /\ draw'[d].status = "COMPLETED"
      /\ \A x \in Draws : x # d => draw'[x] = draw[x]
  BY <1>0, StatusWrite DEF PublishResult, IInv, TypeOK, DrawStatus
<1>4. Status(d) \in {"EXECUTING", "CANCELLED"} /\ \A u \in pool : drawOf[u] = d /\ Issued(u)
  BY <1>0, Shapes DEF ExecInv, PoolInv
<1>5. OrderState(t)' = OrderState(t)
  BY <1>2 DEF OrderState
<1>6. CASE drawOf[t] # d
  <2>1. w # t
    BY <1>4, <1>6
  <2> QED
    BY <1>0, <1>1, <1>2, <1>3, <1>6, <2>1, OrderUnseen, Shapes DEF DrawState, Status, ResultFor
<1>7. CASE drawOf[t] = d
  <2>1. /\ DrawState(drawOf[t]) \in {"RUNNING", "CANCELLED"}
        /\ DrawState(drawOf[t])' = "DRAWN"
    BY <1>0, <1>2, <1>3, <1>4, <1>7 DEF DrawState, Status
  <2>2. result'[d].pool = pool /\ result'[d] # NoResult
    <3>1. result'[d] = [winner |-> w, pool |-> pool, seed |-> seed[d]]
      BY <1>0, <1>1, Shapes
    <3>2. [winner |-> w, pool |-> pool, seed |-> seed[d]] \in DrawResult
      BY <1>0, <1>1, Shapes DEF DrawResult
    <3> QED
      BY <3>1, <3>2, SetsAssumption
  <2>3. /\ ResultFor(t, drawOf[t]) = "NONE"
        /\ ResultFor(t, drawOf[t])' = IF t \in pool THEN "WITH" ELSE "WITHOUT"
    BY <1>0, <1>2, <1>7, <2>2 DEF ResultFor
  <2>4. CASE t \in pool
    <3>1. TicketState(t) # "NONE"
      BY <1>4, <2>4, Shapes DEF TicketState, Issued, UnitStatus
    <3>2. TicketState(t)' \in {TicketState(t), "WON"}
      BY <1>1, <2>4, Shapes DEF TicketState
    <3>3. O(t)!Publish
      BY <1>5, <2>1, <2>3, <2>4, <3>1, <3>2 DEF O!Publish
    <3> QED
      BY <3>3 DEF O!Next
  <2>5. CASE t \notin pool
    <3>1. TicketState(t) # "IN"
      BY <1>0, <1>7, <2>5, Shapes DEF PoolInv, TicketState, Locking
    <3>2. TicketState(t)' = TicketState(t)
      BY <1>1, <2>5, Shapes DEF TicketState
    <3>3. O(t)!Publish
      BY <1>5, <2>1, <2>3, <2>5, <3>1, <3>2 DEF O!Publish
    <3> QED
      BY <3>3 DEF O!Next
  <2> QED
    BY <2>4, <2>5
<1> QED
  BY <1>6, <1>7

\* The confirmation finds an open draw or holds the payment; the desk takes a ticket
\* out of a draw that is open or cancelled only.
LEMMA OrderOfTicket ==
  ASSUME IInv, NEW t \in GatewayTickets,
         \/ \E d \in Draws : InitiatePurchase(t, d)
         \/ PaymentFails(t) \/ ConfirmPurchase(t)
         \/ ReserveRefund(t) \/ RefundSucceeds(t) \/ RefundFails(t)
  PROVE  O(t)!Next \/ UNCHANGED O(t)!vars
<1>0. t \in Units /\ payment \in [Tickets -> PaymentStatus] /\ t \in Tickets
  BY Shapes DEF IInv, TypeOK
<1>1. UNCHANGED <<draw, result>>
  BY DEF InitiatePurchase, PaymentFails, ConfirmPurchase, ReserveRefund, RefundSucceeds, RefundFails,
         drawVars
<1>2. ASSUME NEW d \in Draws, InitiatePurchase(t, d) PROVE UNCHANGED O(t)!vars
  <2>1. /\ payment[t] = "NONE" /\ payment'[t] = "PENDING" /\ unit' = unit
        /\ drawOf[t] \notin Draws /\ drawOf'[t] = d
        /\ Status(d) = "ACTIVE" /\ result[d] = NoResult
    BY <1>0, <1>2, Shapes DEF InitiatePurchase, SalesOpen, TicketInv, ExecInv, Final
  <2>2. OrderState(t)' = OrderState(t) /\ TicketState(t)' = TicketState(t)
    BY <2>1 DEF OrderState, TicketState
  <2>3. DrawState(drawOf[t])' = DrawState(drawOf[t])
    BY <1>1, <2>1 DEF DrawState, Status
  <2>4. ResultFor(t, drawOf[t])' = ResultFor(t, drawOf[t])
    BY <1>1, <2>1 DEF ResultFor
  <2> QED
    BY <2>2, <2>3, <2>4 DEF O!vars
<1>3. ASSUME drawOf' = drawOf
      PROVE  /\ DrawState(drawOf[t])' = DrawState(drawOf[t])
             /\ ResultFor(t, drawOf[t])' = ResultFor(t, drawOf[t])
  BY <1>1, <1>3 DEF DrawState, ResultFor, Status
<1>4. ASSUME PaymentFails(t) PROVE O(t)!Next
  <2>1. OrderState(t) = "OPEN" /\ OrderState(t)' = "REFUSED" /\ TicketState(t)' = TicketState(t)
    BY <1>0, <1>4 DEF PaymentFails, OrderState, TicketState
  <2>2. O(t)!Refuse
    BY <1>3, <1>4, <2>1 DEF PaymentFails, O!Refuse, O!Decide
  <2> QED
    BY <2>2 DEF O!Next
<1>5. ASSUME ConfirmPurchase(t) PROVE O(t)!Next
  <2>1. OrderState(t) = "OPEN" /\ TicketState(t) = "NONE" /\ drawOf' = drawOf
    BY <1>5, Shapes DEF ConfirmPurchase, OrderState, TicketState, TicketInv
  <2>2. CASE /\ payment' = [payment EXCEPT ![t] = "CONFIRMED"]
             /\ unit' = [unit EXCEPT ![t] = "ACTIVE"] /\ Status(drawOf[t]) \in Fulfillable
    <3>1. OrderState(t)' = "BOUGHT" /\ TicketState(t)' = "IN"
      BY <1>0, <2>2, Shapes DEF OrderState, TicketState
    <3>2. DrawState(drawOf[t]) = "OPEN"
      BY <2>2 DEF DrawState, Fulfillable
    <3>3. O(t)!Buy
      BY <1>3, <2>1, <3>1, <3>2 DEF O!Buy, O!Decide
    <3> QED
      BY <3>3 DEF O!Next
  <2>3. CASE payment' = [payment EXCEPT ![t] = "REVIEW_REQUIRED"] /\ UNCHANGED unit
    <3>1. OrderState(t)' = "HELD" /\ TicketState(t)' = TicketState(t)
      BY <1>0, <2>3 DEF OrderState, TicketState
    <3>2. O(t)!Hold
      BY <1>3, <2>1, <3>1 DEF O!Hold, O!Decide
    <3> QED
      BY <3>2 DEF O!Next
  <2> QED
    BY <1>5, <2>2, <2>3 DEF ConfirmPurchase
<1>6. ASSUME ReserveRefund(t) PROVE O(t)!Next \/ UNCHANGED O(t)!vars
  <2>1. payment[t] \in {"CONFIRMED", "REVIEW_REQUIRED"} /\ drawOf' = drawOf
    BY <1>6, Shapes DEF ReserveRefund, TicketInv
  <2>2. CASE UNCHANGED <<payment, unit>>
    BY <1>3, <2>1, <2>2, OrderUnseen
  <2>3. CASE /\ payment[t] = "CONFIRMED" => Status(drawOf[t]) \in Refundable
             /\ payment' = [payment EXCEPT ![t] = "REFUND_PENDING"]
             /\ unit' = [unit EXCEPT ![t] = Quarantine(@)]
    <3>1. /\ OrderState(t) = "HELD" \/ (OrderState(t) = "BOUGHT" /\ payment[t] = "CONFIRMED")
          /\ OrderState(t)' = "RETURNING"
      BY <1>0, <2>1, <2>3 DEF OrderState
    <3>2. payment[t] = "CONFIRMED" => DrawState(drawOf[t]) \in {"OPEN", "CANCELLED"}
      BY <2>3 DEF DrawState, Refundable, OpenStatus
    <3>3. TicketState(t)' = IF TicketState(t) = "IN" THEN "OUT" ELSE TicketState(t)
      BY <1>0, <2>3, Shapes DEF TicketState, Quarantine, UnitStatus
    <3>4. O(t)!Reserve
      BY <1>3, <2>1, <3>1, <3>2, <3>3 DEF O!Reserve
    <3> QED
      BY <3>4 DEF O!Next
  <2> QED
    BY <1>6, <2>2, <2>3 DEF ReserveRefund
<1>7. ASSUME RefundSucceeds(t) \/ RefundFails(t) PROVE O(t)!Next
  <2>1. /\ payment[t] = "REFUND_PENDING" /\ drawOf' = drawOf
        /\ payment'[t] \in {"REFUNDED", "REFUND_FAILED"}
        /\ unit' = unit \/ unit' = [unit EXCEPT ![t] = ExpireQuarantined(@)]
    BY <1>0, <1>7 DEF RefundSucceeds, RefundFails
  <2>2. OrderState(t) = "RETURNING" /\ OrderState(t)' \in {"RETURNED", "KEPT"}
    BY <2>1 DEF OrderState
  <2>3. TicketState(t)' = TicketState(t)
    BY <1>0, <2>1, Shapes DEF TicketState, ExpireQuarantined, UnitStatus
  <2>4. O(t)!Settle
    BY <1>3, <2>1, <2>2, <2>3 DEF O!Settle
  <2> QED
    BY <2>4 DEF O!Next
<1> QED
  BY <1>2, <1>4, <1>5, <1>6, <1>7

\* Every step of the system is a step of the ticket's contract, or is not seen by it.
LEMMA OrderStep ==
  ASSUME NEW t \in GatewayTickets
  PROVE  IInv /\ [Next]_vars => [O(t)!Next]_(O(t)!vars)
<1> DEFINE Goal == O(t)!Next \/ UNCHANGED O(t)!vars
<1> SUFFICES ASSUME IInv, [Next]_vars PROVE Goal
  OBVIOUS
<1> USE DEF drawVars, ticketVars, engineVars, adminVars
<1>0. draw \in [Draws -> DrawRecord] /\ t \in Tickets /\ t \in Units
  BY Shapes DEF IInv, TypeOK
<1>1. ASSUME UNCHANGED <<draw, result>>, payment'[t] = payment[t], unit'[t] = unit[t],
             drawOf'[t] = drawOf[t]
      PROVE  Goal
  BY <1>1, OrderUnseen DEF DrawState, ResultFor, Status
<1>2. ASSUME NEW d \in Draws, CreateDraw(d) \/ WriteEdit(d) PROVE Goal
  <2>1. /\ UNCHANGED <<payment, unit, drawOf, result>>
        /\ \A x \in Draws : draw'[x].status = draw[x].status
                            \/ (draw[x].status = "UNCREATED" /\ draw'[x].status = "SCHEDULED")
    <3>1. CASE CreateDraw(d)
      BY <1>0, <3>1 DEF CreateDraw, Status
    <3>2. CASE WriteEdit(d)
      BY <1>0, <3>2 DEF WriteEdit
    <3> QED
      BY <1>2, <3>1, <3>2
  <2> QED
    BY <2>1, OrderUnseen DEF DrawState, ResultFor, Status
<1>3. ASSUME NEW d \in Draws, WriteCancel(d) PROVE Goal
  BY <1>3, OrderOfStatus DEF WriteCancel, DrawStatus
<1>4. ASSUME NEW e \in Engines, NEW m \in Transition, WriteTransition(e, m) PROVE Goal
  <2>1. m.draw \in Draws /\ m.to \in OpenStatus /\ m.from \in OpenStatus /\ m.to \in DrawStatus
    BY DEF Transition, DrawStatus, OpenStatus
  <2>2. CASE UNCHANGED draw
    BY <1>1, <1>4, <2>2 DEF WriteTransition
  <2>3. CASE SetStatus(m.draw, m.to) /\ Status(m.draw) = m.from
    BY <1>4, <2>1, <2>3, OrderOfStatus DEF WriteTransition
  <2> QED
    BY <1>4, <2>2, <2>3 DEF WriteTransition, StillFrom
<1>5. ASSUME NEW e \in Engines, NEW d \in Draws, ClaimDraw(e, d) PROVE Goal
  <2>1. CASE UNCHANGED draw
    BY <1>1, <1>5, <2>1 DEF ClaimDraw
  <2>2. CASE SetStatus(d, "EXECUTING") /\ Claimable(d)
    BY <1>5, <2>2, OrderOfStatus DEF ClaimDraw, Claimable, DrawStatus, OpenStatus
  <2> QED
    BY <1>5, <2>1, <2>2 DEF ClaimDraw
<1>6. ASSUME NEW e \in Engines, CancelEmptyDraw(e) PROVE Goal
  <2>1. exec[e].draw \in Draws
    BY <1>6 DEF CancelEmptyDraw, IInv, TypeOK, Execution
  <2> QED
    BY <1>6, <2>1, OrderOfStatus DEF CancelEmptyDraw, DrawStatus
<1>7. ASSUME NEW e \in Engines, PublishResult(e) PROVE Goal
  BY <1>7, OrderPublished
<1>8. ASSUME NEW u \in Tickets, NEW d \in Draws,
             InitiatePurchase(u, d) \/ WalletPurchase(u, d) \/ AgentChecksDraw(u, d)
      PROVE  Goal
  <2>1. CASE u # t
    <3>1. /\ UNCHANGED <<draw, result>>
          /\ payment' = payment \/ payment' = [payment EXCEPT ![u] = "PENDING"]
          /\ unit' = unit \/ \E s : unit' = [unit EXCEPT ![u] = s]
          /\ drawOf' = [drawOf EXCEPT ![u] = d]
      BY <1>8 DEF InitiatePurchase, WalletPurchase, AgentChecksDraw
    <3>2. payment \in [Tickets -> PaymentStatus]
      BY DEF IInv, TypeOK
    <3> QED
      BY <1>0, <1>1, <2>1, <3>1, <3>2, Shapes
  <2>2. CASE u = t
    <3>1. u \notin WalletTickets /\ u \notin AgentTickets
      BY <2>2, SetsAssumption
    <3> QED
      BY <1>8, <2>2, <3>1, OrderOfTicket DEF WalletPurchase, AgentChecksDraw
  <2> QED
    BY <2>1, <2>2
<1>9. ASSUME NEW u \in Tickets,
             \/ PaymentFails(u) \/ ConfirmPurchase(u) \/ AgentIssuesTicket(u)
             \/ ReserveRefund(u) \/ RefundSucceeds(u) \/ RefundFails(u)
      PROVE  Goal
  <2>1. CASE u # t
    BY <1>0, <1>1, <1>9, <2>1, Shapes DEF PaymentFails, ConfirmPurchase, AgentIssuesTicket,
                                          ReserveRefund, RefundSucceeds, RefundFails, IInv, TypeOK
  <2>2. CASE u = t
    <3>1. ~AgentIssuesTicket(u)
      BY <2>2, Shapes DEF AgentIssuesTicket, TicketInv, Locking
    <3> QED
      BY <1>9, <2>2, <3>1, OrderOfTicket
  <2> QED
    BY <2>1, <2>2
<1> HIDE DEF Goal
<1> QED
  <2>1. ASSUME NEW d \in Draws, ReadEditable(d) \/ ReadCancellable(d) PROVE Goal
    BY <1>1, <2>1 DEF ReadEditable, ReadCancellable
  <2>2. ASSUME NEW e \in Engines,
               \/ SeedLoop(e) \/ ReadReady(e) \/ ReadPastCutoff(e) \/ ReadDue(e) \/ ReadCommitment(e)
               \/ LockPool(e) \/ AbandonDraw(e) \/ LoseSeedTick(e) \/ LoseLifecycleTick(e)
               \/ LoseExecutionTick(e) \/ CrashEngine(e)
        PROVE  Goal
    BY <1>1, <2>2 DEF SeedLoop, ReadUncommitted, CommitSeed, ReadReady, ReadPastCutoff, ReadDue,
                      ReadCommitment, LockPool, AbandonDraw, LoseSeedTick, LoseLifecycleTick,
                      LoseExecutionTick, CrashEngine
  <2>3. ASSUME NEW u \in Tickets, CustomerPays(u) \/ CheckRefund(u) PROVE Goal
    BY <1>1, <2>3 DEF CustomerPays, CheckRefund
  <2>4. CASE Tick \/ UNCHANGED vars
    BY <1>1, <2>4 DEF Tick, vars
  <2> QED
    BY <1>2, <1>3, <1>4, <1>5, <1>6, <1>7, <1>8, <1>9, <2>1, <2>2, <2>3, <2>4
    DEF Next, AdminNext, EngineNext, SeedLoop, LifecycleLoop, ExecutionLoop, SalesNext, RefundNext

\* Loops, administrators, confirmations and refunds keep, for every gateway ticket, the
\* contract that Purchase keeps for its one payment: no ticket enters a draw that has
\* begun, and none is taken back from it unless an administrator cancels the draw.
THEOREM EngineKeepsTicketOrders == Spec => ImplementsTicketOrder
<1> DEFINE A == \A t \in GatewayTickets : [O(t)!Next]_(O(t)!vars)
<1>1. Spec => \A t \in GatewayTickets : O(t)!Init
  BY OrderInit DEF Spec
<1>2. IInv /\ [Next]_vars => [A]_vars
  BY OrderStep
<1> HIDE DEF A
<1>3. Spec => [][A]_vars
  BY <1>2, Invariance, PTL DEF Spec
<1> QED
  BY <1>1, <1>3 DEF ImplementsTicketOrder, A
=============================================================================
