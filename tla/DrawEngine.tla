------------------------------ MODULE DrawEngine ------------------------------
(***************************************************************************)
(* One raffle draw from its creation to its signed result: the engine's    *)
(* three polling loops (seed commitment, sales lifecycle, execution), the  *)
(* administrators who edit and cancel draws, the three channels that issue *)
(* tickets and the refund desk that takes tickets out of the pool.         *)
(*                                                                         *)
(* Every action is one database statement or one transaction; what the     *)
(* code reads in one statement and uses in a later one is kept in a        *)
(* variable of the reader, so that the steps interleave as they do when    *)
(* several processes share the database.                                   *)
(***************************************************************************)
EXTENDS Naturals, FiniteSets

CONSTANTS
    Draws,            \* draws that may be created
    JackpotDraws,     \* those of type SATURDAY_JACKPOT
    Engines,          \* engine processes (an old and a new one during a deploy)
    GatewayTickets,   \* tickets bought through the payment provider
    WalletTickets,    \* tickets bought from a customer wallet
    AgentTickets,     \* tickets an agent sells for cash
    Entries,          \* free jackpot entries carried over from earlier weeks
    NoDraw, NoSeed, NoResult,
    MaxTime, MaxEdits, MaxFaults   \* bounds for TLC

Tickets == GatewayTickets \cup WalletTickets \cup AgentTickets
Units   == Tickets \cup Entries

DrawResult == [winner : Units, pool : SUBSET Units, seed : Engines \cup {NoSeed}]

ASSUME SetsAssumption ==
    /\ JackpotDraws \subseteq Draws
    /\ GatewayTickets \cap (WalletTickets \cup AgentTickets) = {}
    /\ WalletTickets \cap AgentTickets = {}
    /\ Entries \cap Tickets = {}
    /\ NoDraw \notin Draws
    /\ NoSeed \notin Engines
    /\ NoResult \notin DrawResult

ASSUME BoundsAssumption == MaxTime \in Nat /\ MaxEdits \in Nat /\ MaxFaults \in Nat

VARIABLES
    now,        \* the clock all processes read
    draw,       \* draws table: status, cutoffAt, scheduledAt, configVersion
    seed,       \* draw_seed_commits: who generated the sealed seed of a draw
    result,     \* draw_results
    unit,       \* status of every ticket and jackpot entry
    drawOf,     \* the draw a ticket (or a purchase) is bound to
    payment,    \* payment_transactions.status of a ticket's payment
    paidAt,     \* when the provider took the customer's money
    refunding,  \* payments whose refund transaction has passed its first checks
    lifecycle,  \* per engine: transitions read by the lifecycle loop, not yet written
    closing,    \* engines whose lifecycle tick has passed its first half
    committing, \* per engine: draws read by the seed loop, not yet committed
    exec,       \* per engine: the execution loop
    cancelling, \* draws an administrator has found cancellable
    editing,    \* draws an administrator has found editable
    faults      \* crashes and failed statements so far

drawVars    == <<draw, seed, result>>
ticketVars  == <<unit, drawOf, payment, paidAt, refunding>>
engineVars  == <<lifecycle, closing, committing, exec>>
adminVars   == <<cancelling, editing>>
vars == <<now, drawVars, ticketVars, engineVars, adminVars, faults>>

-----------------------------------------------------------------------------
Times == 0..MaxTime

OpenStatus == {"SCHEDULED", "ACTIVE", "SALES_CLOSED"}
DrawStatus == OpenStatus \cup {"EXECUTING", "COMPLETED", "CANCELLED"}
Final      == {"COMPLETED", "CANCELLED"}

\* A draw that no administrator and no template has created yet.
Uncreated == [status |-> "UNCREATED", cutoffAt |-> 0, scheduledAt |-> 0,
              configVersion |-> 0]

UnitStatus    == {"NONE", "CHECKED", "ACTIVE", "WINNING", "REFUND_PENDING", "EXPIRED"}
PaymentStatus == {"NONE", "PENDING", "CONFIRMED", "FAILED", "REVIEW_REQUIRED",
                  "REFUND_PENDING", "REFUND_FAILED", "REFUNDED"}
NotPaid == MaxTime + 1

Idle == [pc |-> "idle", due |-> {}, draw |-> NoDraw, pool |-> {}]

\* A ticket row exists (an agent's unfinished sale, CHECKED, has none).
Issued(u) == unit[u] \notin {"NONE", "CHECKED"}
TicketsOf(d) == {t \in Tickets : drawOf[t] = d /\ Issued(t)}

\* The channels that lock the draw row before they issue a ticket.
Locking == GatewayTickets \cup WalletTickets

Status(d) == draw[d].status
SalesOpen(d) == Status(d) = "ACTIVE" /\ draw[d].cutoffAt > now
SetStatus(d, s) == draw' = [draw EXCEPT ![d].status = s]

\* assertScheduleValid
Schedules == {p \in Times \X Times : p[1] < p[2]}

-----------------------------------------------------------------------------
Init ==
    /\ now = 0
    /\ draw = [d \in Draws |-> Uncreated]
    /\ seed = [d \in Draws |-> NoSeed]
    /\ result = [d \in Draws |-> NoResult]
    /\ unit = [u \in Units |-> IF u \in Entries THEN "ACTIVE" ELSE "NONE"]
    /\ drawOf \in {f \in [Units -> Draws \cup {NoDraw}] :
                     /\ \A t \in Tickets : f[t] = NoDraw
                     /\ \A e \in Entries : f[e] \in Draws}
    /\ payment = [t \in Tickets |-> "NONE"]
    /\ paidAt = [t \in Tickets |-> NotPaid]
    /\ refunding = {}
    /\ lifecycle = [e \in Engines |-> {}] /\ closing = {}
    /\ committing = [e \in Engines |-> {}]
    /\ exec = [e \in Engines |-> Idle]
    /\ cancelling = {} /\ editing = {}
    /\ faults = 0

Tick ==
    /\ now < MaxTime
    /\ now' = now + 1
    /\ UNCHANGED <<drawVars, ticketVars, engineVars, adminVars, faults>>

-----------------------------------------------------------------------------
(* Administrators and the template scheduler                               *)

\* DrawsService.create and createIfMissing: the draw code is unique, so a
\* second creation of the same draw is refused.
CreateDraw(d) ==
    /\ Status(d) = "UNCREATED"
    /\ \E p \in Schedules :
         draw' = [draw EXCEPT ![d] = [status |-> "SCHEDULED", cutoffAt |-> p[1],
                                      scheduledAt |-> p[2], configVersion |-> 0]]
    /\ UNCHANGED <<now, seed, result, ticketVars, engineVars, adminVars, faults>>

\* DrawsService.update: the status is read in one statement ...
ReadEditable(d) ==
    /\ Status(d) = "SCHEDULED"
    /\ draw[d].configVersion < MaxEdits
    /\ editing' = editing \cup {d}
    /\ UNCHANGED <<now, drawVars, ticketVars, engineVars, cancelling, faults>>

\* ... and prize, price and times are written in another that does not test it.
WriteEdit(d) ==
    /\ d \in editing
    /\ editing' = editing \ {d}
    /\ \E p \in Schedules :
         draw' = [draw EXCEPT ![d] = [status |-> @.status, cutoffAt |-> p[1], scheduledAt |-> p[2],
                                      configVersion |-> @.configVersion + 1]]
    /\ UNCHANGED <<now, seed, result, ticketVars, engineVars, cancelling, faults>>

\* DrawsService.cancel: the same two statements.
ReadCancellable(d) ==
    /\ Status(d) \in OpenStatus
    /\ cancelling' = cancelling \cup {d}
    /\ UNCHANGED <<now, drawVars, ticketVars, engineVars, editing, faults>>

WriteCancel(d) ==
    /\ d \in cancelling
    /\ cancelling' = cancelling \ {d}
    /\ SetStatus(d, "CANCELLED")
    /\ UNCHANGED <<now, seed, result, ticketVars, engineVars, editing, faults>>

-----------------------------------------------------------------------------
(* Engine: seed commitment                                                 *)

ReadUncommitted(e) ==
    /\ committing[e] = {}
    /\ committing' = [committing EXCEPT ![e] =
                        {d \in Draws : Status(d) \in OpenStatus /\ seed[d] = NoSeed}]
    /\ UNCHANGED <<now, drawVars, ticketVars, lifecycle, closing, exec, adminVars, faults>>

\* drawSeedCommit.create: the row is unique per draw, the first commitment wins.
\* (An upsert in its place would overwrite it.)
UpsertedCommitment(d) == TRUE
FirstCommitment(d) == seed[d] = NoSeed

CommitSeed(e, d) ==
    /\ d \in committing[e]
    /\ committing' = [committing EXCEPT ![e] = @ \ {d}]
    /\ seed' = IF FirstCommitment(d) THEN [seed EXCEPT ![d] = e] ELSE seed
    /\ UNCHANGED <<now, draw, result, ticketVars, lifecycle, closing, exec, adminVars, faults>>

-----------------------------------------------------------------------------
(* Engine: sales lifecycle                                                 *)

Transition == [draw : Draws, from : {"SCHEDULED", "ACTIVE"}, to : {"ACTIVE", "SALES_CLOSED"}]

\* The condition seedCommit: { isNot: null } of the query. (Forgotten:)
CommitmentIgnored(d) == TRUE
Committed(d) == seed[d] # NoSeed

\* activateCommittedDraws: committed draws that are still before their cutoff.
Ready ==
    {[draw |-> d, from |-> "SCHEDULED", to |-> "ACTIVE"] :
        d \in {x \in Draws : /\ Status(x) = "SCHEDULED"
                             /\ draw[x].cutoffAt > now
                             /\ Committed(x)}}

\* closeSalesAtCutoff: the status read is the one the write will expect.
\* (Closing only draws nobody could buy would leave the sold ones open.)
ClosesScheduledOnly == {"SCHEDULED"}
ClosableStatus == {"SCHEDULED", "ACTIVE"}

PastCutoff ==
    {[draw |-> d, from |-> Status(d), to |-> "SALES_CLOSED"] :
        d \in {x \in Draws : /\ Status(x) \in ClosableStatus
                             /\ draw[x].cutoffAt <= now}}

\* tick: first the draws to open, then, once those are written, the ones to close.
ReadReady(e) ==
    /\ lifecycle[e] = {} /\ e \notin closing
    /\ lifecycle' = [lifecycle EXCEPT ![e] = Ready]
    /\ closing' = closing \cup {e}
    /\ UNCHANGED <<now, drawVars, ticketVars, committing, exec, adminVars, faults>>

ReadPastCutoff(e) ==
    /\ lifecycle[e] = {} /\ e \in closing
    /\ lifecycle' = [lifecycle EXCEPT ![e] = PastCutoff]
    /\ closing' = closing \ {e}
    /\ UNCHANGED <<now, drawVars, ticketVars, committing, exec, adminVars, faults>>

\* transition: a guarded write, a no-op when the status has moved on. (A plain
\* update by draw id would write in any case.)
UnguardedTransition(m) == TRUE
StillFrom(m) == Status(m.draw) = m.from

WriteTransition(e, m) ==
    /\ m \in lifecycle[e]
    /\ lifecycle' = [lifecycle EXCEPT ![e] = @ \ {m}]
    /\ IF StillFrom(m) THEN SetStatus(m.draw, m.to) ELSE UNCHANGED draw
    /\ UNCHANGED <<now, seed, result, ticketVars, closing, committing, exec, adminVars, faults>>

-----------------------------------------------------------------------------
(* Engine: execution                                                       *)

ExecStep(e, pc, d, pool) ==
    exec' = [exec EXCEPT ![e] = [pc |-> pc, due |-> @.due, draw |-> d, pool |-> pool]]

NextDraw(e) == ExecStep(e, "idle", NoDraw, {})

\* tick: the draws that are due. The loop then takes them one by one.
IsDue(d) == Status(d) = "SALES_CLOSED" /\ draw[d].scheduledAt <= now

ReadDue(e) ==
    /\ exec[e] = Idle
    /\ exec' = [exec EXCEPT ![e].due = {d \in Draws : IsDue(d)}]
    /\ UNCHANGED <<now, drawVars, ticketVars, lifecycle, closing, committing, adminVars, faults>>

\* execute: SALES_CLOSED -> EXECUTING, guarded, so that one process wins the draw.
Claimable(d) == Status(d) = "SALES_CLOSED"

ClaimDraw(e, d) ==
    /\ exec[e].pc = "idle" /\ d \in exec[e].due
    /\ IF Claimable(d)
         THEN /\ SetStatus(d, "EXECUTING")
              /\ exec' = [exec EXCEPT ![e] = [pc |-> "claimed", due |-> @.due \ {d},
                                              draw |-> d, pool |-> {}]]
         ELSE /\ exec' = [exec EXCEPT ![e].due = @ \ {d}]
              /\ UNCHANGED draw
    /\ UNCHANGED <<now, seed, result, ticketVars, lifecycle, closing, committing, adminVars, faults>>

\* Without a commitment the draw is abandoned in EXECUTING.
ReadCommitment(e) ==
    LET d == exec[e].draw IN
    /\ exec[e].pc = "claimed"
    /\ IF seed[d] # NoSeed THEN ExecStep(e, "committed", d, {}) ELSE NextDraw(e)
    /\ UNCHANGED <<now, drawVars, ticketVars, lifecycle, closing, committing, adminVars, faults>>

EligiblePool(d) ==
    {t \in Tickets : drawOf[t] = d /\ unit[t] = "ACTIVE"}
    \cup {n \in Entries : d \in JackpotDraws /\ drawOf[n] = d /\ unit[n] = "ACTIVE"}

LockPool(e) ==
    LET d == exec[e].draw IN
    /\ exec[e].pc = "committed"
    /\ ExecStep(e, IF EligiblePool(d) = {} THEN "empty" ELSE "locked", d, EligiblePool(d))
    /\ UNCHANGED <<now, drawVars, ticketVars, lifecycle, closing, committing, adminVars, faults>>

\* cancelEmptyDraw: an unguarded write.
CancelEmptyDraw(e) ==
    /\ exec[e].pc = "empty"
    /\ SetStatus(exec[e].draw, "CANCELLED")
    /\ NextDraw(e)
    /\ UNCHANGED <<now, seed, result, ticketVars, lifecycle, closing, committing, adminVars, faults>>

\* One transaction: the result (unique per draw), the winner's status and the
\* draw's, the last two without looking at what they overwrite.
PublishResult(e) ==
    LET d == exec[e].draw IN
    /\ exec[e].pc = "locked"
    /\ result[d] = NoResult
    /\ \E w \in exec[e].pool :
         /\ result' = [result EXCEPT ![d] = [winner |-> w, pool |-> exec[e].pool,
                                             seed |-> seed[d]]]
         /\ unit' = [unit EXCEPT ![w] = "WINNING"]
    /\ SetStatus(d, "COMPLETED")
    /\ NextDraw(e)
    /\ UNCHANGED <<now, seed, drawOf, payment, paidAt, refunding, lifecycle, closing,
                   committing, adminVars, faults>>

\* A statement fails: the draw stays in EXECUTING and the loop goes on.
AbandonDraw(e) ==
    /\ exec[e].pc # "idle"
    /\ faults < MaxFaults /\ faults' = faults + 1
    /\ NextDraw(e)
    /\ UNCHANGED <<now, drawVars, ticketVars, lifecycle, closing, committing, adminVars>>

\* A statement outside the execution of a draw fails: what its tick had read is
\* dropped, a draw just claimed included.
LoseSeedTick(e) ==
    /\ faults < MaxFaults /\ faults' = faults + 1
    /\ committing' = [committing EXCEPT ![e] = {}]
    /\ UNCHANGED <<now, drawVars, ticketVars, lifecycle, closing, exec, adminVars>>

LoseLifecycleTick(e) ==
    /\ faults < MaxFaults /\ faults' = faults + 1
    /\ lifecycle' = [lifecycle EXCEPT ![e] = {}]
    /\ closing' = closing \ {e}
    /\ UNCHANGED <<now, drawVars, ticketVars, committing, exec, adminVars>>

LoseExecutionTick(e) ==
    /\ faults < MaxFaults /\ faults' = faults + 1
    /\ exec[e].pc \in {"idle", "claimed"}
    /\ exec' = [exec EXCEPT ![e] = Idle]
    /\ UNCHANGED <<now, drawVars, ticketVars, lifecycle, closing, committing, adminVars>>

\* The process dies and restarts with nothing in memory.
CrashEngine(e) ==
    /\ faults < MaxFaults /\ faults' = faults + 1
    /\ lifecycle' = [lifecycle EXCEPT ![e] = {}]
    /\ closing' = closing \ {e}
    /\ committing' = [committing EXCEPT ![e] = {}]
    /\ exec' = [exec EXCEPT ![e] = Idle]
    /\ UNCHANGED <<now, drawVars, ticketVars, adminVars>>

-----------------------------------------------------------------------------
(* Ticket channels                                                         *)

\* initiatePurchase: a PENDING payment bound to an open draw.
InitiatePurchase(t, d) ==
    /\ t \in GatewayTickets /\ payment[t] = "NONE"
    /\ SalesOpen(d)
    /\ payment' = [payment EXCEPT ![t] = "PENDING"]
    /\ drawOf' = [drawOf EXCEPT ![t] = d]
    /\ UNCHANGED <<now, drawVars, unit, paidAt, refunding, engineVars, adminVars, faults>>

\* The provider takes the customer's money, at any time after that.
CustomerPays(t) ==
    /\ payment[t] = "PENDING" /\ t \in GatewayTickets /\ paidAt[t] = NotPaid
    /\ paidAt' = [paidAt EXCEPT ![t] = now]
    /\ UNCHANGED <<now, drawVars, unit, drawOf, payment, refunding, engineVars,
                   adminVars, faults>>

\* The provider verifies that the payment failed.
PaymentFails(t) ==
    /\ payment[t] = "PENDING" /\ t \in GatewayTickets /\ paidAt[t] = NotPaid
    /\ payment' = [payment EXCEPT ![t] = "FAILED"]
    /\ UNCHANGED <<now, drawVars, unit, drawOf, paidAt, refunding, engineVars,
                   adminVars, faults>>

\* The time confirmAndCreateTickets holds against the cutoff: the provider's
\* own, or that of the verification when the provider gives none.
PaymentTimes(t) == {paidAt[t], now}

\* The states in which a paid purchase is fulfilled. (EXECUTING is a near miss.)
FulfillableLate == {"ACTIVE", "SALES_CLOSED", "EXECUTING"}
Fulfillable == {"ACTIVE", "SALES_CLOSED"}

\* confirmAndCreateTickets, under the locks of the payment and of the draw.
ConfirmPurchase(t) ==
    LET d == drawOf[t] IN
    /\ t \in GatewayTickets /\ payment[t] = "PENDING" /\ paidAt[t] # NotPaid
    /\ \E at \in PaymentTimes(t) :
         IF at < draw[d].cutoffAt /\ Status(d) \in Fulfillable
           THEN /\ payment' = [payment EXCEPT ![t] = "CONFIRMED"]
                /\ unit' = [unit EXCEPT ![t] = "ACTIVE"]
           ELSE /\ payment' = [payment EXCEPT ![t] = "REVIEW_REQUIRED"]
                /\ UNCHANGED unit
    /\ UNCHANGED <<now, drawVars, drawOf, paidAt, refunding, engineVars, adminVars, faults>>

\* WalletTicketPurchaseService.purchase, under the lock of the draw.
WalletPurchase(t, d) ==
    /\ t \in WalletTickets /\ unit[t] = "NONE"
    /\ SalesOpen(d)
    /\ unit' = [unit EXCEPT ![t] = "ACTIVE"]
    /\ drawOf' = [drawOf EXCEPT ![t] = d]
    /\ UNCHANGED <<now, drawVars, payment, paidAt, refunding, engineVars, adminVars, faults>>

\* AgentSalesService.sell: the draw is checked before the transaction ...
AgentChecksDraw(t, d) ==
    /\ t \in AgentTickets /\ unit[t] = "NONE"
    /\ SalesOpen(d)
    /\ unit' = [unit EXCEPT ![t] = "CHECKED"]
    /\ drawOf' = [drawOf EXCEPT ![t] = d]
    /\ UNCHANGED <<now, drawVars, payment, paidAt, refunding, engineVars, adminVars, faults>>

\* ... which takes no lock on it and does not look at it again.
AgentIssuesTicket(t) ==
    /\ unit[t] = "CHECKED"
    /\ unit' = [unit EXCEPT ![t] = "ACTIVE"]
    /\ payment' = [payment EXCEPT ![t] = "CONFIRMED"]
    /\ UNCHANGED <<now, drawVars, drawOf, paidAt, refunding, engineVars, adminVars, faults>>

-----------------------------------------------------------------------------
(* Refund desk                                                             *)

Refundable == OpenStatus \cup {"CANCELLED"}

\* Only a live ticket is quarantined, only a quarantined one expires. (Expiring
\* whatever the payment bought would not do.)
Quarantine(s) == IF s = "ACTIVE" THEN "REFUND_PENDING" ELSE s
ExpireAny(s) == IF s = "NONE" THEN s ELSE "EXPIRED"
ExpireQuarantined(s) == IF s = "REFUND_PENDING" THEN "EXPIRED" ELSE s

\* PaymentRefundService.initiate: the payment is locked, its tickets are read ...
CheckRefund(t) ==
    /\ t \in GatewayTickets \ refunding
    /\ payment[t] \in {"CONFIRMED", "REVIEW_REQUIRED"}
    /\ unit[t] # "WINNING"
    /\ refunding' = refunding \cup {t}
    /\ UNCHANGED <<now, drawVars, unit, drawOf, payment, paidAt, engineVars, adminVars, faults>>

\* ... then the draw is locked and checked, and the ticket leaves the pool.
ReserveRefund(t) ==
    /\ t \in refunding
    /\ refunding' = refunding \ {t}
    /\ IF payment[t] = "CONFIRMED" /\ Status(drawOf[t]) \notin Refundable
         THEN UNCHANGED <<payment, unit>>
         ELSE /\ payment' = [payment EXCEPT ![t] = "REFUND_PENDING"]
              /\ unit' = [unit EXCEPT ![t] = Quarantine(@)]
    /\ UNCHANGED <<now, drawVars, drawOf, paidAt, engineVars, adminVars, faults>>

\* markSucceeded: only tickets still quarantined expire.
RefundSucceeds(t) ==
    /\ payment[t] = "REFUND_PENDING"
    /\ payment' = [payment EXCEPT ![t] = "REFUNDED"]
    /\ unit' = [unit EXCEPT ![t] = ExpireQuarantined(@)]
    /\ UNCHANGED <<now, drawVars, drawOf, paidAt, refunding, engineVars, adminVars, faults>>

\* markFailed: back to review for good, the ticket stays quarantined.
RefundFails(t) ==
    /\ payment[t] = "REFUND_PENDING"
    /\ payment' = [payment EXCEPT ![t] = "REFUND_FAILED"]
    /\ UNCHANGED <<now, drawVars, unit, drawOf, paidAt, refunding, engineVars, adminVars, faults>>

-----------------------------------------------------------------------------
AdminNext == \E d \in Draws :
    \/ CreateDraw(d)
    \/ ReadEditable(d) \/ WriteEdit(d)
    \/ ReadCancellable(d) \/ WriteCancel(d)

SeedLoop(e)      == ReadUncommitted(e) \/ \E d \in Draws : CommitSeed(e, d)
LifecycleLoop(e) == ReadReady(e) \/ ReadPastCutoff(e) \/ \E m \in Transition : WriteTransition(e, m)
ExecutionLoop(e) == \/ ReadDue(e) \/ \E d \in Draws : ClaimDraw(e, d)
                    \/ ReadCommitment(e) \/ LockPool(e)
                    \/ CancelEmptyDraw(e) \/ PublishResult(e)

EngineNext == \E e \in Engines :
    \/ SeedLoop(e) \/ LifecycleLoop(e) \/ ExecutionLoop(e)
    \/ AbandonDraw(e) \/ LoseSeedTick(e) \/ LoseLifecycleTick(e) \/ LoseExecutionTick(e)
    \/ CrashEngine(e)

SalesNext == \E t \in Tickets :
    \/ \E d \in Draws : InitiatePurchase(t, d) \/ WalletPurchase(t, d) \/ AgentChecksDraw(t, d)
    \/ CustomerPays(t) \/ PaymentFails(t) \/ ConfirmPurchase(t) \/ AgentIssuesTicket(t)

RefundNext == \E t \in Tickets :
    CheckRefund(t) \/ ReserveRefund(t) \/ RefundSucceeds(t) \/ RefundFails(t)

Next == Tick \/ AdminNext \/ EngineNext \/ SalesNext \/ RefundNext

Spec == Init /\ [][Next]_vars

\* setInterval keeps every loop of a running engine going, and time passes.
Fairness ==
    /\ WF_vars(Tick)
    /\ \A e \in Engines : /\ WF_vars(SeedLoop(e))
                          /\ WF_vars(LifecycleLoop(e))
                          /\ WF_vars(ExecutionLoop(e))

FairSpec == Spec /\ Fairness

-----------------------------------------------------------------------------
DrawRecord == [status : DrawStatus \cup {"UNCREATED"}, cutoffAt : Times,
               scheduledAt : Times, configVersion : Nat]

ExecPc == {"idle", "claimed", "committed", "locked", "empty"}

Execution ==
    {x \in [pc : ExecPc, due : SUBSET Draws, draw : Draws \cup {NoDraw}, pool : SUBSET Units] :
        x.pc = "idle" <=> x.draw = NoDraw}

TypeOK ==
    /\ now \in Times
    /\ draw \in [Draws -> DrawRecord]
    /\ seed \in [Draws -> Engines \cup {NoSeed}]
    /\ result \in [Draws -> DrawResult \cup {NoResult}]
    /\ unit \in [Units -> UnitStatus]
    /\ drawOf \in [Units -> Draws \cup {NoDraw}]
    /\ payment \in [Tickets -> PaymentStatus]
    /\ paidAt \in [Tickets -> Times \cup {NotPaid}]
    /\ refunding \subseteq GatewayTickets
    /\ lifecycle \in [Engines -> SUBSET Transition] /\ closing \subseteq Engines
    /\ committing \in [Engines -> SUBSET Draws]
    /\ exec \in [Engines -> Execution]
    /\ cancelling \subseteq Draws /\ editing \subseteq Draws
    /\ faults \in Nat

\* No ticket exists before the hash of its draw's seed is on record
\* (lifecycle.service.ts: "no draw sells tickets before its seed hash is on
\* public record"), whatever the loops, the administrators and crashes do.
SeedBeforeSales == \A d \in Draws : TicketsOf(d) # {} => seed[d] # NoSeed

\* Every ticket of a channel that locks the draw row takes part in the draw it
\* was sold for, unless the refund desk took it out: the locks of confirmation,
\* wallet purchase and refund order them all before the engine's claim.
NoLockedSaleLeftOut ==
    \A d \in Draws : result[d] # NoResult =>
      \A t \in Locking : drawOf[t] = d /\ unit[t] \in {"ACTIVE", "WINNING"}
                           => t \in result[d].pool

\* Exactly the published winner of each draw is WINNING, for good: neither a
\* refund, nor a cancellation, nor a second engine adds or takes away a winner.
OneWinner ==
    \A u \in Units : unit[u] = "WINNING"
      <=> \E d \in Draws : result[d] # NoResult /\ result[d].winner = u

\* Two engine processes never execute the same draw at once
\* (execution.service.ts: "exactly one process can win this").
OneExecutor ==
    \A e1, e2 \in Engines :
      exec[e1].pc # "idle" /\ exec[e2].pc # "idle" /\ exec[e1].draw = exec[e2].draw => e1 = e2

\* A published result is never replaced, a committed seed never overwritten, and
\* the seed a result reveals is the one committed (commit-then-reveal).
CommitThenReveal ==
    [][\A d \in Draws :
         /\ result[d] # NoResult => result'[d] = result[d]
         /\ seed[d] # NoSeed => seed'[d] = seed[d]
         /\ result'[d] # NoResult => result'[d].seed = seed[d]]_vars

\* Once a draw has been claimed, drawn or cancelled, no stale write of the
\* lifecycle loop or of a second engine puts it back on sale.
NeverReopened ==
    [][\A d \in Draws : Status(d) \in {"EXECUTING"} \cup Final
                          => draw'[d].status \in {"EXECUTING"} \cup Final]_vars

\* A draw that has sold a ticket ends in a result or a cancellation. When a statement
\* of the engine fails or an engine crashes, it may stay with the execution that was
\* begun, and no other draw waits for that.
SoldDrawEnds ==
    \A d \in Draws : TicketsOf(d) # {} ~>
        Status(d) \in Final \/ (Status(d) = "EXECUTING" /\ faults > 0)

-----------------------------------------------------------------------------
(* The inductive invariant behind the safety properties                    *)

\* Whatever leads to a ticket has seen the commitment.
SeedInv ==
    /\ \A d \in Draws : Status(d) = "ACTIVE" => seed[d] # NoSeed
    /\ \A e \in Engines : \A m \in lifecycle[e] : m.to = "ACTIVE" => seed[m.draw] # NoSeed
    /\ \A t \in Tickets : drawOf[t] \in Draws => seed[drawOf[t]] # NoSeed

\* What the rows of a ticket say of one another.
TicketInv ==
    /\ \A t \in Tickets : unit[t] # "NONE" => drawOf[t] \in Draws
    /\ \A t \in GatewayTickets :
         /\ payment[t] \in {"NONE", "PENDING", "FAILED"} => unit[t] = "NONE"
         /\ payment[t] # "NONE" <=> drawOf[t] \in Draws
    /\ \A t \in refunding : payment[t] \in {"CONFIRMED", "REVIEW_REQUIRED"}
    /\ \A t \in Locking : unit[t] # "CHECKED"
    /\ \A n \in Entries : drawOf[n] \in Draws /\ unit[n] \in {"ACTIVE", "WINNING"}

\* A claimed draw has one executor, is out of every sales state and has no result.
ExecInv ==
    /\ \A e \in Engines : exec[e].pc # "idle" =>
         /\ Status(exec[e].draw) \in {"EXECUTING", "CANCELLED"}
         /\ result[exec[e].draw] = NoResult
         /\ exec[e].pc # "claimed" => seed[exec[e].draw] # NoSeed
    /\ \A d \in Draws : result[d] # NoResult => Status(d) \in Final
    /\ OneExecutor

\* A locked pool holds issued units of its draw only, and every live locked sale.
PoolInv ==
    \A e \in Engines :
      /\ \A u \in exec[e].pool : drawOf[u] = exec[e].draw /\ Issued(u)
      /\ exec[e].pc \in {"locked", "empty"} =>
           \A t \in Locking : drawOf[t] = exec[e].draw /\ unit[t] = "ACTIVE" => t \in exec[e].pool

\* A WINNING unit is the winner of its own draw.
WinnerInv ==
    /\ \A u \in Units : unit[u] = "WINNING" =>
         drawOf[u] \in Draws /\ result[drawOf[u]] # NoResult /\ result[drawOf[u]].winner = u
    /\ \A d \in Draws : result[d] # NoResult =>
         unit[result[d].winner] = "WINNING" /\ drawOf[result[d].winner] = d

\* A result reveals a seed, and it is the one that was committed.
RevealInv == \A d \in Draws : result[d] # NoResult => seed[d] # NoSeed /\ result[d].seed = seed[d]

IInv == /\ TypeOK /\ SeedInv /\ TicketInv /\ ExecInv /\ PoolInv /\ WinnerInv /\ RevealInv
        /\ NoLockedSaleLeftOut

-----------------------------------------------------------------------------
(* The promise made to the players                                         *)

Withdrawn == {t \in Tickets : unit[t] \in {"REFUND_PENDING", "EXPIRED"}}

R == INSTANCE Raffle WITH
        Seeds <- Engines, Ordered <- Locking, Other <- AgentTickets, Bonus <- Entries,
        committed <- seed, sold <- [d \in Draws |-> TicketsOf(d)],
        withdrawn <- Withdrawn, drawn <- result

\* The engine, the sales channels and the refund desk together implement the
\* raffle of module Raffle.
ImplementsRaffle == R!Spec

-----------------------------------------------------------------------------
(* The contract of a gateway ticket with its draw                           *)

OrderState(t) ==
    CASE payment[t] \in {"NONE", "PENDING"} -> "OPEN"
      [] payment[t] = "CONFIRMED"           -> "BOUGHT"
      [] payment[t] = "FAILED"              -> "REFUSED"
      [] payment[t] = "REVIEW_REQUIRED"     -> "HELD"
      [] payment[t] = "REFUND_PENDING"      -> "RETURNING"
      [] payment[t] = "REFUND_FAILED"       -> "KEPT"
      [] payment[t] = "REFUNDED"            -> "RETURNED"

TicketState(t) ==
    CASE unit[t] = "ACTIVE"                       -> "IN"
      [] unit[t] \in {"REFUND_PENDING", "EXPIRED"} -> "OUT"
      [] unit[t] = "WINNING"                      -> "WON"
      [] OTHER                                    -> "NONE"

\* A payment that is bound to no draw yet has an open one.
DrawState(d) ==
    CASE d \in Draws /\ Status(d) = "EXECUTING" -> "RUNNING"
      [] d \in Draws /\ Status(d) = "COMPLETED" -> "DRAWN"
      [] d \in Draws /\ Status(d) = "CANCELLED" -> "CANCELLED"
      [] OTHER                                  -> "OPEN"

ResultFor(t, d) ==
    IF d \notin Draws \/ result[d] = NoResult THEN "NONE"
    ELSE IF t \in result[d].pool THEN "WITH" ELSE "WITHOUT"

O(t) == INSTANCE TicketOrder WITH
            order <- OrderState(t), ticket <- TicketState(t),
            draw <- DrawState(drawOf[t]), result <- ResultFor(t, drawOf[t])

\* Loops, administrators, confirmations and the refund desk keep it for every ticket:
\* O(t)!Spec of each, under one box.
ImplementsTicketOrder ==
    /\ \A t \in GatewayTickets : O(t)!Init
    /\ [][\A t \in GatewayTickets : [O(t)!Next]_(O(t)!vars)]_vars

=============================================================================
