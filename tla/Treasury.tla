------------------------------- MODULE Treasury -------------------------------
(***************************************************************************)
(* What the providers do with the money they have collected, and what      *)
(* SureWina makes of it: settlements move collections out of the clearing  *)
(* account, and reconciliation compares the provider's list of             *)
(* transactions with the fundings. It works on the state of Funding while  *)
(* that goes on.                                                           *)
(***************************************************************************)
EXTENDS Funding

CONSTANTS
    Batches,   \* settlements of the providers
    Syncs,     \* synchronisations of Flutterwave settlements under way
    MaxRuns    \* reconciliations started

ASSUME TreasuryAssumption == MaxRuns \in Nat

VARIABLES
    batch,       \* the provider's settlement: its status and transactions
    settlement,  \* treasury_settlements: status and figures, and what was posted of it
    fetched,     \* what a synchronisation has been told
    run,         \* the reconciliation under way
    started,
    certified    \* paid transactions that runs without an issue have seen

settling   == <<batch, settlement, fetched>>
reconciling == <<run, started, certified>>
vars == <<fundingVars, settling, reconciling>>

NoFetch == [on |-> FALSE]
NoRun   == [step |-> "NONE"]

Init ==
    /\ InitFunding
    /\ batch = [b \in Batches |-> [status |-> "NONE", of |-> {}]]
    /\ settlement = [b \in Batches |-> [status |-> "NONE", gross |-> 0, posted |-> 0]]
    /\ fetched = [y \in Syncs |-> NoFetch]
    /\ run = NoRun /\ started = 0 /\ certified = {}

-----------------------------------------------------------------------------
(* Settlement *)

Worth(paid, other) == Amount * Cardinality(paid) + Other * Cardinality(other)

Ending(b, s) == {c \in batch[b].of : charge[c] = s}

Total(b) == Worth(Ending(b, "PAID"), Ending(b, "PAID_OTHER"))

Unsettled(c) == \A b \in Batches : c \notin batch[b].of

Settles(b, g) == \A c \in batch[b].of : gateway[ChargeOf[c]] = g

\* A settlement, of one provider, grows until it is completed.
ProviderAdds(b, c) ==
    /\ batch[b].status # "COMPLETED" /\ Settles(b, gateway[ChargeOf[c]])
    /\ IsPaid(charge[c]) /\ Unsettled(c)
    /\ batch' = [batch EXCEPT ![b] = [status |-> "PROCESSING", of |-> @.of \cup {c}]]
    /\ UNCHANGED <<fundingVars, settlement, fetched, reconciling>>

ProviderCompletes(b) ==
    /\ batch[b].status = "PROCESSING"
    /\ batch' = [batch EXCEPT ![b].status = "COMPLETED"]
    /\ UNCHANGED <<fundingVars, settlement, fetched, reconciling>>

\* (Any settlement that is known is posted:)
PostsAtOnce(s) == s.posted = 0

\* postSettlementInTransaction: a completed one, and once.
MayPost(s) == s.posted = 0 /\ s.status = "COMPLETED"

\* The upsert takes the latest figures; the journal is made from them.
Store(b, status, gross) ==
    LET s == [settlement[b] EXCEPT !.status = status, !.gross = gross] IN
    IF MayPost(s)
    THEN /\ settlement' = [settlement EXCEPT ![b] = [s EXCEPT !.posted = gross]]
         /\ clearing' = clearing - gross
    ELSE /\ settlement' = [settlement EXCEPT ![b] = s]
         /\ UNCHANGED clearing

\* Every settlement of three days is expanded before the first one is stored.
Fetch(y, b) ==
    /\ Settles(b, "FLUTTERWAVE") /\ batch[b].status # "NONE"
    /\ fetched[y] = NoFetch
    /\ fetched' = [fetched EXCEPT ![y] =
                     [on |-> TRUE, batch |-> b, status |-> batch[b].status,
                      gross |-> Total(b)]]
    /\ UNCHANGED <<fundingVars, batch, settlement, reconciling>>

StoreFlutterwave(y) ==
    /\ fetched[y].on
    /\ Store(fetched[y].batch, fetched[y].status, fetched[y].gross)
    /\ fetched' = [fetched EXCEPT ![y] = NoFetch]
    /\ UNCHANGED <<funding, provider, heard, wallet, walletOpen, batch, reconciling>>

SyncFails(y) ==
    /\ fetched[y].on
    /\ fetched' = [fetched EXCEPT ![y] = NoFetch]
    /\ UNCHANGED <<fundingVars, batch, settlement, reconciling>>

\* The webhook's amount may not be what the transactions sum up to.
IngestMonnify(b) ==
    /\ Settles(b, "MONNIFY") /\ batch[b].status = "COMPLETED"
    /\ \E status \in {"COMPLETED", "FLAGGED"} : Store(b, status, Total(b))
    /\ UNCHANGED <<funding, provider, heard, wallet, walletOpen, batch, fetched, reconciling>>

-----------------------------------------------------------------------------
(* Reconciliation *)

FundingsOf(g) == {f \in Fundings : gateway[f] = g}

StartRun(g) ==
    /\ run = NoRun /\ started < MaxRuns
    /\ run' = [step |-> "FETCH", gateway |-> g, list |-> {}, todo |-> {}, issues |-> FALSE]
    /\ started' = started + 1
    /\ UNCHANGED <<fundingVars, settling, certified>>

\* Flutterwave is asked for successful transactions first and for failed ones later.
Listed(statuses) ==
    {[of |-> ChargeOf[c], charge |-> c, status |-> charge[c]] :
        c \in {d \in Charges : gateway[ChargeOf[d]] = run.gateway /\ charge[d] \in statuses}}

FetchList ==
    /\ run.step = "FETCH"
    /\ run' = IF run.gateway = "FLUTTERWAVE"
              THEN [run EXCEPT !.step = "FETCH_FAILED", !.list = Listed({"PAID", "PAID_OTHER"})]
              ELSE LET l == Listed({"PENDING", "PAID", "PAID_OTHER", "FAILED"}) IN
                   [run EXCEPT !.step = "COMPARE", !.list = l, !.todo = l]
    /\ UNCHANGED <<fundingVars, settling, started, certified>>

FetchFailed ==
    /\ run.step = "FETCH_FAILED"
    /\ LET l == run.list \cup Listed({"FAILED"}) IN
       run' = [run EXCEPT !.step = "COMPARE", !.list = l, !.todo = l]
    /\ UNCHANGED <<fundingVars, settling, started, certified>>

Successful(f) == funding[f] \in {"CREDITED", "REVIEW_REQUIRED"}
Recognized(f) == funding[f] = "CREDITED"

\* (A funding in review counts as the money's record:)
OnlyStatus(x) == IsPaid(x.status) # Successful(x.of)

Differs(x) ==
    \/ x.status = "PAID_OTHER"
    \/ IsPaid(x.status) # Successful(x.of)
    \/ IsPaid(x.status) /\ ~Recognized(x.of)

Compare(x) ==
    /\ run.step = "COMPARE" /\ x \in run.todo
    /\ run' = [run EXCEPT !.todo = @ \ {x}, !.issues = @ \/ Differs(x)]
    /\ UNCHANGED <<fundingVars, settling, started, certified>>

\* findMissingExternal, and the count of the issues.
Missing == \E f \in FundingsOf(run.gateway) :
              funding[f] \in Ended /\ \A x \in run.list : x.of # f

EndRun ==
    /\ run.step = "COMPARE" /\ run.todo = {}
    /\ certified' = IF run.issues \/ Missing THEN certified
                    ELSE certified \cup {x.charge : x \in {y \in run.list : IsPaid(y.status)}}
    /\ run' = NoRun
    /\ UNCHANGED <<fundingVars, settling, started>>

\* The provider does not answer, or the process stops.
RunEnds ==
    /\ run # NoRun
    /\ run' = NoRun
    /\ UNCHANGED <<fundingVars, settling, started, certified>>

-----------------------------------------------------------------------------
Collecting == FundingSteps /\ UNCHANGED <<settling, reconciling>>

Settling == \/ \E b \in Batches : ProviderCompletes(b) \/ IngestMonnify(b)
                                  \/ \E c \in Charges : ProviderAdds(b, c)
            \/ \E y \in Syncs : StoreFlutterwave(y) \/ SyncFails(y)
                                \/ \E b \in Batches : Fetch(y, b)

Reconciling == \/ \E g \in Gateways : StartRun(g)
               \/ FetchList \/ FetchFailed \/ EndRun \/ RunEnds
               \/ run # NoRun /\ \E x \in run.todo : Compare(x)

Next == Collecting \/ Settling \/ Reconciling

Spec == Init /\ [][Next]_vars

-----------------------------------------------------------------------------
Batch      == [status : {"NONE", "PROCESSING", "COMPLETED"}, of : SUBSET Charges]
Settlement == [status : {"NONE", "PROCESSING", "COMPLETED", "FLAGGED"}, gross : Nat, posted : Nat]
Fetched    == [on : {TRUE}, batch : Batches, status : {"PROCESSING", "COMPLETED"}, gross : Nat]

SettlingTypes ==
    /\ clearing \in Int
    /\ batch \in [Batches -> Batch]
    /\ settlement \in [Batches -> Settlement]
    /\ fetched \in [Syncs -> {NoFetch} \cup Fetched]

Entry == [of : Fundings, charge : Charges, status : {"PENDING", "PAID", "PAID_OTHER", "FAILED"}]
Run   == [step : {"FETCH", "FETCH_FAILED", "COMPARE"}, gateway : Gateways,
          list : SUBSET Entry, todo : SUBSET Entry, issues : BOOLEAN]

TypeOK ==
    /\ FundingTypes /\ SettlingTypes
    /\ run = NoRun \/ run \in Run
    /\ started \in 0 .. MaxRuns /\ certified \subseteq Charges

Posted == {b \in Batches : settlement[b].posted # 0}

\* Every transaction of every settlement that is posted, with the settlement.
Settled(s) == UNION {{b} \X Ending(b, s) : b \in Posted}

\* The clearing account is traceable to the provider's settlements: it holds what was
\* credited, less what the completed settlements that are posted really contain,
\* whatever figures were heard in between.
ClearingTraceable ==
    /\ clearing = Amount * Cardinality(Credited) - Worth(Settled("PAID"), Settled("PAID_OTHER"))
    /\ \A b \in Posted : batch[b].status = "COMPLETED"

\* A reconciliation without an issue can be relied upon: every paid transaction it was
\* told of is in the owner's wallet.
CleanRunHolds == \A c \in certified : charge[c] = "PAID" /\ ChargeOf[c] \in Credited

\* A credit is final: neither an old answer nor the failure of an initiation, written
\* whatever the status is, takes it back.
CreditStays == [][\A f \in Fundings : funding[f] = "CREDITED" => funding'[f] = "CREDITED"]_vars

\* Why that is so: the list tells the truth of what is paid, and what has been compared
\* without an issue is credited.
RunInv ==
    run # NoRun =>
        /\ run \in Run
        /\ \A x \in run.list : x.of = ChargeOf[x.charge] /\ (IsPaid(x.status) => charge[x.charge] = x.status)
        /\ run.step = "COMPARE" /\ ~run.issues =>
              \A x \in run.list \ run.todo :
                  IsPaid(x.status) => x.status = "PAID" /\ funding[x.of] = "CREDITED"

CertifiedInv == certified \subseteq Charges

\* Why the settlements can be traced: a transaction that is settled has been paid and stays
\* so, a completed settlement grows no more, and news of one tells what it contains.
SettledInv ==
    /\ \A b \in Batches :
          /\ IsFiniteSet(batch[b].of)
          /\ \A c \in batch[b].of : IsPaid(charge[c])
          /\ batch[b].of = {} => batch[b].status = "NONE"
    /\ \A y \in Syncs : fetched[y].on /\ fetched[y].status = "COMPLETED" =>
          batch[fetched[y].batch].status = "COMPLETED" /\ fetched[y].gross = Total(fetched[y].batch)
    /\ \A s \in {"PAID", "PAID_OTHER"} : IsFiniteSet(Settled(s))

SettlingInv == SettlingTypes /\ SettledInv /\ ClearingTraceable

IInv ==
    /\ FundingInv /\ SettlingInv
    /\ RunInv /\ CertifiedInv /\ CleanRunHolds
    /\ started \in 0 .. MaxRuns
=============================================================================
