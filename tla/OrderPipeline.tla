--------------------------- MODULE OrderPipeline ----------------------------
(***************************************************************************)
(* The measurement of one order.  Operators approve it, enqueue its        *)
(* permits, stop it, sign it off and deliver it.  Workers run              *)
(* runMeasurementForPermit for the jobs of the selena-measure queue:       *)
(* reserve, claim, pass the guards, call the provider once, complete,      *)
(* settle.  Between any two of these steps another actor may commit.       *)
(***************************************************************************)
EXTENDS OrderStore

CONSTANTS
    Workers,        \* worker processes, one selena-measure job each
    Desks,          \* QC decisions that may be open at the same time
    Outcomes,       \* what an adapter may return: [status, cost, rejected]
    Disturbances,   \* subset of {"CRASH", "DATABASE", "LOST_ACK", "REDEPLOY",
                    \*            "EXPIRY"}
    MaxCopies,      \* bound: jobs of one permit waiting at a time
    MaxReviews,     \* bound: QC decisions begun
    NoPermit, NoOutcome

ASSUME OutcomesAssumption ==
    \A o \in Outcomes : o.status \in Finished /\ o.cost \in Nat \cup {NoCost}
ASSUME BoundsAssumption == MaxCopies \in Nat /\ MaxReviews \in Nat

VARIABLES
    jobs,           \* how many jobs of a permit wait in the queue
    expired,        \* permits' expires_at has passed
    wpc, cur,       \* a worker's step and the permit of its job
    halted,         \* what its guards know: a stop or the expiry
    said,           \* the outcome it holds
    dpc,            \* a desk's open QC decision
    stamp,          \* when its transaction began
    calls           \* history: provider calls made for a permit

working == <<wpc, cur, halted, said>>
desks == <<dpc, stamp>>
vars == <<store, jobs, expired, working, desks, calls>>

WorkerStep == {"idle", "claim", "guards", "called", "complete",
               "failing", "settle"}
DeskStep == {"idle", "sign", "reject"}

\* What the catch block records: the message of the error may itself say that
\* the provider rejected the request.
Failure == [status |-> "FAILED", cost |-> NoCost, rejected |-> FALSE]
Failures == {Failure, [Failure EXCEPT !.rejected = TRUE]}

Init ==
    /\ StoreInit
    /\ jobs = [p \in Permits |-> 0]
    /\ expired = FALSE
    /\ wpc = [w \in Workers |-> "idle"]
    /\ cur = [w \in Workers |-> NoPermit]
    /\ halted = [w \in Workers |-> FALSE]
    /\ said = [w \in Workers |-> NoOutcome]
    /\ dpc = [d \in Desks |-> "idle"]
    /\ stamp = [d \in Desks |-> 0]
    /\ calls = [p \in Permits |-> 0]

-----------------------------------------------------------------------------
(* The desks.  An approval and a stop read the order before their           *)
(* transaction; that look decides nothing the transaction would not decide  *)
(* again, because an order never returns to a status it left.               *)

untouchedByDesk == <<jobs, expired, working, calls>>

\* The preflight compares the worst case with a configured budget, not with what
\* the ledger has left.
ApproveOrder == CreatePermits /\ UNCHANGED <<untouchedByDesk, desks>>

StopSelenaOrder == StopOrder /\ UNCHANGED <<untouchedByDesk, desks>>

DeliverOrder == Deliver /\ UNCHANGED <<untouchedByDesk, desks>>

\* A desk lists the issued permits of a queued order and sends their jobs one by
\* one; a send may fail, and the rest is not sent.  The list may be old when a
\* job is sent, but so may the job when it is fetched.  pg-boss may find a
\* waiting job under the same singleton key and keep that.
EnqueueRun(p) ==
    /\ order = "QUEUED" /\ permit[p] = "issued" /\ ~expired
    /\ jobs[p] < MaxCopies
    /\ jobs' = [jobs EXCEPT ![p] = @ + 1]
    /\ UNCHANGED <<store, expired, working, desks, calls>>

\* The transaction begins, and then waits for the lock of the order row.
OpenReview(d, decision) ==
    /\ began < MaxReviews
    /\ dpc[d] = "idle" /\ dpc' = [dpc EXCEPT ![d] = decision]
    /\ began' = began + 1
    /\ stamp' = [stamp EXCEPT ![d] = began + 1]
    /\ UNCHANGED <<untouchedByDesk, measured, books, latest>>

Close(d) ==
    /\ dpc' = [dpc EXCEPT ![d] = "idle"]
    /\ stamp' = [stamp EXCEPT ![d] = 0]
    /\ UNCHANGED untouchedByDesk

CommitReview(d) ==
    /\ \/ dpc[d] = "sign" /\ ApproveQc(stamp[d])
       \/ dpc[d] = "reject" /\ RejectQc(stamp[d])
    /\ Close(d)

\* assertQcApprovable throws and the record rolls back.
SignRefused(d) ==
    /\ dpc[d] = "sign" /\ ~Approvable
    /\ Close(d) /\ UNCHANGED store

Desk(d) ==
    \/ (\E decision \in {"sign", "reject"} : OpenReview(d, decision))
    \/ CommitReview(d) \/ SignRefused(d)

-----------------------------------------------------------------------------
(* The worker: runMeasurementForPermit.                                     *)

Run(w, step) ==
    /\ wpc' = [wpc EXCEPT ![w] = step]
    /\ UNCHANGED <<expired, desks>>

\* The job is over, however it ended; retryLimit 0 means nobody repeats it.
Leave(w) ==
    /\ Run(w, "idle")
    /\ cur' = [cur EXCEPT ![w] = NoPermit]
    /\ halted' = [halted EXCEPT ![w] = FALSE]
    /\ said' = [said EXCEPT ![w] = NoOutcome]
    /\ UNCHANGED <<jobs, calls>>

\* The job reserves the budget and then takes the claim time.  An emergency stop
\* is a variable of the worker's process.
FetchJob(w, p) ==
    /\ wpc[w] = "idle" /\ jobs[p] > 0
    /\ jobs' = [jobs EXCEPT ![p] = @ - 1]
    /\ Reserve(p)
    /\ cur' = [cur EXCEPT ![w] = p]
    /\ \E emergency \in {FALSE, "REDEPLOY" \in Disturbances} :
           halted' = [halted EXCEPT ![w] = expired \/ emergency]
    /\ Run(w, "claim")
    /\ UNCHANGED <<said, calls>>

\* The reservation is refused or fails, or the worker's process has measurement
\* switched off: the job is consumed and the permit stays unspent.
JobDropped(p) ==
    /\ jobs[p] > 0 /\ jobs' = [jobs EXCEPT ![p] = @ - 1]
    /\ ~CanReserve(p) \/ Disturbances \cap {"DATABASE", "REDEPLOY", "CRASH"} # {}
    /\ UNCHANGED <<store, expired, working, desks, calls>>

\* The guards will look at the cycle as it is now.
ClaimPermit(w) ==
    /\ wpc[w] = "claim" /\ ClaimRun(cur[w])
    /\ halted' = [halted EXCEPT ![w] = @ \/ cycle = "STOPPED"]
    /\ Run(w, "guards")
    /\ UNCHANGED <<jobs, cur, said, calls>>

\* A bug to catch: a job that finds its permit spent gives the budget back.
ClaimSkippedReleasing(w) ==
    /\ wpc[w] = "claim" /\ permit[cur[w]] # "issued"
    /\ ledger' = [ledger EXCEPT ![cur[w]] = "RELEASED"]
    /\ UNCHANGED <<measured, charged, review>>
    /\ Leave(w)

\* The permit is spent: its reservation belongs to whoever spent it.
ClaimSkipped(w) ==
    /\ wpc[w] = "claim"
    /\ permit[cur[w]] # "issued" \/ "DATABASE" \in Disturbances
    /\ Leave(w) /\ UNCHANGED store

GuardsRefuse(w) ==
    /\ wpc[w] = "guards" /\ halted[w]
    /\ said' = [said EXCEPT ![w] = Failure]
    /\ Run(w, "failing")
    /\ UNCHANGED <<store, jobs, cur, halted, calls>>

CallProvider(w) ==
    /\ wpc[w] = "guards" /\ ~halted[w]
    /\ calls' = [calls EXCEPT ![cur[w]] = @ + 1]
    /\ Run(w, "called")
    /\ UNCHANGED <<store, jobs, cur, halted, said>>

ProviderAnswers(w, outcome) ==
    /\ wpc[w] = "called"
    /\ said' = [said EXCEPT ![w] = outcome]
    /\ Run(w, "complete")
    /\ UNCHANGED <<store, jobs, cur, halted, calls>>

\* The adapter throws, or the answer does not fit the permit.
ProviderFails(w) ==
    /\ wpc[w] = "called"
    /\ \E failure \in Failures : said' = [said EXCEPT ![w] = failure]
    /\ Run(w, "failing")
    /\ UNCHANGED <<store, jobs, cur, halted, calls>>

Complete(w) ==
    /\ wpc[w] \in {"complete", "failing"}
    /\ CompleteRun(cur[w], said[w])
    /\ Run(w, "settle")
    /\ UNCHANGED <<jobs, cur, halted, said, calls>>

\* The transaction is lost (a failure, or the victim of a deadlock with a stop
\* or a review, which take order and cycle the other way round), or only its
\* acknowledgement is: the catch block then completes the run as failed.
CompleteThrows(w) ==
    /\ wpc[w] = "complete"
    /\ \/ "DATABASE" \in Disturbances /\ UNCHANGED store
       \/ "LOST_ACK" \in Disturbances /\ CompleteRun(cur[w], said[w])
    /\ said' = [said EXCEPT ![w] = Failure]
    /\ Run(w, "failing")
    /\ UNCHANGED <<jobs, cur, halted, calls>>

\* The catch block has no catch of its own.
FailureUnrecorded(w) ==
    /\ wpc[w] = "failing"
    /\ \/ "DATABASE" \in Disturbances /\ UNCHANGED store
       \/ "LOST_ACK" \in Disturbances /\ CompleteRun(cur[w], said[w])
    /\ Leave(w)

\* A bug to catch: a charge nobody reported is taken for none.
SpentNothing(outcome) == IF outcome.cost = NoCost THEN 0 ELSE outcome.cost

\* What the adapter reported, and the estimate when it reported nothing.
Spent(outcome) == IF outcome.cost = NoCost THEN Estimate ELSE outcome.cost

SettleSpend(w) ==
    /\ wpc[w] = "settle" /\ Settle(cur[w], Spent(said[w]))
    /\ Leave(w)

\* Three tries failed: the reservation stays open at its estimate.
SettleGivesUp(w) ==
    /\ wpc[w] = "settle" /\ "DATABASE" \in Disturbances
    /\ Leave(w) /\ UNCHANGED store

Job(w) ==
    \/ ClaimPermit(w) \/ ClaimSkipped(w)
    \/ GuardsRefuse(w) \/ CallProvider(w)
    \/ (\E outcome \in Outcomes : ProviderAnswers(w, outcome)) \/ ProviderFails(w)
    \/ Complete(w) \/ CompleteThrows(w) \/ FailureUnrecorded(w)
    \/ SettleSpend(w) \/ SettleGivesUp(w)

-----------------------------------------------------------------------------
Crash(w) ==
    /\ "CRASH" \in Disturbances
    /\ wpc[w] # "idle"
    /\ Leave(w) /\ UNCHANGED store

PermitsExpire ==
    /\ "EXPIRY" \in Disturbances
    /\ cycle # "NONE" /\ ~expired /\ expired' = TRUE
    /\ UNCHANGED <<store, jobs, working, desks, calls>>

Next ==
    \/ ApproveOrder \/ StopSelenaOrder \/ DeliverOrder
    \/ \E d \in Desks : Desk(d)
    \/ \E p \in Permits : EnqueueRun(p) \/ JobDropped(p)
    \/ \E w \in Workers, p \in Permits : FetchJob(w, p)
    \/ \E w \in Workers : Job(w) \/ Crash(w)
    \/ PermitsExpire

Spec == Init /\ [][Next]_vars

-----------------------------------------------------------------------------
(* What keeps the order consistent.                                         *)

TypeOK ==
    /\ order \in OrderStatus /\ cycle \in CycleStatus
    /\ completed \in 0 .. Cardinality(Permits)
    /\ permit \in [Permits -> {"none", "issued", "consumed"}]
    /\ run \in [Permits -> {"NONE", "RUNNING"} \cup Finished]
    /\ cost \in [Permits -> Nat \cup {NoCost}]
    /\ ledger \in [Permits -> {"NONE", "RESERVED", "SETTLED"}]
    /\ charged \in [Permits -> Nat]
    /\ latest.decision \in {"none", "approved", "rejected"}
    /\ latest.created \in 0 .. began /\ began \in 0 .. MaxReviews
    /\ jobs \in [Permits -> 0 .. MaxCopies]
    /\ expired \in BOOLEAN
    /\ wpc \in [Workers -> WorkerStep] /\ cur \in [Workers -> Permits \cup {NoPermit}]
    /\ halted \in [Workers -> BOOLEAN]
    /\ said \in [Workers -> Outcomes \cup Failures \cup {NoOutcome}]
    /\ dpc \in [Desks -> DeskStep] /\ stamp \in [Desks -> 0 .. MaxReviews]
    /\ calls \in [Permits -> Nat]

\* The order the operator sees and the cycle the worker moves are two rows that
\* a stop, a breaker, the last completion and a review each update by conditions
\* of their own; after every transaction they tell the same story.
OrderFollowsCycle ==
    /\ cycle \in {"QUEUED", "RUNNING"} => order = "QUEUED"
    /\ cycle = "QC_REQUIRED" <=> order = "QC_REQUIRED"
    /\ cycle = "READY" => order \in {"READY", "DELIVERED", "CANCELLED"}
    /\ cycle = "STOPPED" => order = "CANCELLED"
    /\ order \in {"READY", "DELIVERED"} => cycle = "READY"

\* Duplicate jobs, repeated completions and lost acknowledgements never move the
\* counter twice for one run, and a cycle is never reviewed or published while
\* one of its runs is still open.
ProgressIsCounted ==
    /\ completed = Cardinality({p \in Permits : run[p] \in Finished})
    /\ cycle \in {"QC_REQUIRED", "READY"} => completed = Cardinality(Permits)
    /\ cycle \in {"QUEUED", "RUNNING"} => completed < Cardinality(Permits)

\* The evidence, the permit and the money of one question are written by separate
\* transactions of possibly several jobs: a run has its permit spent and its
\* budget reserved, and a settlement comes after the run's end, at what the
\* stored run cost or at the estimate.
BooksMatchRuns ==
    \A p \in Permits :
        /\ run[p] # "NONE" <=> permit[p] = "consumed"
        /\ run[p] # "NONE" => ledger[p] # "NONE"
        /\ ledger[p] = "SETTLED" =>
              run[p] \in Finished /\ charged[p] \in {Estimate, cost[p]}
        /\ run[p] = "SUCCEEDED" => calls[p] = 1

-----------------------------------------------------------------------------
(* Abstract specifications.                                                 *)

\* For every permit, whatever is queued twice, lost or repeated.
Paid(p) == INSTANCE PaidCall WITH money <- ledger[p], calls <- calls[p]

PermitsArePaidCalls ==
    /\ \A p \in Permits : Paid(p)!Init
    /\ [][\A p \in Permits : Paid(p)!Step]_vars

Life == INSTANCE OrderLife WITH
            Questions <- Permits,
            answers <- calls, signed <- latest.decision = "approved"

\* The order is never revived, published unmeasured or delivered unsigned.
OrderKeepsItsLife == Life!Spec
=============================================================================
