----------------------------- MODULE OrderStore -----------------------------
(***************************************************************************)
(* One commercial measurement order and the transactions that move it: the *)
(* order row, its cycle, the permits and runs of the cycle, the QC records *)
(* and the provider spend ledger of the "measure" scope.  Every operator   *)
(* is one committed transaction of the repositories; who calls it and when *)
(* is in OrderPipeline.                                                    *)
(*                                                                         *)
(* Estimates are one unit.  Audit rows and incidents are records that no   *)
(* decision reads and are left out.                                        *)
(***************************************************************************)
EXTENDS SpendBook, FiniteSets

CONSTANTS
    Permits,        \* the paid questions of the order, one run each
    Perplexity,     \* those asked of the system with the circuit breaker
    SpendCap,       \* what the scope may commit
    NoCost          \* a run that reported no charge

ASSUME PermitsAssumption == IsFiniteSet(Permits) /\ Permits # {}
ASSUME PerplexityAssumption == Perplexity \subseteq Permits
ASSUME SpendCapAssumption == SpendCap \in Nat

VARIABLES
    order,          \* sv_orders.status
    cycle,          \* sv_cycles.status, NONE before the cycle is inserted
    completed,      \* sv_cycles.completed_runs
    permit,         \* sv_run_permits.status
    run, cost,      \* sv_runs.status and its sv_cost_events row
    ledger, charged,\* sv_provider_spend_reservations
    latest,         \* the QC record with the latest created_at
    began           \* transactions that took a created_at so far

measured == <<order, cycle, completed, permit, run, cost>>
books == <<ledger, charged>>
review == <<latest, began>>
store == <<measured, books, review>>

CycleStatus == {"NONE", "QUEUED", "RUNNING", "QC_REQUIRED", "READY", "STOPPED"}
OrderStatus == {"PAID_REVIEW_REQUIRED", "QUEUED", "QC_REQUIRED", "READY",
                "DELIVERED", "CANCELLED"}
Finished == {"SUCCEEDED", "INVALID", "FAILED"}

Estimate == 1
NoRecord == [decision |-> "none", created |-> 0]

StoreInit ==
    /\ order = "PAID_REVIEW_REQUIRED" /\ cycle = "NONE" /\ completed = 0
    /\ permit = [p \in Permits |-> "none"]
    /\ run = [p \in Permits |-> "NONE"]
    /\ cost = [p \in Permits |-> NoCost]
    /\ ledger = [p \in Permits |-> "NONE"]
    /\ charged = [p \in Permits |-> 0]
    /\ latest = NoRecord /\ began = 0

-----------------------------------------------------------------------------
(* dispatch.createPermits, the desk's stop and the delivery.                *)

\* Approval, cycle and permits commit together, and only if the order is still
\* where the decision was taken.
CreatePermits ==
    /\ order = "PAID_REVIEW_REQUIRED"
    /\ order' = "QUEUED" /\ cycle' = "QUEUED"
    /\ permit' = [p \in Permits |-> "issued"]
    /\ UNCHANGED <<completed, run, cost, books, review>>

\* The order is cancelled from wherever it is by now; a cycle that was published
\* keeps its status.
StopOrder ==
    /\ order' = "CANCELLED"
    /\ cycle' = IF cycle \in {"QUEUED", "RUNNING", "QC_REQUIRED"} THEN "STOPPED"
                ELSE cycle
    /\ UNCHANGED <<completed, permit, run, cost, books, review>>

Deliver ==
    /\ order = "READY" /\ latest.decision = "approved"
    /\ order' = "DELIVERED"
    /\ UNCHANGED <<cycle, completed, permit, run, cost, books, review>>

-----------------------------------------------------------------------------
(* The "measure" scope of the spend ledger.                                 *)

\* A permit that has a reservation rides on it, even on a settled one; a new
\* one must fit under the cap.
CanReserve(p) ==
    \/ ledger[p] \in {"RESERVED", "SETTLED"}
    \/ /\ ledger[p] = "NONE"
       /\ Committed(ledger, [k \in Permits |-> Estimate], charged) + Estimate
            <= SpendCap

Reserve(p) ==
    /\ CanReserve(p)
    /\ ledger' = [ledger EXCEPT ![p] = IF @ = "NONE" THEN "RESERVED" ELSE @]
    /\ UNCHANGED <<measured, charged, review>>

\* A repeated settlement finds the first one and adds nothing.
Settle(p, amount) ==
    /\ ledger[p] \in {"RESERVED", "SETTLED"}
    /\ ledger' = [ledger EXCEPT ![p] = "SETTLED"]
    /\ charged' = [charged EXCEPT ![p] = IF ledger[p] = "RESERVED" THEN amount ELSE @]
    /\ UNCHANGED <<measured, review>>

-----------------------------------------------------------------------------
(* runs.claim and runs.complete.                                            *)

\* The cycle is read without a lock and neither its status nor the permit's
\* expiry decides the claim.
ClaimRun(p) ==
    /\ permit[p] = "issued"
    /\ permit' = [permit EXCEPT ![p] = "consumed"]
    /\ run' = [run EXCEPT ![p] = "RUNNING"]
    /\ UNCHANGED <<order, cycle, completed, cost, books, review>>

\* Bugs to catch: a late run moves a cycle that was stopped or published; the
\* counter is compared before it is increased.
CycleAfterReviving(p, outcome) ==
    IF completed + 1 >= Cardinality(Permits) THEN "QC_REQUIRED" ELSE "RUNNING"
CycleAfterLate(p, outcome) ==
    IF cycle \in {"QC_REQUIRED", "READY", "STOPPED"} THEN cycle
    ELSE IF completed >= Cardinality(Permits) THEN "QC_REQUIRED" ELSE "RUNNING"

\* Terminal and post-run states are kept, a Perplexity run whose request the
\* provider rejects stops the cycle, and the last run hands it to QC.
CycleAfter(p, outcome) ==
    IF cycle \in {"QC_REQUIRED", "READY", "STOPPED"} THEN cycle
    ELSE IF p \in Perplexity /\ outcome.status # "SUCCEEDED" /\ outcome.rejected
         THEN "STOPPED"
    ELSE IF completed + 1 >= Cardinality(Permits) THEN "QC_REQUIRED"
    ELSE "RUNNING"

OrderAfter(status) ==
    CASE order = "QUEUED" /\ status = "QC_REQUIRED" -> "QC_REQUIRED"
      [] order = "QUEUED" /\ status = "STOPPED" /\ cycle # "STOPPED" -> "CANCELLED"
      [] OTHER -> order

\* A bug to catch: a finished run is completed again.
CompleteRunAgain(p, outcome) ==
    /\ run' = [run EXCEPT ![p] = outcome.status]
    /\ cost' = [cost EXCEPT ![p] = outcome.cost]
    /\ completed' = completed + 1
    /\ cycle' = CycleAfter(p, outcome)
    /\ order' = OrderAfter(CycleAfter(p, outcome))
    /\ UNCHANGED <<permit, books, review>>

\* A run that is finished already is left alone.
CompleteRun(p, outcome) ==
    IF run[p] \in Finished THEN UNCHANGED store
    ELSE /\ run' = [run EXCEPT ![p] = outcome.status]
         /\ cost' = [cost EXCEPT ![p] = outcome.cost]
         /\ completed' = completed + 1
         /\ cycle' = CycleAfter(p, outcome)
         /\ order' = OrderAfter(CycleAfter(p, outcome))
         /\ UNCHANGED <<permit, books, review>>

-----------------------------------------------------------------------------
(* qcRecords.create.  A record carries the time its transaction began, and  *)
(* the latest record is the one with the latest such time.                  *)

Recorded(decision, created) ==
    latest' = IF created > latest.created
              THEN [decision |-> decision, created |-> created] ELSE latest

\* A bug to catch: a cycle whose runs all failed is published.
ApprovableEmpty ==
    /\ order \in {"QC_REQUIRED", "READY"}
    /\ cycle # "NONE" /\ completed >= Cardinality(Permits)

Approvable ==
    /\ order \in {"QC_REQUIRED", "READY"}
    /\ cycle # "NONE" /\ completed >= Cardinality(Permits)
    /\ cycle # "STOPPED" => \E p \in Permits : run[p] = "SUCCEEDED"

ApproveQc(created) ==
    /\ Approvable
    /\ Recorded("approved", created)
    /\ cycle' = IF cycle = "QC_REQUIRED" THEN "READY" ELSE cycle
    /\ order' = "READY"
    /\ UNCHANGED <<completed, permit, run, cost, books, began>>

\* A rejection closes an order in review; repeated on the order it closed it
\* writes nothing, and on any other order it is only recorded.
RejectQc(created) ==
    /\ UNCHANGED <<completed, permit, run, cost, books, began>>
    /\ \/ /\ order = "CANCELLED" /\ latest.decision = "rejected"
          /\ UNCHANGED <<order, cycle, latest>>
       \/ /\ order = "QC_REQUIRED"
          /\ Recorded("rejected", created)
          /\ order' = "CANCELLED"
          /\ cycle' = IF cycle = "QC_REQUIRED" THEN "STOPPED" ELSE cycle
       \/ /\ order # "QC_REQUIRED"
          /\ ~(order = "CANCELLED" /\ latest.decision = "rejected")
          /\ Recorded("rejected", created)
          /\ UNCHANGED <<order, cycle>>
=============================================================================
