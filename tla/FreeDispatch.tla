---------------------------- MODULE FreeDispatch ----------------------------
(***************************************************************************)
(* A plan request made free by a pilot seat starts its own measurement.    *)
(* Every submission of the form runs submitSelenaOrderRequest: it takes    *)
(* the dispatch lease, which is the status of the request itself, one of   *)
(* the day's slots, drafts the order, approves and enqueues it, reads back *)
(* what became of it and writes the status the operator's inbox shows.     *)
(* Meanwhile the order moves on as in OrderLife, and another submission of *)
(* the same form may be anywhere in the same code.                         *)
(***************************************************************************)
EXTENDS Naturals, FiniteSets

CONSTANTS
    Requests,       \* free requests, one per workspace and pilot code
    Project,        \* the project each is for
    Submissions,    \* handlers that may run at the same time
    MaxPerDay, MaxPerProjectPerDay,
    MaxDays,        \* bound: days that pass
    Disturbances,   \* subset of {"CRASH", "DATABASE", "SLOW", "FLAG"}
    NoRequest

ASSUME CapsAssumption == MaxPerDay \in Nat /\ MaxPerProjectPerDay \in Nat
ASSUME MaxDaysAssumption == MaxDays \in Nat \ {0}

VARIABLES
    request,        \* sv_order_requests.status
    stale,          \* its updated_at is older than the lease
    slot,           \* the UTC day of its row in sv_free_auto_dispatch_claims
    order,          \* status of the order keyed auto-request:<id>
    approved,       \* ORDER_APPROVED is audited under the request's key
    runs,           \* its jobs were sent, and RUNS_ENQUEUED audited
    today,
    enabled,        \* SELENA_FREE_AUTO_DISPATCH_ENABLED
    spc, cur,       \* a submission's step and its request
    launch          \* what it will report

records == <<request, stale, slot, order, approved, runs, today, enabled>>
handlers == <<spc, cur, launch>>
vars == <<records, handlers>>

RequestStatus == {"NONE", "NEW", "AUTO_DISPATCHING", "AUTO_QUEUED",
                  "AUTO_AWAITING_OPERATOR", "AUTO_FAILED", "QC_REJECTED"}
OrderStatus == {"NONE", "PAID_REVIEW_REQUIRED", "QUEUED", "QC_REQUIRED", "READY",
                "DELIVERED", "CANCELLED"}
Launch == {"NONE", "NOT_STARTED", "STARTING", "AWAITING_OPERATOR", "QUEUED",
           "STOPPED"}
Step == {"idle", "before", "lease", "other", "look", "claim", "draft", "approve",
         "enqueue", "readback", "release", "settle"}

\* Bugs to catch: an order status that the launch does not know; a queued order
\* counts as started although no job was sent.
LaunchUnknown(status, runsQueued) ==
    CASE status = "NONE" -> "NOT_STARTED"
      [] status = "PAID_REVIEW_REQUIRED" -> "AWAITING_OPERATOR"
      [] status = "CANCELLED" -> "STOPPED"
      [] OTHER -> status
LaunchHopeful(status, runsQueued) ==
    CASE status = "NONE" -> "NOT_STARTED"
      [] status = "PAID_REVIEW_REQUIRED" -> "AWAITING_OPERATOR"
      [] status = "CANCELLED" -> "STOPPED"
      [] OTHER -> "QUEUED"

\* freeRequestLaunch; running, in review and ready are told to the inbox alike.
LaunchOf(status, runsQueued) ==
    CASE status = "NONE" -> "NOT_STARTED"
      [] status = "PAID_REVIEW_REQUIRED" -> "AWAITING_OPERATOR"
      [] status = "QUEUED" -> IF runsQueued THEN "QUEUED" ELSE "AWAITING_OPERATOR"
      [] status = "CANCELLED" -> "STOPPED"
      [] OTHER -> "QUEUED"

StatusFor(state) ==
    CASE state = "NOT_STARTED" -> "AUTO_FAILED"
      [] state = "AWAITING_OPERATOR" -> "AUTO_AWAITING_OPERATOR"
      [] OTHER -> "AUTO_QUEUED"

Init ==
    /\ request = [r \in Requests |-> "NONE"]
    /\ stale = [r \in Requests |-> FALSE]
    /\ slot = [r \in Requests |-> 0]
    /\ order = [r \in Requests |-> "NONE"]
    /\ approved = [r \in Requests |-> FALSE]
    /\ runs = [r \in Requests |-> "NONE"]
    /\ today = 1
    /\ enabled = TRUE
    /\ spc = [s \in Submissions |-> "idle"]
    /\ cur = [s \in Submissions |-> NoRequest]
    /\ launch = [s \in Submissions |-> "NONE"]

-----------------------------------------------------------------------------
(* A submission.                                                            *)

Goto(s, step) ==
    /\ spc' = [spc EXCEPT ![s] = step]
    /\ UNCHANGED cur

Answered(s) ==
    /\ spc' = [spc EXCEPT ![s] = "idle"]
    /\ cur' = [cur EXCEPT ![s] = NoRequest]
    /\ launch' = [launch EXCEPT ![s] = "NONE"]

\* A launch that is starting or stopped is reported and nothing is written.
Report(s, state) ==
    IF state \in {"STARTING", "STOPPED"} THEN Answered(s)
    ELSE launch' = [launch EXCEPT ![s] = state] /\ Goto(s, "settle")

\* The seat and the lead are saved together; a later submission of the same code
\* finds the same request.
Submit(s, r) ==
    /\ spc[s] = "idle"
    /\ spc' = [spc EXCEPT ![s] = "before"]
    /\ cur' = [cur EXCEPT ![s] = r]
    /\ request' = [request EXCEPT ![r] = IF @ = "NONE" THEN "NEW" ELSE @]
    /\ UNCHANGED <<stale, slot, order, approved, runs, today, enabled, launch>>

\* Decided before the order is looked up.
DispatchDisabled(s) ==
    /\ spc[s] = "before" /\ ~enabled
    /\ Report(s, "NOT_STARTED")
    /\ UNCHANGED records

LookBefore(s) ==
    /\ spc[s] = "before" /\ enabled
    /\ IF order[cur[s]] = "CANCELLED" THEN Answered(s)
       ELSE Goto(s, "lease") /\ UNCHANGED launch
    /\ UNCHANGED records

LeaseIgnored(r) == request[r] # "NONE"  \* a bug to catch
LeaseFree(r) == request[r] # "AUTO_DISPATCHING" \/ stale[r]

TakeDispatchLease(s) ==
    /\ spc[s] = "lease" /\ LeaseFree(cur[s])
    /\ request' = [request EXCEPT ![cur[s]] = "AUTO_DISPATCHING"]
    /\ stale' = [stale EXCEPT ![cur[s]] = FALSE]
    /\ Goto(s, "look")
    /\ UNCHANGED <<slot, order, approved, runs, today, enabled, launch>>

LeaseTaken(s) ==
    /\ spc[s] = "lease" /\ ~LeaseFree(cur[s])
    /\ Goto(s, "other")
    /\ UNCHANGED <<records, launch>>

ReadOther(s) ==
    /\ spc[s] = "other"
    /\ Report(s, IF order[cur[s]] = "NONE" THEN "STARTING"
                 ELSE LaunchOf(order[cur[s]], runs[cur[s]] = "AUDITED"))
    /\ UNCHANGED records

\* An order found here is resumed, and only from where it waits.
LookForOrder(s) ==
    /\ spc[s] = "look"
    /\ Goto(s, CASE order[cur[s]] = "NONE" -> "claim"
                 [] order[cur[s]] = "PAID_REVIEW_REQUIRED" -> "approve"
                 [] order[cur[s]] = "QUEUED" /\ runs[cur[s]] # "AUDITED" -> "enqueue"
                 [] OTHER -> "readback")
    /\ UNCHANGED <<records, launch>>

-----------------------------------------------------------------------------
(* The slot: sv_claim_free_auto_dispatch and sv_release_free_auto_dispatch. *)

TakenToday == {q \in Requests : slot[q] = today}

CanClaim(r) ==
    \/ slot[r] # 0
    \/ /\ Cardinality(TakenToday) < MaxPerDay
       /\ Cardinality({q \in TakenToday : Project[q] = Project[r]})
            < MaxPerProjectPerDay

ClaimSlot(s) ==
    /\ spc[s] = "claim" /\ CanClaim(cur[s])
    /\ slot' = [slot EXCEPT ![cur[s]] = IF @ = 0 THEN today ELSE @]
    /\ Goto(s, "draft")
    /\ UNCHANGED <<request, stale, order, approved, runs, today, enabled, launch>>

\* DAILY_CAP, PROJECT_CAP, or CLAIM_UNAVAILABLE.
ClaimRefused(s) ==
    /\ spc[s] = "claim"
    /\ ~CanClaim(cur[s]) \/ "DATABASE" \in Disturbances
    /\ Report(s, "NOT_STARTED")
    /\ UNCHANGED records

-----------------------------------------------------------------------------
(* startSelenaMeasurement and resumeSelenaMeasurement.                      *)

\* Under the advisory lock of the key an existing draft is returned.
DraftOrder(s) ==
    /\ spc[s] = "draft"
    /\ order' = [order EXCEPT ![cur[s]] = IF @ = "NONE" THEN "PAID_REVIEW_REQUIRED"
                                          ELSE @]
    /\ Goto(s, "approve")
    /\ UNCHANGED <<request, stale, slot, approved, runs, today, enabled, launch>>

Enqueued(r) ==
    \E told \in {"SENT", "AUDITED"} :
        runs' = [runs EXCEPT ![r] = IF @ = "AUDITED" THEN @ ELSE told]

\* Either the approval is already audited under this key, or it is taken now.
ApproveOrder(s) ==
    /\ spc[s] = "approve"
    /\ \/ /\ approved[cur[s]]
          /\ UNCHANGED <<order, approved>>
       \/ /\ ~approved[cur[s]] /\ order[cur[s]] = "PAID_REVIEW_REQUIRED"
          /\ order' = [order EXCEPT ![cur[s]] = "QUEUED"]
          /\ approved' = [approved EXCEPT ![cur[s]] = TRUE]
    /\ Goto(s, "enqueue")
    /\ UNCHANGED <<request, stale, slot, runs, today, enabled, launch>>

\* Replayed, refused by a worker that is switched off, sent but not audited, or both.
EnqueueRuns(s) ==
    /\ spc[s] = "enqueue"
    /\ runs[cur[s]] = "AUDITED" \/ order[cur[s]] = "QUEUED"
    /\ Enqueued(cur[s]) \/ UNCHANGED runs
    /\ Goto(s, "readback")
    /\ UNCHANGED <<request, stale, slot, order, approved, today, enabled, launch>>

\* Any of the three throws (the profile has no questions, the preflight blocks,
\* the order has moved on, a query fails): the failure is caught.
StartFails(s) ==
    /\ spc[s] \in {"draft", "approve", "enqueue"}
    /\ Goto(s, "readback")
    /\ UNCHANGED <<records, launch>>

\* A bug to catch: any failure before the queue gives the slot back.
ReadBackReleasing(s) ==
    /\ spc[s] = "readback"
    /\ IF order[cur[s]] \in {"NONE", "PAID_REVIEW_REQUIRED"}
       THEN launch' = [launch EXCEPT ![s] = "NOT_STARTED"] /\ Goto(s, "release")
       ELSE Report(s, LaunchOf(order[cur[s]], runs[cur[s]] = "AUDITED"))
    /\ UNCHANGED records

ReadBack(s) ==
    /\ spc[s] = "readback"
    /\ IF order[cur[s]] = "NONE"
       THEN launch' = [launch EXCEPT ![s] = "NOT_STARTED"] /\ Goto(s, "release")
       ELSE Report(s, LaunchOf(order[cur[s]], runs[cur[s]] = "AUDITED"))
    /\ UNCHANGED records

\* A failed release is ignored.
ReleaseSlot(s) ==
    /\ spc[s] = "release"
    /\ \/ slot' = [slot EXCEPT ![cur[s]] = 0]
       \/ "DATABASE" \in Disturbances /\ UNCHANGED slot
    /\ Goto(s, "settle")
    /\ UNCHANGED <<request, stale, order, approved, runs, today, enabled, launch>>

SettleRequestStatus(s) ==
    /\ spc[s] = "settle"
    /\ request' = [request EXCEPT ![cur[s]] = StatusFor(launch[s])]
    /\ stale' = [stale EXCEPT ![cur[s]] = FALSE]
    /\ Answered(s)
    /\ UNCHANGED <<slot, order, approved, runs, today, enabled>>

\* The process dies, or a query outside the try throws: nobody settles.
Abandon(s) ==
    /\ Disturbances \cap {"CRASH", "DATABASE"} # {}
    /\ spc[s] # "idle"
    /\ Answered(s)
    /\ UNCHANGED records

Dispatch(s) ==
    \/ DispatchDisabled(s) \/ LookBefore(s)
    \/ TakeDispatchLease(s) \/ LeaseTaken(s) \/ ReadOther(s) \/ LookForOrder(s)
    \/ ClaimSlot(s) \/ ClaimRefused(s)
    \/ DraftOrder(s) \/ ApproveOrder(s) \/ EnqueueRuns(s) \/ StartFails(s)
    \/ ReadBack(s) \/ ReleaseSlot(s) \/ SettleRequestStatus(s)

-----------------------------------------------------------------------------
(* Around it.                                                               *)

Dispatching == {"look", "claim", "draft", "approve", "enqueue", "readback",
                "release"}

\* 120 seconds.  Without SLOW no living handler is overtaken by its own lease.
LeaseExpires(r) ==
    /\ request[r] = "AUTO_DISPATCHING" /\ ~stale[r]
    /\ "SLOW" \in Disturbances
       \/ \A s \in Submissions : cur[s] = r => spc[s] \notin Dispatching \cup {"settle"}
    /\ stale' = [stale EXCEPT ![r] = TRUE]
    /\ UNCHANGED <<request, slot, order, approved, runs, today, enabled, handlers>>

NextDay ==
    /\ today < MaxDays /\ today' = today + 1
    /\ UNCHANGED <<request, stale, slot, order, approved, runs, enabled, handlers>>

\* The server is started again with the flag off.  Bound: it stays off.
SwitchOff ==
    /\ "FLAG" \in Disturbances
    /\ enabled /\ enabled' = FALSE
    /\ \A s \in Submissions : spc[s] = "idle"
    /\ UNCHANGED <<request, stale, slot, order, approved, runs, today, handlers>>

\* The operator approves an order himself or enqueues one that waits.
OperatorHelps(r) ==
    /\ \/ /\ order[r] = "PAID_REVIEW_REQUIRED"
          /\ order' = [order EXCEPT ![r] = "QUEUED"]
          /\ UNCHANGED runs
       \/ order[r] = "QUEUED" /\ Enqueued(r) /\ UNCHANGED order
    /\ UNCHANGED <<request, stale, slot, approved, today, enabled, handlers>>

\* The order is measured, published, delivered or cancelled.
OrderMoves(r) ==
    /\ \/ order[r] = "QUEUED" /\ runs[r] # "NONE"
          /\ order' = [order EXCEPT ![r] = "QC_REQUIRED"]
       \/ order[r] = "QC_REQUIRED" /\ order' = [order EXCEPT ![r] = "READY"]
       \/ order[r] = "READY" /\ order' = [order EXCEPT ![r] = "DELIVERED"]
       \/ order[r] \notin {"NONE", "CANCELLED"}
          /\ order' = [order EXCEPT ![r] = "CANCELLED"]
    /\ UNCHANGED <<request, stale, slot, approved, runs, today, enabled, handlers>>

\* qcRecords.create tells the request in the same transaction.
QcRejects(r) ==
    /\ order[r] = "QC_REQUIRED"
    /\ order' = [order EXCEPT ![r] = "CANCELLED"]
    /\ request' = [request EXCEPT ![r] = "QC_REJECTED"]
    /\ stale' = [stale EXCEPT ![r] = FALSE]
    /\ UNCHANGED <<slot, approved, runs, today, enabled, handlers>>

Next ==
    \/ \E s \in Submissions, r \in Requests : Submit(s, r)
    \/ \E s \in Submissions : Dispatch(s) \/ Abandon(s)
    \/ \E r \in Requests : LeaseExpires(r) \/ OperatorHelps(r) \/ OrderMoves(r)
                           \/ QcRejects(r)
    \/ NextDay \/ SwitchOff

Spec == Init /\ [][Next]_vars

-----------------------------------------------------------------------------
(* What it guarantees.                                                      *)

TypeOK ==
    /\ request \in [Requests -> RequestStatus] /\ stale \in [Requests -> BOOLEAN]
    /\ slot \in [Requests -> 0 .. MaxDays] /\ order \in [Requests -> OrderStatus]
    /\ approved \in [Requests -> BOOLEAN] /\ runs \in [Requests -> {"NONE", "SENT", "AUDITED"}]
    /\ today \in 1 .. MaxDays /\ enabled \in BOOLEAN
    /\ spc \in [Submissions -> Step]
    /\ cur \in [Submissions -> Requests \cup {NoRequest}]
    /\ launch \in [Submissions -> Launch]

\* Double clicks, two tabs and retries after a crash: as long as no handler
\* outlives its lease, one submission at a time takes a request as far as its
\* order.  A slot is given back on the strength of it.  Afterwards the lease may
\* be lost, for QC and a submission that only read the order write the status too.
OneDispatcher ==
    \A s, t \in Submissions :
        /\ s # t /\ cur[s] # NoRequest
        /\ spc[s] \in Dispatching /\ spc[t] \in Dispatching
        /\ order[cur[s]] = "NONE"
        => cur[s] # cur[t]

\* An order that was started for free keeps a slot, so the free orders of all
\* days together stay within the caps of those days, although slots are given
\* back, kept by crashed handlers and taken again on another day.
FreeOrdersHoldSlots ==
    /\ \A r \in Requests : order[r] # "NONE" => slot[r] # 0
    /\ \A day \in 1 .. MaxDays :
          LET taken == {r \in Requests : slot[r] = day}
          IN /\ Cardinality(taken) <= MaxPerDay
             /\ \A r \in taken : Cardinality({q \in taken : Project[q] = Project[r]})
                                   <= MaxPerProjectPerDay

\* What the inbox shows may be old, but is never wrong about the order: a request
\* that failed has none, one that waits has an order, and one that is queued has
\* an order whose runs reached the queue or that went further.  With the dispatch
\* switched off a resubmission says that it failed, whatever became of the order.
InboxTellsTruth ==
    \A r \in Requests :
        CASE request[r] \in {"NONE", "NEW"} -> order[r] = "NONE"
          [] request[r] = "AUTO_FAILED" -> enabled => order[r] = "NONE"
          [] request[r] = "AUTO_AWAITING_OPERATOR" -> order[r] # "NONE"
          [] request[r] = "AUTO_QUEUED" ->
               /\ order[r] \notin {"NONE", "PAID_REVIEW_REQUIRED"}
               /\ order[r] = "QUEUED" => runs[r] = "AUDITED"
          [] request[r] = "QC_REJECTED" -> order[r] = "CANCELLED"
          [] OTHER -> TRUE

\* selena-order-request-submit.ts: a stopped order's request carries why it
\* stopped, a QC rejection or the operator's stop, and a resubmitted form must
\* not overwrite that.
RejectionIsKept ==
    [][\A r \in Requests : request[r] = "QC_REJECTED" => request'[r] = "QC_REJECTED"]_vars
=============================================================================
