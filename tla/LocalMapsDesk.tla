--------------------------- MODULE LocalMapsDesk ----------------------------
(***************************************************************************)
(* What people do around the Local Maps runtime: a canary is reviewed, an  *)
(* accepted one makes a pilot, the pilot is rescheduled or approved, and   *)
(* when the runtime has measured it a report is drafted, decided on,       *)
(* published, delivered and read.  The owner's tasks, the operator's       *)
(* routes and the customer's acknowledgement are requests under an         *)
(* idempotency key: a handler runs one in a transaction that either finds  *)
(* the key's receipt or writes the effect and the receipt together.        *)
(*                                                                         *)
(* A transaction waits for the advisory lock of its key and then for the   *)
(* row of its cycle, which it keeps to the end; so what it reads under     *)
(* them it reads when it commits.  Two things it has from its beginning:   *)
(* the created_at of its rows, and the owner's look for an earlier         *)
(* acceptance.  Any transaction may be lost, and since an acknowledgement  *)
(* may be lost as well, a request may be repeated at any time.             *)
(***************************************************************************)
EXTENDS Naturals, FiniteSets, Sequences

CONSTANTS
    Requests,       \* what may be asked, each under its key
    Handlers,       \* transactions that may be open at the same time
    NoRequest

\* A request names a pilot (0 is the canary), a decision, and the number of a
\* report version or of a delivery, as far as its operation has one.
Request == [op : {"canary-review", "pilot-reschedule", "pilot-approve",
                  "report-create", "qc", "publish", "deliver", "acknowledge"},
            key : STRING, pilot : Nat,
            decision : {"none", "ACCEPTED", "REJECTED", "ACCEPT_PARTIAL",
                        "APPROVED"},
            item : Nat]

\* A decision on a report is one of the three the desk knows.
ASSUME RequestsAssumption ==
    \A r \in Requests :
        /\ r \in Request
        /\ r.op = "qc" => r.decision \in {"ACCEPT_PARTIAL", "APPROVED", "REJECTED"}
ASSUME NoRequestAssumption == NoRequest \notin Requests

VARIABLES
    reviews,        \* decisions of the canary's reviews
    pilots,         \* pilots in the order they were made
    versions,       \* report versions in the order they were made
    deliveries,     \* deliveries in the order they were made
    receipts,       \* requests whose effect is committed
    doing,          \* the request of a handler's transaction
    ahead,          \* the handlers whose open transactions began before this one's
    saw,            \* the owner's look found an accepted review
    overtaken       \* versions with a decision dated after a transaction

tables == <<reviews, pilots, versions, deliveries, receipts>>
open == <<doing, ahead, saw, overtaken>>
vars == <<tables, open>>

PilotStatus == {"CREATED", "QUEUED", "PARTIAL_FAILURE", "QC_REQUIRED", "READY",
                "COMPLETED", "FAILED", "BUDGET_BLOCKED", "STOPPED"}

\* The lock of a pilot is the canary's own or one issued by a reschedule; its
\* points are all measured, partly invalid, or have holes (cancelled, blocked).
NewPilot(lock) == [status |-> "CREATED", lock |-> lock, points |-> "none"]
NewVersion(p) == [pilot |-> p, status |-> "DRAFT", latest |-> "none", decided |-> 0]

Init ==
    /\ reviews = <<>> /\ pilots = <<>> /\ versions = <<>> /\ deliveries = <<>>
    /\ receipts = {}
    /\ doing = [h \in Handlers |-> NoRequest]
    /\ ahead = [h \in Handlers |-> {}]
    /\ saw = [h \in Handlers |-> FALSE]
    /\ overtaken = [h \in Handlers |-> {}]

-----------------------------------------------------------------------------
(* Requests and their receipts.                                             *)

Accepted == \E i \in DOMAIN reviews : reviews[i] = "ACCEPTED"

Begin(h, r) ==
    /\ doing[h] = NoRequest
    /\ doing' = [doing EXCEPT ![h] = r]
    /\ ahead' = [ahead EXCEPT ![h] = {g \in Handlers : doing[g] # NoRequest}]
    /\ saw' = [saw EXCEPT ![h] = Accepted]
    /\ UNCHANGED <<tables, overtaken>>

Finish(h) ==
    /\ doing' = [doing EXCEPT ![h] = NoRequest]
    /\ ahead' = [g \in Handlers |-> IF g = h THEN {} ELSE ahead[g] \ {h}]
    /\ saw' = [saw EXCEPT ![h] = FALSE]

Close(h) ==
    /\ Finish(h)
    /\ overtaken' = [overtaken EXCEPT ![h] = {}]

\* No receipt under the request's key; with one the answer is replayed, or
\* refused if the body differs, and nothing is done.
Fresh(r) == \A q \in receipts :
    <<q.op, q.pilot, q.key>> # <<r.op, r.pilot, r.key>>

\* A bug to catch: the receipt is written after the effect has been committed.
ReceiptedLater(h, op) ==
    /\ doing[h] # NoRequest /\ doing[h].op = op
    /\ Fresh(doing[h])
    /\ receipts' \in {receipts, receipts \cup {doing[h]}}

\* Effect and receipt commit together.
Receipted(h, op) ==
    /\ doing[h] # NoRequest /\ doing[h].op = op
    /\ Fresh(doing[h])
    /\ receipts' = receipts \cup {doing[h]}

\* A replay, a conflict, a refusal or a lost transaction writes nothing.
Withdrawn(h) ==
    /\ doing[h] # NoRequest
    /\ Close(h) /\ UNCHANGED tables

-----------------------------------------------------------------------------
(* The canary's review and the pilot made of it.                            *)

\* The owner's task and the operator's route record a decision each under a key
\* of its own, the owner only if its look found no acceptance.  A unique index
\* allows one acceptance, and with it comes the pilot.
ReviewCanary(h) ==
    /\ Receipted(h, "canary-review")
    /\ doing[h].key = "owner" => ~saw[h]
    /\ reviews' = Append(reviews, doing[h].decision)
    /\ \/ doing[h].decision = "REJECTED" /\ UNCHANGED pilots
       \/ /\ doing[h].decision = "ACCEPTED" /\ ~Accepted
          /\ pilots' = Append(pilots, NewPilot("canary"))
    /\ Close(h) /\ UNCHANGED <<versions, deliveries>>

Pilot(r) == pilots[r.pilot]
HasPilot(r) == r.pilot \in DOMAIN pilots
Moved(r, status) == [pilots EXCEPT ![r.pilot].status = status]

\* A bug to catch: a pilot that is being measured is rescheduled.
RescheduleQueued(h) ==
    /\ Receipted(h, "pilot-reschedule")
    /\ HasPilot(doing[h]) /\ Pilot(doing[h]).status \in {"CREATED", "QUEUED"}
    /\ pilots' = Append(Moved(doing[h], "STOPPED"), NewPilot("new"))
    /\ Close(h) /\ UNCHANGED <<reviews, versions, deliveries>>

\* Only a pilot without observations is replaced.
ReschedulePilot(h) ==
    /\ Receipted(h, "pilot-reschedule")
    /\ HasPilot(doing[h]) /\ Pilot(doing[h]).status = "CREATED"
    /\ pilots' = Append(Moved(doing[h], "STOPPED"), NewPilot("new"))
    /\ Close(h) /\ UNCHANGED <<reviews, versions, deliveries>>

\* A bug to catch: the approval forgets to hand the pilot to the runtime.
ApproveOnly(h) ==
    /\ Receipted(h, "pilot-approve")
    /\ HasPilot(doing[h])
    /\ Pilot(doing[h]).status = "CREATED" /\ Pilot(doing[h]).lock = "canary"
    /\ pilots' = Moved(doing[h], "APPROVED")
    /\ Close(h) /\ UNCHANGED <<reviews, versions, deliveries>>

\* The owner approves the pilot of the canary's own lock, never a rescheduled one.
ApprovePilot(h) ==
    /\ Receipted(h, "pilot-approve")
    /\ HasPilot(doing[h])
    /\ Pilot(doing[h]).status = "CREATED" /\ Pilot(doing[h]).lock = "canary"
    /\ pilots' = Moved(doing[h], "QUEUED")
    /\ Close(h) /\ UNCHANGED <<reviews, versions, deliveries>>

\* LocalMapsRuntime measures an approved pilot and leaves its verdict, or stops it.
Verdict == {<<"QC_REQUIRED", "all">>, <<"QC_REQUIRED", "holes">>,
            <<"PARTIAL_FAILURE", "some">>, <<"PARTIAL_FAILURE", "holes">>,
            <<"BUDGET_BLOCKED", "holes">>, <<"STOPPED", "holes">>}

Measure(p) ==
    /\ pilots[p].status = "QUEUED"
    /\ \E v \in Verdict :
           pilots' = [pilots EXCEPT ![p].status = v[1], ![p].points = v[2]]
    /\ UNCHANGED <<reviews, versions, deliveries, receipts, open>>

-----------------------------------------------------------------------------
(* The report of a measured pilot.                                          *)

Version(r) == versions[r.item]
HasVersion(r) == r.item \in DOMAIN versions /\ Version(r).pilot = r.pilot

CreateReport(h) ==
    /\ Receipted(h, "report-create")
    /\ HasPilot(doing[h])
    /\ Pilot(doing[h]).status \in {"PARTIAL_FAILURE", "QC_REQUIRED"}
    /\ Pilot(doing[h]).points \in {"all", "some"}
    /\ versions' = Append(versions, NewVersion(doing[h].pilot))
    /\ Close(h) /\ UNCHANGED <<reviews, pilots, deliveries>>

\* What a decision may follow, and where it takes the cycle: a rejection fails
\* it from wherever it is.
Decides(status, decision) ==
    CASE decision = "ACCEPT_PARTIAL" -> status = "PARTIAL_FAILURE"
      [] decision = "APPROVED" -> status = "QC_REQUIRED"
      [] decision = "REJECTED" -> TRUE
DecidedStatus(status, decision) ==
    CASE decision = "ACCEPT_PARTIAL" -> "QC_REQUIRED"
      [] decision = "APPROVED" -> status
      [] decision = "REJECTED" -> "FAILED"

\* Decisions are ordered by created_at, the beginning of their transactions.
DecideQc(h) ==
    LET r == doing[h] IN
    /\ Receipted(h, "qc")
    /\ HasVersion(r) /\ Version(r).status = "DRAFT"
    /\ Decides(Pilot(r).status, r.decision)
    /\ versions' = [versions EXCEPT
                      ![r.item].latest = IF r.item \in overtaken[h] THEN @
                                         ELSE r.decision,
                      ![r.item].decided = @ + 1]
    /\ pilots' = Moved(r, DecidedStatus(Pilot(r).status, r.decision))
    /\ overtaken' = [g \in Handlers |->
                       CASE g = h -> {}
                         [] g \in ahead[h] -> overtaken[g] \cup {r.item}
                         [] OTHER -> overtaken[g]]
    /\ Finish(h) /\ UNCHANGED <<reviews, deliveries>>

\* A bug to catch: the latest decision is all that is asked for.
PublishApproved(h) ==
    LET r == doing[h] IN
    /\ Receipted(h, "publish")
    /\ HasVersion(r) /\ Version(r).status = "DRAFT" /\ Version(r).latest = "APPROVED"
    /\ versions' = [versions EXCEPT ![r.item].status = "PUBLISHED"]
    /\ pilots' = Moved(r, "READY")
    /\ Close(h) /\ UNCHANGED <<reviews, deliveries>>

Publish(h) ==
    LET r == doing[h] IN
    /\ Receipted(h, "publish")
    /\ HasVersion(r) /\ Version(r).status = "DRAFT" /\ Version(r).latest = "APPROVED"
    /\ Pilot(r).status = "QC_REQUIRED"
    /\ versions' = [versions EXCEPT ![r.item].status = "PUBLISHED"]
    /\ pilots' = Moved(r, "READY")
    /\ Close(h) /\ UNCHANGED <<reviews, deliveries>>

Deliver(h) ==
    LET r == doing[h] IN
    /\ Receipted(h, "deliver")
    /\ HasVersion(r) /\ Version(r).status = "PUBLISHED" /\ Pilot(r).status = "READY"
    /\ deliveries' = Append(deliveries, [version |-> r.item, status |-> "SENT"])
    /\ Close(h) /\ UNCHANGED <<reviews, pilots, versions>>

\* A bug to catch: an acknowledgement does not ask what became of the cycle.
AcknowledgeLate(h) ==
    LET r == doing[h] IN
    /\ Receipted(h, "acknowledge")
    /\ r.item \in DOMAIN deliveries
    /\ pilots' = IF deliveries[r.item].status = "SENT" THEN Moved(r, "COMPLETED")
                 ELSE pilots
    /\ deliveries' = [deliveries EXCEPT ![r.item].status = "ACKNOWLEDGED"]
    /\ Close(h) /\ UNCHANGED <<reviews, versions>>

\* The recipient reads; reading again under another key changes nothing.
Acknowledge(h) ==
    LET r == doing[h] IN
    /\ Receipted(h, "acknowledge")
    /\ r.item \in DOMAIN deliveries
    /\ versions[deliveries[r.item].version].pilot = r.pilot
    /\ Pilot(r).status \in {"READY", "COMPLETED"}
    /\ pilots' = IF deliveries[r.item].status = "SENT" THEN Moved(r, "COMPLETED")
                 ELSE pilots
    /\ deliveries' = [deliveries EXCEPT ![r.item].status = "ACKNOWLEDGED"]
    /\ Close(h) /\ UNCHANGED <<reviews, versions>>

-----------------------------------------------------------------------------
Handle(h) ==
    \/ ReviewCanary(h) \/ ReschedulePilot(h) \/ ApprovePilot(h)
    \/ CreateReport(h) \/ DecideQc(h) \/ Publish(h) \/ Deliver(h) \/ Acknowledge(h)
    \/ Withdrawn(h)

Next ==
    \/ \E h \in Handlers, r \in Requests : Begin(h, r)
    \/ \E h \in Handlers : Handle(h)
    \/ \E p \in DOMAIN pilots : Measure(p)

Spec == Init /\ [][Next]_vars

-----------------------------------------------------------------------------
TypeOK ==
    /\ reviews \in Seq({"ACCEPTED", "REJECTED"})
    /\ pilots \in Seq([status : PilotStatus, lock : {"canary", "new"},
                       points : {"none", "all", "some", "holes"}])
    /\ versions \in Seq([pilot : DOMAIN pilots, status : {"DRAFT", "PUBLISHED"},
                         latest : {"none", "ACCEPT_PARTIAL", "APPROVED", "REJECTED"},
                         decided : Nat])
    /\ deliveries \in Seq([version : DOMAIN versions,
                           status : {"SENT", "ACKNOWLEDGED"}])
    /\ receipts \subseteq Requests
    /\ doing \in [Handlers -> Requests \cup {NoRequest}]
    /\ saw \in [Handlers -> BOOLEAN]
    /\ overtaken \in [Handlers -> SUBSET DOMAIN versions]
    /\ ahead \in [Handlers -> SUBSET {g \in Handlers : doing[g] # NoRequest}]

Done(op) == {r \in receipts : r.op = op}

\* However often a request is repeated, in parallel or after a lost answer, its
\* effect is there once: every review, pilot, version, decision and delivery has
\* the receipt of its own request, and every receipt has its row.
ReceiptsMatchRows ==
    /\ Len(reviews) = Cardinality(Done("canary-review"))
    /\ Len(pilots) = Cardinality(Done("pilot-reschedule"))
                     + Cardinality({r \in Done("canary-review") :
                                      r.decision = "ACCEPTED"})
    /\ Len(versions) = Cardinality(Done("report-create"))
    /\ Len(deliveries) = Cardinality(Done("deliver"))
    /\ \A v \in DOMAIN versions :
           versions[v].decided = Cardinality({r \in Done("qc") : r.item = v})

\* Whoever reviews, reschedules and approves at the same time, one canary has at
\* most one pilot that is not stopped, and a pilot somebody has approved is the
\* last one made: the slots it pays for are never bought again under another lock.
OneLivePilot ==
    /\ \A p, q \in DOMAIN pilots :
           pilots[p].status # "STOPPED" /\ pilots[q].status # "STOPPED" => p = q
    /\ \A r \in Done("pilot-approve") : r.pilot = Len(pilots)

Published(v) == versions[v].status = "PUBLISHED"

\* A customer sees one version, whose own approval is the latest word on it and
\* on which no rejection was ever committed, not even one dated before the
\* approval; all its points are terminal, and if some are invalid an operator
\* has accepted that.
PublishedWasApproved ==
    \A v \in DOMAIN versions : Published(v) =>
        /\ \A w \in DOMAIN versions : Published(w) => v = w
        /\ versions[v].latest = "APPROVED"
        /\ \A r \in Done("qc") : r.item = v => r.decision # "REJECTED"
        /\ pilots[versions[v].pilot].points \in {"all", "some"}
        /\ pilots[versions[v].pilot].points = "some" =>
               \E r \in Done("qc") : r.decision = "ACCEPT_PARTIAL"

\* READY, COMPLETED and FAILED say what happened at the desk and are left only as
\* told: a failed cycle stays failed whoever still reads or publishes, a completed
\* one was read, a ready one waits for its reader, and only the rejection of
\* another draft takes either back.
StatusTellsTheDesk ==
    [][\A p \in DOMAIN pilots :
         /\ pilots[p].status = "FAILED" => pilots'[p].status = "FAILED"
         /\ pilots[p].status = "COMPLETED" => pilots'[p].status \in {"COMPLETED", "FAILED"}
         /\ pilots'[p].status \in {"READY", "COMPLETED"} =>
              \E v \in DOMAIN versions' :
                  /\ versions'[v].pilot = p /\ versions'[v].status = "PUBLISHED"
                  /\ pilots'[p].status = "COMPLETED" <=>
                       \E i \in DOMAIN deliveries' :
                           /\ deliveries'[i].version = v
                           /\ deliveries'[i].status = "ACKNOWLEDGED"]_vars
=============================================================================
