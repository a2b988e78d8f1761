------------------------- MODULE LocalAttemptStore -------------------------
(***************************************************************************)
(* The transactions on the attempts of a cycle: createLocalMapsLiveAttempt *)
(* Store, the retry coordinator it calls, materializeLocalPilotIn-         *)
(* Transaction and the triggers of migration 0075 that make some of them   *)
(* fail.  A transaction builds its new tables from the old ones by the     *)
(* operators of the first part, in the order of its statements, and writes *)
(* them at once; one that fails writes nothing.                            *)
(***************************************************************************)
EXTENDS LocalMapsState

\* The tables a transaction rewrites, as one value.
Tables == [obs |-> obs, attempt |-> attempt, budget |-> budget,
           ledger |-> ledger, outbox |-> outbox, lease |-> lease]

WriteTables(t) ==
    /\ obs' = t.obs
    /\ attempt' = t.attempt
    /\ budget' = t.budget
    /\ ledger' = t.ledger
    /\ outbox' = t.outbox
    /\ lease' = t.lease

\* A new attempt is inserted with its reservation and its outbox row.
Claimed(t, new) ==
    [t EXCEPT
       !.attempt = [a \in Attempts |-> IF a \in new THEN "CLAIMED" ELSE @[a]],
       !.budget  = [a \in Attempts |-> IF a \in new THEN "RESERVED" ELSE @[a]],
       !.ledger  = [a \in Attempts |-> IF a \in new THEN "RESERVED" ELSE @[a]],
       !.outbox  = [a \in Attempts |-> IF a \in new THEN "PENDING" ELSE @[a]]]

\* cancelLocalPendingInTransaction: the claimed attempts are given back, and
\* every pending observation without a crossed attempt is cancelled with them.
NeverCrossed(t, p) == FALSE  \* a bug to catch
Crossed(t, p) ==
    \E a \in AttemptsOf(p) : t.attempt[a] \in {"SUBMITTED", "UNKNOWN_RECONCILIATION"}

\* A bug to catch: the update of the observations without its PENDING filter.
AllUncrossed(t) == {p \in Points : ~Crossed(t, p)}
Cancellable(t) == {p \in Points : t.obs[p] = "PENDING" /\ ~Crossed(t, p)}

\* A bug to catch: the slots are cancelled and their attempts are not.
SlotsCancelled(t) ==
    [t EXCEPT !.obs = [p \in Points |-> IF p \in Cancellable(t)
                                       THEN "CANCELLED" ELSE @[p]]]
Cancelled(t) ==
    LET untouched == {a \in Attempts : t.attempt[a] = "CLAIMED"}
    IN  [obs     |-> [p \in Points |-> IF p \in Cancellable(t)
                        THEN "CANCELLED" ELSE t.obs[p]],
         attempt |-> [a \in Attempts |-> IF a \in untouched
                        THEN "CANCELLED_NO_CALL" ELSE t.attempt[a]],
         budget  |-> [a \in Attempts |-> IF a \in untouched
                        THEN "RELEASED" ELSE t.budget[a]],
         ledger  |-> [a \in Attempts |-> IF a \in untouched
                        THEN "RELEASED" ELSE t.ledger[a]],
         outbox  |-> [a \in Attempts |-> IF a \in untouched
                        THEN "CANCELLED" ELSE t.outbox[a]],
         lease   |-> [a \in Attempts |-> IF a \in untouched
                        THEN NoHolder ELSE t.lease[a]]]

\* Updates of an observation are conditional on its being pending.
Observed(t, p, outcome) ==
    IF t.obs[p] = "PENDING" THEN [t EXCEPT !.obs[p] = outcome] ELSE t

\* A bug to catch: a cost nobody knows is given back like a cost of zero.
BudgetAfterZero(r) == IF r.cost = 0 THEN "RELEASED" ELSE "SPENT"

\* settleLocalMapsBudget and attemptDisposition.
BudgetAfter(r) ==
    IF r.event = "OUTCOME_UNKNOWN" THEN "RESERVED"
    ELSE IF r.cost = 0 THEN "RELEASED" ELSE "SPENT"
Incident(r) == r.cost > 1

\* A bug to catch: the last status for a failure that is retried.
StatusAfterLast(a, r) ==
    CASE r.event = "FOUND"           -> "SUCCEEDED"
      [] r.event = "OUTCOME_UNKNOWN" -> "UNKNOWN_RECONCILIATION"
      [] OTHER                       -> "TERMINAL_FAILURE"

MayRetry(a) == mode = "PILOT" /\ Index(a) < MaxAttempts
StatusAfter(a, r) ==
    CASE r.event = "FOUND"           -> "SUCCEEDED"
      [] r.event = "AUTH"            -> "TERMINAL_FAILURE"
      [] r.event = "OUTCOME_UNKNOWN" -> "UNKNOWN_RECONCILIATION"
      [] OTHER -> IF MayRetry(a) THEN "RETRYABLE_FAILURE" ELSE "TERMINAL_FAILURE"

\* What the answer makes of the observation when its slot is closed.  A canary's
\* finding is kept for review, never as a measurement.
OutcomeAfter(r) ==
    CASE r.event = "FOUND"           -> IF mode = "PILOT" THEN "VALID" ELSE "BLOCKED"
      [] r.event = "AUTH"            -> "BLOCKED"
      [] r.event = "OUTCOME_UNKNOWN" -> "UNKNOWN"
      [] OTHER                       -> "INVALID"

\* Only an actual cost settles the reservation in the ledger; the attempt's own
\* budget state follows any known cost.
Answered(t, a, r) ==
    [t EXCEPT !.attempt[a] = StatusAfter(a, r),
              !.budget[a]  = BudgetAfter(r),
              !.ledger[a]  = IF r.basis = "actual" THEN "SETTLED" ELSE @]

\* The recount at the end of a finalisation: the status the cycle gets.  A
\* closed cycle keeps its status, an unknown slot outweighs the others.
Some(t, outcomes) == \E p \in Points : t.obs[p] \in outcomes
KnownVerdict(t) ==
    IF Some(t, {"PENDING"}) THEN cycle
    ELSE IF mode = "CANARY" THEN "CANARY_REVIEW"
    ELSE IF Some(t, {"INVALID", "BLOCKED"}) THEN "PARTIAL_FAILURE"
    ELSE "QC_REQUIRED"
Verdict(t) ==
    IF Some(t, {"UNKNOWN"}) THEN "UNKNOWN_RECONCILIATION" ELSE KnownVerdict(t)
Recounted(t) == IF cycle \in ClosedStatus THEN cycle ELSE Verdict(t)

-----------------------------------------------------------------------------
untouchedByStore == <<jobs, dispatching, environment>>

Run(w, label) == wpc' = [wpc EXCEPT ![w] = label]
Finish(w) ==
    /\ Run(w, "idle")
    /\ cur' = [cur EXCEPT ![w] = NoAttempt]
    /\ reply' = [reply EXCEPT ![w] = NoReply]

\* The runner goes on to persistUnknown when a finalisation fails, and cannot
\* tell a lost acknowledgement from a failure.
Doubt(w) ==
    /\ Run(w, "unknown")
    /\ reply' = [reply EXCEPT ![w] = NoReply]
    /\ UNCHANGED cur
Acknowledged(w) == Finish(w) \/ ("DATABASE" \in Disturbances /\ Doubt(w))

\* Approval creates the cycle, its observations and its first attempts in one
\* transaction; a refused reservation or a closed window undoes all of it.
Materialize ==
    LET planned == IF mode = "CANARY" THEN {<<Center, 1>>} ELSE Points \X {1}
        measured == {Point(a) : a \in planned}
    IN  /\ cycle = "CREATED" /\ windowOpen
        /\ CommittedWith(ledger, charged) + Cardinality(planned) <= cap
        /\ WriteTables([Claimed(Tables, planned) EXCEPT
             !.obs = [p \in Points |-> IF p \in measured THEN "PENDING" ELSE "BLOCKED"]])
        /\ cycle' = IF mode = "CANARY" THEN "CANARY_RUNNING" ELSE "QUEUED"
        /\ UNCHANGED <<untouchedByStore, books, stopped, working, calls>>

\* acquireAndCommitSubmitted.
AcquirableAgain(a) == attempt[a] \in {"CLAIMED", "SUBMITTED"}  \* a bug to catch
Acquirable(a) == attempt[a] = "CLAIMED"

AcquireNothing(w) ==
    /\ wpc[w] = "acquire"
    /\ ~Acquirable(cur[w])
    /\ Finish(w)
    /\ UNCHANGED <<untouchedByStore, slots, books, control, calls>>

\* A closed switch of this process, or a stopped cycle, cancels what was not
\* called; the status of the cycle stays as it is.
StopRequested(w) == ~gate[w] \/ stopped \/ cycle = "STOPPED"

AcquireCancels(w) ==
    /\ wpc[w] = "acquire"
    /\ Acquirable(cur[w])
    /\ StopRequested(w)
    /\ WriteTables(Cancelled(Tables))
    /\ Finish(w)
    /\ UNCHANGED <<untouchedByStore, books, control, calls>>

\* No candidate can be built once the window has ended.  The job is not retried.
AcquireThrows(w) ==
    /\ wpc[w] = "acquire"
    /\ Acquirable(cur[w])
    /\ \/ ~StopRequested(w) /\ ~(windowOpen /\ cycle \in ExecutableStatus)
       \/ "DATABASE" \in Disturbances
    /\ Finish(w)
    /\ UNCHANGED <<untouchedByStore, slots, books, control, calls>>

\* The attempt crosses the boundary; its cycle, window and money still allow it.
Submit(w) ==
    /\ wpc[w] = "acquire"
    /\ Acquirable(cur[w])
    /\ ~StopRequested(w) /\ windowOpen /\ cycle \in ExecutableStatus
    /\ budget[cur[w]] = "RESERVED" /\ ledger[cur[w]] = "RESERVED"
    /\ attempt' = [attempt EXCEPT ![cur[w]] = "SUBMITTED"]
    /\ UNCHANGED <<untouchedByStore, obs, budget, ledger, outbox, lease, books,
                   control, calls>>

AcquireSubmits(w) ==
    /\ Submit(w)
    /\ Run(w, "submitted")
    /\ UNCHANGED <<cur, reply>>

\* The commit is not acknowledged: the job throws and leaves the attempt submitted.
AcquireUnacknowledged(w) ==
    /\ "DATABASE" \in Disturbances
    /\ Submit(w)
    /\ Finish(w)

-----------------------------------------------------------------------------
(* finalizeSubmitted.  A provider reply is in hand and the attempt is still *)
(* SUBMITTED: only its own job moves it from there.                         *)

\* The receipt of attempt a with reply r, and the tables t of the transaction.
Receipt(w, t) ==
    LET a == cur[w]
        r == reply[w]
    IN  /\ WriteTables(t)
        /\ result' = [result EXCEPT ![a] = IF Incident(r) THEN "INCIDENT" ELSE "OK"]
        /\ charged' = [charged EXCEPT ![a] = IF r.basis = "actual" THEN r.cost ELSE @]
        /\ Acknowledged(w)
        /\ UNCHANGED <<untouchedByStore, calls>>

\* A finalisation that closes its slot recounts the cycle.
Conclude(w, t) ==
    /\ cycle' = Recounted(t)
    /\ UNCHANGED stopped
    /\ Receipt(w, IF Recounted(t) = "UNKNOWN_RECONCILIATION" THEN Cancelled(t) ELSE t)

Finalizing(w) == wpc[w] = "finalize" /\ attempt[cur[w]] = "SUBMITTED"
Answer(w, event) == Finalizing(w) /\ ~Incident(reply[w]) /\ reply[w].event = event
Settled(w) == Answered(Tables, cur[w], reply[w])
Close(w, t) == Observed(t, Point(cur[w]), OutcomeAfter(reply[w]))

\* A finalisation that stops the cycle cancels what was not called after its own
\* attempt has left SUBMITTED and before its observation is written.
Stop == cycle' = "BUDGET_BLOCKED" /\ stopped' = TRUE

FinalizeIncident(w) ==
    /\ Finalizing(w) /\ Incident(reply[w])
    /\ Stop
    /\ Receipt(w, IF mode = "PILOT" /\ reply[w].event = "FOUND"
                  THEN Cancelled(Settled(w))
                  ELSE Close(w, Cancelled(Settled(w))))

\* What sv_local_pilot_observation_guard asks of customer evidence.
AtAnyCost(r) == Executable  \* a bug to catch
Acceptable(r) == Executable /\ r.basis = "actual"

FinalizeEvidence(w) ==
    /\ Answer(w, "FOUND")
    /\ mode = "PILOT" => Acceptable(reply[w])
    /\ Conclude(w, Close(w, Settled(w)))

Retrying(w) == Answer(w, "RETRYABLE") /\ MayRetry(cur[w])
\* A bug to catch: what is committed already fits, without the retry itself.
RetryFitsAlone(w) ==
    CommittedWith(Settled(w).ledger,
                  [charged EXCEPT ![cur[w]] = IF reply[w].basis = "actual"
                                              THEN reply[w].cost ELSE @]) <= cap
RetryFits(w) ==
    CommittedWith(Settled(w).ledger,
                  [charged EXCEPT ![cur[w]] = IF reply[w].basis = "actual"
                                              THEN reply[w].cost ELSE @]) + 1 <= cap

\* A bug to catch: the receipt commits first and the retry is left for later.
FinalizeRetryLater(w) ==
    /\ Retrying(w) /\ Executable /\ RetryFits(w)
    /\ Receipt(w, Settled(w))
    /\ UNCHANGED control

FinalizeRetry(w) ==
    /\ Retrying(w) /\ Executable /\ RetryFits(w)
    /\ Receipt(w, Claimed(Settled(w), {NextAttempt(cur[w])}))
    /\ UNCHANGED control

FinalizeRetryRefused(w) ==
    /\ Retrying(w) /\ Executable /\ ~RetryFits(w)
    /\ Stop
    /\ Receipt(w, Close(w, Cancelled(Settled(w))))

\* In a closed cycle the slot is concluded without a retry.
FinalizeRetryClosed(w) ==
    /\ Retrying(w) /\ cycle \in ClosedStatus
    /\ Conclude(w, Close(w, Settled(w)))

FinalizeFailure(w) ==
    /\ Answer(w, "AUTH") \/ (Answer(w, "RETRYABLE") /\ ~MayRetry(cur[w]))
    /\ Conclude(w, Close(w, Settled(w)))

FinalizeOutcomeUnknown(w) ==
    /\ Answer(w, "OUTCOME_UNKNOWN")
    /\ Conclude(w, Close(w, Settled(w)))

\* A trigger refuses the receipt: evidence for a cycle that no longer executes
\* or without an actual cost, or a retryable failure with no retry while the
\* cycle waits for reconciliation.
FinalizeRejected(w) ==
    /\ \/ Answer(w, "FOUND") /\ mode = "PILOT" /\ ~Acceptable(reply[w])
       \/ Retrying(w) /\ ~Executable /\ cycle \notin ClosedStatus
    /\ Doubt(w)
    /\ UNCHANGED <<untouchedByStore, slots, books, control, calls>>

FinalizeFails(w) ==
    /\ "DATABASE" \in Disturbances /\ Finalizing(w)
    /\ Doubt(w)
    /\ UNCHANGED <<untouchedByStore, slots, books, control, calls>>

-----------------------------------------------------------------------------
(* markSubmittedUnknown, called by persistUnknown.                          *)
UnknownAlreadyFinal(w) ==
    /\ wpc[w] = "unknown" /\ attempt[cur[w]] # "SUBMITTED"
    /\ Finish(w)
    /\ UNCHANGED <<untouchedByStore, slots, books, control, calls>>

UnknownMarked(w) ==
    LET a == cur[w]
        crossed == [Tables EXCEPT !.attempt[a] = "UNKNOWN_RECONCILIATION"]
    IN  /\ wpc[w] = "unknown" /\ attempt[a] = "SUBMITTED"
        /\ cycle # "BUDGET_BLOCKED"
        /\ cycle' = "UNKNOWN_RECONCILIATION"
        /\ WriteTables(Cancelled(Observed(crossed, Point(a), "UNKNOWN")))
        /\ Finish(w)
        /\ UNCHANGED <<untouchedByStore, books, stopped, calls>>

\* sv_local_budget_incident_guard refuses to move a blocked cycle, and the
\* attempt's transition is rolled back with it.
UnknownRejected(w) ==
    /\ wpc[w] = "unknown" /\ attempt[cur[w]] = "SUBMITTED"
    /\ cycle = "BUDGET_BLOCKED" \/ "DATABASE" \in Disturbances
    /\ Finish(w)
    /\ UNCHANGED <<untouchedByStore, slots, books, control, calls>>

-----------------------------------------------------------------------------
\* reconcileLocalPilotBilling: the operator confirms with the provider that
\* every slot of a stranded cycle was charged its reservation.
ReconcileBilling ==
    LET existing == {a \in Attempts : attempt[a] # "NONE"}
    IN  /\ mode = "PILOT"
        /\ cycle \in ExecutableStatus \cup {"UNKNOWN_RECONCILIATION", "STOPPED"}
        /\ existing = Points \X {1}
        /\ \A a \in existing :
             /\ attempt[a] = "UNKNOWN_RECONCILIATION" /\ budget[a] = "RESERVED"
             /\ outbox[a] = "ENQUEUED" /\ result[a] = "NONE"
             /\ ledger[a] = "RESERVED"
        /\ \A p \in Points : obs[p] \in {"PENDING", "UNKNOWN"}
        /\ WriteTables([Tables EXCEPT
             !.obs    = [p \in Points |-> "UNKNOWN"],
             !.budget = [a \in Attempts |-> IF a \in existing THEN "SPENT" ELSE @[a]],
             !.ledger = [a \in Attempts |-> IF a \in existing THEN "SETTLED" ELSE @[a]]])
        /\ charged' = [a \in Attempts |-> IF a \in existing THEN 1 ELSE charged[a]]
        /\ cycle' = "STOPPED" /\ stopped' = TRUE
        /\ UNCHANGED <<untouchedByStore, result, working, calls>>
=============================================================================
