-------------------------- MODULE LocalMapsRuntime --------------------------
(***************************************************************************)
(* The Local Maps measurement runtime: approval materialises a cycle, the  *)
(* outbox dispatcher of a worker process queues its attempts, the job of a *)
(* process runs runLocalMapsLiveAttempt for one of them (acquire, call the *)
(* provider once, finalise or persist the doubt), and around them the      *)
(* owner restarts processes with other switches and moves the cap.         *)
(***************************************************************************)
EXTENDS LocalDispatchOutbox, LocalAttemptStore

FetchJob(w, a) ==
    /\ wpc[w] = "idle" /\ a \in jobs
    /\ jobs' = jobs \ {a}
    /\ cur' = [cur EXCEPT ![w] = a]
    /\ Run(w, "acquire")
    /\ UNCHANGED <<slots, books, control, dispatching, environment, reply, calls>>

\* The first look at the committed snapshot finds the lease or the window gone:
\* the job fails and tells nobody.
SnapshotDropped(w) ==
    /\ wpc[w] = "submitted"
    /\ ~windowOpen \/ "LATE" \in Disturbances
    /\ Finish(w)
    /\ UNCHANGED <<untouchedByStore, slots, books, control, calls>>

\* The second look, just before the call, goes to persistUnknown.
DispatchedLate(w) ==
    /\ wpc[w] = "submitted"
    /\ ~windowOpen \/ "LATE" \in Disturbances
    /\ Doubt(w)
    /\ UNCHANGED <<untouchedByStore, slots, books, control, calls>>

CallProvider(w) ==
    /\ wpc[w] = "submitted" /\ windowOpen
    /\ calls' = [calls EXCEPT ![cur[w]] = @ + 1]
    /\ Run(w, "called")
    /\ UNCHANGED <<untouchedByStore, slots, books, control, cur, reply>>

ProviderAnswers(w, r) ==
    /\ wpc[w] = "called"
    /\ reply' = [reply EXCEPT ![w] = r]
    /\ Run(w, "finalize")
    /\ UNCHANGED <<untouchedByStore, slots, books, control, cur, calls>>

\* The call throws, or its answer is malformed, outside the window or an
\* estimate of nothing.
ProviderFails(w) ==
    /\ wpc[w] = "called"
    /\ Doubt(w)
    /\ UNCHANGED <<untouchedByStore, slots, books, control, calls>>

AcquireStep(w) ==
    \/ AcquireNothing(w)
    \/ AcquireCancels(w)
    \/ AcquireThrows(w)
    \/ AcquireSubmits(w)
    \/ AcquireUnacknowledged(w)
CallStep(w) ==
    \/ SnapshotDropped(w)
    \/ DispatchedLate(w)
    \/ CallProvider(w)
    \/ \E r \in Replies : ProviderAnswers(w, r)
    \/ ProviderFails(w)
FinalizeStep(w) ==
    \/ FinalizeIncident(w)
    \/ FinalizeEvidence(w)
    \/ FinalizeRetry(w)
    \/ FinalizeRetryRefused(w)
    \/ FinalizeRetryClosed(w)
    \/ FinalizeFailure(w)
    \/ FinalizeOutcomeUnknown(w)
    \/ FinalizeRejected(w)
    \/ FinalizeFails(w)
UnknownStep(w) ==
    \/ UnknownAlreadyFinal(w)
    \/ UnknownMarked(w)
    \/ UnknownRejected(w)
Job(w) == AcquireStep(w) \/ CallStep(w) \/ FinalizeStep(w) \/ UnknownStep(w)

-----------------------------------------------------------------------------
\* A killed process loses its job and its dispatch round; pg-boss retries none.
Crash(w) ==
    /\ "CRASH" \in Disturbances
    /\ wpc[w] # "idle" \/ (w \in Dispatchers /\ dpc[w] # "loop")
    /\ Finish(w)
    /\ dpc' = [d \in Dispatchers |-> IF d = w THEN "loop" ELSE dpc[d]]
    /\ batch' = [d \in Dispatchers |-> IF d = w THEN {} ELSE batch[d]]
    /\ row' = [d \in Dispatchers |-> IF d = w THEN NoAttempt ELSE row[d]]
    /\ UNCHANGED <<slots, books, control, jobs, environment, calls>>

\* The switches are environment variables: they change with a new deployment
\* of an idle process.
Redeploy(w) ==
    /\ "REDEPLOY" \in Disturbances
    /\ wpc[w] = "idle"
    /\ w \in Dispatchers => dpc[w] = "loop"
    /\ gate' = [gate EXCEPT ![w] = ~@]
    /\ UNCHANGED <<slots, books, control, jobs, dispatching, working, mode, cap,
                   windowOpen, calls>>

WindowCloses ==
    /\ "WINDOW" \in Disturbances
    /\ windowOpen /\ windowOpen' = FALSE
    /\ UNCHANGED <<slots, books, control, jobs, dispatching, working, mode, cap,
                   gate, calls>>

SetCap(amount) ==
    /\ cap # amount /\ cap' = amount
    /\ UNCHANGED <<slots, books, control, jobs, dispatching, working, mode,
                   windowOpen, gate, calls>>

Next ==
    \/ Materialize
    \/ \E d \in Dispatchers : Dispatch(d)
    \/ \E a \in Attempts : LeaseExpires(a)
    \/ \E w \in Procs, a \in Attempts : FetchJob(w, a)
    \/ \E w \in Procs : Job(w)
    \/ \E w \in Procs : Crash(w)
    \/ \E w \in Procs : Redeploy(w)
    \/ ReconcileBilling
    \/ WindowCloses
    \/ \E amount \in Caps : SetCap(amount)

Spec == Init /\ [][Next]_vars

\* Every process keeps running: it polls the outbox, fetches waiting jobs and
\* carries each to its end, and a lease nobody renews runs out.  The queue may
\* fail, but it does not refuse a dispatcher that keeps trying for ever, nor does
\* a lease run out every single time before its holder comes to the row.
Fairness ==
    /\ \A d \in Dispatchers :
          /\ WF_vars(Dispatch(d))
          /\ SF_vars(\E a \in Attempts : CheckRow(d, a)) /\ SF_vars(SendJob(d))
    /\ \A a \in Attempts : WF_vars(LeaseExpires(a))
    /\ \A w \in Procs : WF_vars(\E a \in Attempts : FetchJob(w, a))
    /\ \A w \in Procs : WF_vars(Job(w))

FairSpec == Spec /\ Fairness

-----------------------------------------------------------------------------
(* What keeps the state consistent.                                         *)

Live == {"CLAIMED", "SUBMITTED"}

\* An observation is pending exactly while one of its attempts is claimed or
\* submitted: no cancellation, refused retry or finalisation leaves a slot that
\* waits for nobody, or an attempt that works for a slot already concluded.
PendingMeansLive ==
    \A p \in Points :
        obs[p] = "PENDING" <=> \E a \in AttemptsOf(p) : attempt[a] \in Live

\* Attempts of an observation follow one another: a later one exists only after
\* all earlier ones ended in a retryable failure with their receipt.
AttemptsInSequence ==
    \A a, b \in Attempts :
        Point(a) = Point(b) /\ Index(a) < Index(b) /\ attempt[b] # "NONE"
        => attempt[a] = "RETRYABLE_FAILURE" /\ result[a] # "NONE"

\* Stopping a cycle, whoever does it and whatever else is in flight, leaves no
\* attempt that could still be submitted.
QuietWhenClosed ==
    \A a \in Attempts : attempt[a] = "CLAIMED" => Executable

\* The attempt, its own budget state and its row in the spend ledger are three
\* tables written by different statements; they agree after every transaction.
\* The one reservation that outlives its finished attempt is that of a call
\* charged at an estimate.
BooksAgree ==
    \A a \in Attempts :
        CASE attempt[a] = "NONE" -> ledger[a] = "NONE" /\ budget[a] = "NONE"
          [] attempt[a] \in Live -> ledger[a] = "RESERVED" /\ budget[a] = "RESERVED"
          [] attempt[a] = "CANCELLED_NO_CALL" ->
               ledger[a] = "RELEASED" /\ budget[a] = "RELEASED"
          [] attempt[a] = "UNKNOWN_RECONCILIATION" ->
               \/ ledger[a] = "RESERVED" /\ budget[a] = "RESERVED"
               \/ ledger[a] = "SETTLED" /\ budget[a] = "SPENT" /\ cycle = "STOPPED"
          [] OTHER -> \/ ledger[a] = "SETTLED" /\ budget[a] # "RESERVED"
                      \/ ledger[a] = "RESERVED" /\ budget[a] = "SPENT"

\* Retries reserve beside the settlements, refunds and charges of other slots, and
\* the cap moves under them: the cycle never commits more than a cap its owner
\* set, but for what answers cost above their reservations.
SpendWithinCap ==
    \E amount \in Caps :
        CommittedWith(ledger, charged) <= amount + Overrun(ledger, WorstCase, charged)

\* Duplicate jobs, leases that run out, crashes and lost acknowledgements never
\* call the provider twice for one attempt, and a reservation whose call may
\* have been made is never given back.
AtMostOneCall ==
    \A a \in Attempts :
        /\ calls[a] <= 1
        /\ calls[a] = 1 => ledger[a] \in {"RESERVED", "SETTLED"}

\* Past the acquisition an attempt belongs to one process, and stays submitted
\* until that process writes its end.
Owning == {"submitted", "called", "finalize"}
JobOwnsAttempt ==
    \A w \in Procs : wpc[w] \in Owning =>
        /\ attempt[cur[w]] = "SUBMITTED"
        /\ calls[cur[w]] = IF wpc[w] = "submitted" THEN 0 ELSE 1
        /\ \A v \in Procs \ {w} :
             wpc[v] \in Owning \cup {"unknown"} => cur[v] # cur[w]

-----------------------------------------------------------------------------
(* What the operator and the customer are told.                             *)

\* A cycle is handed to review or to quality control only when nothing of it is
\* pending or unknown, and as QC_REQUIRED only without a failed slot.
VerdictIsSettled ==
    /\ cycle \in VerdictStatus =>
         \A p \in Points : obs[p] \notin {"NONE", "PENDING", "UNKNOWN"}
    /\ cycle = "QC_REQUIRED" =>
         \A p \in Points : obs[p] \notin {"INVALID", "BLOCKED"}

\* An attempt whose outcome nobody knows is never lost among finished ones: its
\* cycle waits for reconciliation or is stopped.
UnknownIsHeld ==
    (\E a \in Attempts : attempt[a] = "UNKNOWN_RECONCILIATION")
    => cycle \in {"UNKNOWN_RECONCILIATION"} \cup ClosedStatus

\* A customer's measurement has a succeeded attempt behind it, called once,
\* settled in the ledger at what it cost and within its reservation.
EvidenceIsPaidFor ==
    \A p \in Points : obs[p] = "VALID" =>
        \E a \in AttemptsOf(p) :
            /\ attempt[a] = "SUCCEEDED" /\ result[a] = "OK" /\ calls[a] = 1
            /\ ledger[a] = "SETTLED" /\ charged[a] <= 1

\* A charge above the reservation blocks the cycle for good.
IncidentBlocks ==
    (\E a \in Attempts : result[a] = "INCIDENT") => cycle = "BUDGET_BLOCKED" /\ stopped

\* A claimed attempt does not fall between outbox, queue and workers, however
\* sends fail, rounds end early and leases run out: as long as no process is
\* killed, no transaction fails and the window is open, it always has somebody
\* who will bring it to a job.
NothingLost ==
    \A a \in Attempts : attempt[a] = "CLAIMED" =>
        \/ outbox[a] \in {"PENDING", "CLAIMED"}
        \/ a \in jobs
        \/ \E w \in Procs : cur[w] = a

-----------------------------------------------------------------------------
(* What a step may never do.                                                *)

\* A concluded observation never changes again, not even when the transaction
\* of a late job cancels or concludes it a second time.
OutcomesAreFinal ==
    [][\A p \in Points : obs[p] \notin {"NONE", "PENDING"} => obs'[p] = obs[p]]_vars

\* A stopped cycle stays as it is: no later receipt, doubt or reconciliation
\* reopens it, and no attempt is claimed or submitted in it.
StopIsFinal ==
    [][stopped => /\ stopped' /\ cycle' = cycle
                  /\ \A a \in Attempts : attempt'[a] # attempt[a]
                                         => attempt'[a] \notin Live]_vars

-----------------------------------------------------------------------------
(* The abstract specification it implements.                                *)

Paid(a) == INSTANCE PaidCall WITH money <- ledger[a], calls <- calls[a]

\* Every attempt is a paid call as PaidCall promises it, whatever crashes, is
\* delivered twice or runs out of its lease: reserved before the call, called at
\* most once, given back only if it was never called, final once settled.
AttemptsArePaidCalls ==
    /\ \A a \in Attempts : Paid(a)!Init
    /\ [][\A a \in Attempts : Paid(a)!Step]_vars

-----------------------------------------------------------------------------
(* What must happen.                                                        *)

\* With workers that are not killed, transactions that do not fail and switches
\* that finally stay open, every slot is concluded, although sends to the queue
\* fail, with or without effect, and leave their own and other rows under leases
\* that must run out first.  It needs answers that do not block the cycle: one
\* that does leaves a call behind (CalledIsConcluded).
SlotsConclude ==
    (<>[](\A w \in Procs : gate[w])) =>
        \A p \in Points : (obs[p] = "PENDING") ~> (obs[p] # "PENDING")

-----------------------------------------------------------------------------
(* What the documentation says and the code does not do.                    *)

\* Decision D-002: a call that lacks a durable completion proof enters
\* UNKNOWN_RECONCILIATION.  So an attempt that was called is not left submitted.
CalledIsConcluded ==
    \A a \in Attempts :
        (attempt[a] = "SUBMITTED" /\ calls[a] = 1) ~> (attempt[a] # "SUBMITTED")
=============================================================================
