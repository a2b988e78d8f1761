--------------------------- MODULE LocalMapsState ---------------------------
(***************************************************************************)
(* The tables of one Local Maps measurement cycle and the memory of the    *)
(* worker processes that measure it.  The components LocalDispatchOutbox   *)
(* and LocalAttemptStore are the actions on this state; LocalMapsRuntime   *)
(* composes them.                                                          *)
(*                                                                         *)
(* Every transaction of the runtime that changes an attempt takes the row  *)
(* of its cycle FOR UPDATE (sv_local_pilot_attempt_guard of migration      *)
(* 0075), so a transaction is one action.  The unit of money is the worst  *)
(* case of one attempt: a reservation is 1, a charge 0, 1 or 2.            *)
(***************************************************************************)
EXTENDS SpendBook, FiniteSets

CONSTANTS Modes,        \* execution modes a cycle is planned with
          Points,       \* grid points; each has one observation
          Center,       \* the one point a canary measures
          MaxAttempts,  \* attempts per observation
          Procs,        \* worker processes, each runs one job at a time
          Dispatchers,  \* those of them whose outbox dispatcher runs
          Caps,         \* what the spend scope leaves to this cycle
          Replies,      \* what the provider may answer
          Disturbances, \* what may go wrong around the runtime
          NoHolder, NoAttempt, NoReply

Attempts == Points \X (1..MaxAttempts)
Point(a) == a[1]
Index(a) == a[2]
NextAttempt(a) == <<Point(a), Index(a) + 1>>
AttemptsOf(p) == {p} \X (1..MaxAttempts)

AttemptStatus == {"NONE", "CLAIMED", "SUBMITTED", "SUCCEEDED",
                  "RETRYABLE_FAILURE", "TERMINAL_FAILURE",
                  "UNKNOWN_RECONCILIATION", "CANCELLED_NO_CALL"}
BudgetState == {"NONE", "RESERVED", "SPENT", "RELEASED"}
OutboxStatus == {"NONE", "PENDING", "CLAIMED", "ENQUEUED", "CANCELLED"}
\* "VALID" is FOUND or ABSENT_WITHIN_DEPTH: the two differ only in the rank.
Outcome == {"NONE", "PENDING", "VALID", "BLOCKED", "INVALID", "UNKNOWN",
            "CANCELLED"}
ExecutableStatus == {"QUEUED", "RUNNING", "CANARY_RUNNING"}
ClosedStatus == {"BUDGET_BLOCKED", "STOPPED"}
VerdictStatus == {"CANARY_REVIEW", "PARTIAL_FAILURE", "QC_REQUIRED"}
CycleStatus == {"CREATED", "UNKNOWN_RECONCILIATION"}
                 \cup ExecutableStatus \cup ClosedStatus \cup VerdictStatus

Disturbance == {"CRASH",     \* a worker process is killed
                "DATABASE",  \* a transaction fails, or its acknowledgement does
                "QUEUE",     \* a send to the queue fails
                "SLOW",      \* a lease runs out on whoever works under it
                "LATE",      \* a job looks at its lease when it has run out
                "REDEPLOY",  \* a process restarts with other switches
                "WINDOW"}    \* the measurement window ends

\* localMapsLiveProviderResultSchema: the cost is unknown exactly when the
\* outcome is.  An estimate of zero never gets this far.
Reply == [event : {"FOUND", "RETRYABLE", "AUTH"}, cost : 0..2, basis : {"actual"}]
           \cup [event : {"FOUND", "RETRYABLE", "AUTH"}, cost : 1..2,
                 basis : {"estimated"}]
           \cup {[event |-> "OUTCOME_UNKNOWN", cost |-> 0, basis |-> "none"]}

ASSUME ModeAssumption == Modes \subseteq {"CANARY", "PILOT"}
ASSUME GridAssumption ==
    IsFiniteSet(Points) /\ Center \in Points /\ MaxAttempts \in 1..3
ASSUME ProcsAssumption == Dispatchers \subseteq Procs
ASSUME DisturbancesAssumption == Disturbances \subseteq Disturbance
ASSUME MoneyAssumption == Caps \subseteq Nat /\ Replies \subseteq Reply
ASSUME NullAssumption ==
    NoHolder \notin Procs /\ NoAttempt \notin Attempts /\ NoReply \notin Reply

VARIABLES
  \* the database
  cycle, stopped, mode, \* sv_local_scan_cycles: status, emergency_stopped_at,
                        \* execution_mode
  obs,                  \* sv_local_rank_observations.outcome
  attempt, budget,      \* sv_measurement_attempts: status, budget_state
  result,               \* sv_measurement_attempt_results
  ledger, charged,      \* sv_provider_spend_reservations: status, actual_usd
  cap,                  \* what the scope leaves to this cycle
  outbox, lease,        \* sv_local_dispatch_outbox: status, owner of the claim
  jobs,                 \* pg-boss: attempts with a job waiting in the queue
  \* the clock and the processes
  windowOpen,           \* the measurement window has not ended
  gate,                 \* a process's copy of the three execution switches
  dpc, batch, row,      \* its dispatcher: statement, claimed rows, row in hand
  wpc, cur, reply,      \* its job: statement, attempt, validated provider reply
  \* history
  calls                 \* provider calls made for an attempt

slots == <<obs, attempt, budget, ledger, outbox, lease>>
books == <<result, charged>>
control == <<cycle, stopped>>
dispatching == <<dpc, batch, row>>
working == <<wpc, cur, reply>>
environment == <<mode, cap, windowOpen, gate>>
vars == <<slots, books, control, jobs, dispatching, working, environment, calls>>

TypeOK ==
    /\ cycle \in CycleStatus /\ stopped \in BOOLEAN
    /\ obs \in [Points -> Outcome]
    /\ attempt \in [Attempts -> AttemptStatus]
    /\ budget \in [Attempts -> BudgetState]
    /\ result \in [Attempts -> {"NONE", "OK", "INCIDENT"}]
    /\ ledger \in [Attempts -> RowStatus]
    /\ charged \in [Attempts -> 0..2]
    /\ cap \in Caps
    /\ outbox \in [Attempts -> OutboxStatus]
    /\ lease \in [Attempts -> Dispatchers \cup {NoHolder}]
    /\ jobs \subseteq Attempts
    /\ mode \in Modes
    /\ windowOpen \in BOOLEAN
    /\ gate \in [Procs -> BOOLEAN]
    /\ dpc \in [Dispatchers -> {"loop", "check", "send", "mark"}]
    /\ batch \in [Dispatchers -> SUBSET Attempts]
    /\ row \in [Dispatchers -> Attempts \cup {NoAttempt}]
    /\ wpc \in [Procs -> {"idle", "acquire", "submitted", "called", "finalize",
                          "unknown"}]
    /\ cur \in [Procs -> Attempts \cup {NoAttempt}]
    /\ reply \in [Procs -> Reply \cup {NoReply}]
    /\ calls \in [Attempts -> Nat]
    /\ \A w \in Procs : /\ wpc[w] # "idle" => cur[w] \in Attempts
                        /\ wpc[w] = "finalize" => reply[w] \in Replies
    /\ \A d \in Dispatchers : dpc[d] \in {"send", "mark"} => row[d] \in Attempts

Init ==
    /\ cycle = "CREATED" /\ stopped = FALSE
    /\ obs = [p \in Points |-> "NONE"]
    /\ attempt = [a \in Attempts |-> "NONE"]
    /\ budget = [a \in Attempts |-> "NONE"]
    /\ result = [a \in Attempts |-> "NONE"]
    /\ ledger = [a \in Attempts |-> "NONE"]
    /\ charged = [a \in Attempts |-> 0]
    /\ cap \in Caps
    /\ outbox = [a \in Attempts |-> "NONE"]
    /\ lease = [a \in Attempts |-> NoHolder]
    /\ jobs = {}
    /\ mode \in Modes
    /\ windowOpen = TRUE
    /\ gate = [w \in Procs |-> TRUE]
    /\ dpc = [d \in Dispatchers |-> "loop"]
    /\ batch = [d \in Dispatchers |-> {}]
    /\ row = [d \in Dispatchers |-> NoAttempt]
    /\ wpc = [w \in Procs |-> "idle"]
    /\ cur = [w \in Procs |-> NoAttempt]
    /\ reply = [w \in Procs |-> NoReply]
    /\ calls = [a \in Attempts |-> 0]

-----------------------------------------------------------------------------
Executable == ~stopped /\ cycle \in ExecutableStatus

\* The scope's commitments, seen from a transaction that has written lg and ch.
WorstCase == [a \in Attempts |-> 1]
CommittedWith(lg, ch) == Committed(lg, WorstCase, ch)
=============================================================================
