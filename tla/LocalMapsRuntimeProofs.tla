----------------------- MODULE LocalMapsRuntimeProofs -----------------------
(***************************************************************************)
(* Theorems about the Local Maps runtime, for any grid, number of          *)
(* processes, caps and answers: its types, its safety invariants, that it  *)
(* implements PaidCall, that no attempt is lost and that its budget holds. *)
(* The safety invariants hold together: one inductive invariant, split     *)
(* into what the tables say of one another and what the processes know of  *)
(* the tables.  What the tables of a transaction become is stated once per *)
(* transaction; each is then reduced to what it does to every row (a       *)
(* shape), and each part of the invariant is shown to survive each shape.  *)
(***************************************************************************)
EXTENDS LocalMapsRuntime, SpendBookProofs, TLAPS

TablesType == [obs     : [Points -> Outcome],
               attempt : [Attempts -> AttemptStatus],
               budget  : [Attempts -> BudgetState],
               ledger  : [Attempts -> RowStatus],
               outbox  : [Attempts -> OutboxStatus],
               lease   : [Attempts -> Dispatchers \cup {NoHolder}]]

\* An attempt is a point of the grid and an index.
LEMMA AttemptParts ==
    ASSUME NEW a \in Attempts
    PROVE  Point(a) \in Points /\ Index(a) \in 1..MaxAttempts /\ a = <<Point(a), Index(a)>>
BY DEF Attempts, Point, Index

LEMMA TablesTyped == TypeOK => Tables \in TablesType
BY DEF TypeOK, Tables, TablesType

LEMMA ClaimedTyped ==
    ASSUME NEW t \in TablesType, NEW new PROVE Claimed(t, new) \in TablesType
BY DEF TablesType, Claimed, AttemptStatus, BudgetState, RowStatus, OutboxStatus

LEMMA CancelledTyped ==
    ASSUME NEW t \in TablesType PROVE Cancelled(t) \in TablesType
BY DEF TablesType, Cancelled, Outcome, AttemptStatus, BudgetState, RowStatus, OutboxStatus

LEMMA ObservedTyped ==
    ASSUME NEW t \in TablesType, NEW p \in Points, NEW outcome \in Outcome
    PROVE  Observed(t, p, outcome) \in TablesType
BY DEF TablesType, Observed

LEMMA AnswerTyped ==
    ASSUME NEW a \in Attempts, NEW r \in Reply
    PROVE  /\ StatusAfter(a, r) \in AttemptStatus
           /\ BudgetAfter(r) \in BudgetState
           /\ OutcomeAfter(r) \in Outcome
BY DEF StatusAfter, BudgetAfter, OutcomeAfter, AttemptStatus, BudgetState, Outcome

LEMMA AnsweredTyped ==
    ASSUME NEW t \in TablesType, NEW a \in Attempts, NEW r \in Reply
    PROVE  Answered(t, a, r) \in TablesType
BY AnswerTyped DEF TablesType, Answered, RowStatus

LEMMA WrittenTyped ==
    ASSUME NEW t \in TablesType, WriteTables(t)
    PROVE  /\ obs' \in [Points -> Outcome]
           /\ attempt' \in [Attempts -> AttemptStatus]
           /\ budget' \in [Attempts -> BudgetState]
           /\ ledger' \in [Attempts -> RowStatus]
           /\ outbox' \in [Attempts -> OutboxStatus]
           /\ lease' \in [Attempts -> Dispatchers \cup {NoHolder}]
BY DEF TablesType, WriteTables

LEMMA RecountedTyped ==
    ASSUME TypeOK, NEW t PROVE Recounted(t) \in CycleStatus
BY DEF TypeOK, Recounted, Verdict, KnownVerdict, CycleStatus, VerdictStatus

\* A finalising job has its attempt and an answer in hand.
LEMMA InHand ==
    ASSUME TypeOK, NEW w \in Procs, wpc[w] = "finalize"
    PROVE  cur[w] \in Attempts /\ reply[w] \in Reply /\ Point(cur[w]) \in Points
BY AttemptParts, MoneyAssumption DEF TypeOK

\* What the end of a job leaves of its process.
LEMMA WorkTyped ==
    ASSUME TypeOK, NEW w \in Procs, wpc[w] # "idle", Finish(w) \/ Doubt(w)
    PROVE  /\ wpc' \in [Procs -> {"idle", "acquire", "submitted", "called", "finalize",
                                  "unknown"}]
           /\ cur' \in [Procs -> Attempts \cup {NoAttempt}]
           /\ reply' \in [Procs -> Reply \cup {NoReply}]
           /\ \A v \in Procs : /\ wpc'[v] # "idle" => cur'[v] \in Attempts
                               /\ wpc'[v] = "finalize" => reply'[v] \in Replies
BY DEF TypeOK, Finish, Doubt, Run

\* A job that ends, or goes to its doubt, without a change of the tables.
LEMMA EndTyped ==
    ASSUME TypeOK, NEW w \in Procs, wpc[w] # "idle", Finish(w) \/ Doubt(w),
           UNCHANGED <<untouchedByStore, slots, books, control, calls>>
    PROVE  TypeOK'
BY WorkTyped DEF TypeOK, untouchedByStore, slots, books, control, dispatching, environment

LEMMA ReceiptTyped ==
    ASSUME TypeOK, NEW w \in Procs, wpc[w] = "finalize", NEW t \in TablesType,
           Receipt(w, t), cycle' \in CycleStatus, stopped' \in BOOLEAN
    PROVE  TypeOK'
<1>1. Finish(w) \/ Doubt(w)
  BY DEF Receipt, Acknowledged
<1>2. result' \in [Attempts -> {"NONE", "OK", "INCIDENT"}] /\ charged' \in [Attempts -> 0..2]
  BY InHand DEF Receipt, TypeOK, Reply
<1>3. WriteTables(t)
  BY DEF Receipt
<1>4. UNCHANGED <<untouchedByStore, calls>>
  BY DEF Receipt
<1>5. QED
  BY <1>1, <1>2, <1>3, <1>4, WorkTyped, WrittenTyped
     DEF TypeOK, untouchedByStore, dispatching, environment

LEMMA ConcludeTyped ==
    ASSUME TypeOK, NEW w \in Procs, wpc[w] = "finalize", NEW t \in TablesType,
           Conclude(w, t)
    PROVE  TypeOK'
<1>1. cycle' \in CycleStatus /\ stopped' \in BOOLEAN
  BY RecountedTyped DEF Conclude, TypeOK
<1>2. QED
  BY <1>1, CancelledTyped, ReceiptTyped DEF Conclude

\* The tables a finalisation starts from, and those it closes its slot in.
LEMMA SettledTyped ==
    ASSUME TypeOK, NEW w \in Procs, wpc[w] = "finalize"
    PROVE  /\ Settled(w) \in TablesType
           /\ Cancelled(Settled(w)) \in TablesType
           /\ \A t \in TablesType : Close(w, t) \in TablesType
BY InHand, TablesTyped, AnsweredTyped, AnswerTyped, CancelledTyped, ObservedTyped
   DEF Settled, Close
-----------------------------------------------------------------------------
\* The dispatcher changes its own state, the outbox and the queue.
LEMMA DispatchTyped ==
    ASSUME TypeOK,
           UNCHANGED untouchedByDispatch,
           outbox' \in [Attempts -> OutboxStatus],
           lease' \in [Attempts -> Dispatchers \cup {NoHolder}],
           jobs' \subseteq Attempts,
           dpc' \in [Dispatchers -> {"loop", "check", "send", "mark"}],
           batch' \in [Dispatchers -> SUBSET Attempts],
           row' \in [Dispatchers -> Attempts \cup {NoAttempt}],
           \A d \in Dispatchers : dpc'[d] \in {"send", "mark"} => row'[d] \in Attempts
    PROVE  TypeOK'
BY DEF TypeOK, untouchedByDispatch, control, books, working, environment

LEMMA DispatchStepTyped ==
    ASSUME TypeOK, NEW d \in Dispatchers, Dispatch(d) PROVE TypeOK'
<1> USE DispatchTyped DEF TypeOK
<1>1. CASE ClaimRows(d)
  BY <1>1 DEF ClaimRows, Waiting, Expired, OutboxStatus
<1>2. CASE ReturnExpired(d)
  BY <1>2 DEF ReturnExpired, Expired, OutboxStatus, dispatching
<1>3. ASSUME NEW a \in Attempts, CheckRow(d, a) \/ SkipRow(d, a) PROVE TypeOK'
  BY <1>3 DEF CheckRow, SkipRow
<1>4. CASE FinishRound(d)
  BY <1>4 DEF FinishRound
<1>5. CASE SendJob(d)
  BY <1>5 DEF SendJob
<1>6. CASE SendFails(d)
  BY <1>6 DEF SendFails, AbandonRound
<1>7. CASE MarkEnqueued(d)
  BY <1>7 DEF MarkEnqueued, OutboxStatus
<1>8. CASE LeaseLost(d)
  BY <1>8 DEF LeaseLost, AbandonRound
<1>9. QED
  BY <1>1, <1>2, <1>3, <1>4, <1>5, <1>6, <1>7, <1>8 DEF Dispatch

LEMMA AcquireStepTyped ==
    ASSUME TypeOK, NEW w \in Procs, AcquireStep(w) PROVE TypeOK'
<1>1. CASE AcquireNothing(w) \/ AcquireThrows(w)
  BY <1>1, EndTyped DEF AcquireNothing, AcquireThrows
<1>2. CASE AcquireCancels(w)
  BY <1>2, TablesTyped, CancelledTyped, WrittenTyped, WorkTyped
     DEF AcquireCancels, TypeOK, untouchedByStore, books, control, dispatching, environment
<1>3. CASE AcquireSubmits(w)
  BY <1>3 DEF AcquireSubmits, Submit, Run, TypeOK, AttemptStatus, untouchedByStore, books,
             control, dispatching, environment
<1>4. CASE AcquireUnacknowledged(w)
  BY <1>4 DEF AcquireUnacknowledged, Submit, Finish, Run, TypeOK, AttemptStatus,
             untouchedByStore, books, control, dispatching, environment
<1>5. QED
  BY <1>1, <1>2, <1>3, <1>4 DEF AcquireStep

LEMMA CallStepTyped ==
    ASSUME TypeOK, NEW w \in Procs, CallStep(w) PROVE TypeOK'
<1>1. CASE SnapshotDropped(w) \/ DispatchedLate(w) \/ ProviderFails(w)
  BY <1>1, EndTyped DEF SnapshotDropped, DispatchedLate, ProviderFails
<1>2. CASE CallProvider(w)
  BY <1>2 DEF CallProvider, Run, TypeOK, untouchedByStore, slots, books, control,
             dispatching, environment
<1>3. ASSUME NEW r \in Replies, ProviderAnswers(w, r) PROVE TypeOK'
  BY <1>3, MoneyAssumption
     DEF ProviderAnswers, Run, TypeOK, untouchedByStore, slots, books, control,
         dispatching, environment
<1>4. QED
  BY <1>1, <1>2, <1>3 DEF CallStep

LEMMA FinalizeStepTyped ==
    ASSUME TypeOK, NEW w \in Procs, FinalizeStep(w) PROVE TypeOK'
<1> USE DEF Finalizing, Answer, Retrying
<1>1. CASE FinalizeIncident(w)
  <2>1. cycle' \in CycleStatus /\ stopped' \in BOOLEAN /\ wpc[w] = "finalize"
    BY <1>1 DEF FinalizeIncident, Stop, CycleStatus, ClosedStatus
  <2>2. QED
    BY <1>1, <2>1, SettledTyped, ReceiptTyped DEF FinalizeIncident
<1>2. CASE FinalizeEvidence(w) \/ FinalizeRetryClosed(w)
           \/ FinalizeFailure(w) \/ FinalizeOutcomeUnknown(w)
  BY <1>2, SettledTyped, ConcludeTyped
     DEF FinalizeEvidence, FinalizeRetryClosed, FinalizeFailure, FinalizeOutcomeUnknown
<1>3. CASE FinalizeRetry(w)
  BY <1>3, SettledTyped, ClaimedTyped, ReceiptTyped DEF FinalizeRetry, control, TypeOK
<1>4. CASE FinalizeRetryRefused(w)
  <2>1. cycle' \in CycleStatus /\ stopped' \in BOOLEAN /\ wpc[w] = "finalize"
    BY <1>4 DEF FinalizeRetryRefused, Stop, CycleStatus, ClosedStatus
  <2>2. QED
    BY <1>4, <2>1, SettledTyped, ReceiptTyped DEF FinalizeRetryRefused
<1>5. CASE FinalizeRejected(w) \/ FinalizeFails(w)
  BY <1>5, EndTyped DEF FinalizeRejected, FinalizeFails
<1>6. QED
  BY <1>1, <1>2, <1>3, <1>4, <1>5 DEF FinalizeStep

LEMMA UnknownStepTyped ==
    ASSUME TypeOK, NEW w \in Procs, UnknownStep(w) PROVE TypeOK'
<1>1. CASE UnknownAlreadyFinal(w) \/ UnknownRejected(w)
  BY <1>1, EndTyped DEF UnknownAlreadyFinal, UnknownRejected
<1>2. CASE UnknownMarked(w)
  <2> DEFINE a == cur[w]
             crossed == [Tables EXCEPT !.attempt[a] = "UNKNOWN_RECONCILIATION"]
             after == Cancelled(Observed(crossed, Point(a), "UNKNOWN"))
  <2>1. a \in Attempts /\ Point(a) \in Points
    BY <1>2, AttemptParts DEF UnknownMarked, TypeOK
  <2>2. crossed \in TablesType
    BY <2>1, TablesTyped DEF TablesType, AttemptStatus
  <2>3. after \in TablesType
    BY <2>1, <2>2, ObservedTyped, CancelledTyped DEF Outcome
  <2>4. WriteTables(after) /\ cycle' \in CycleStatus
    BY <1>2 DEF UnknownMarked, CycleStatus
  <2> HIDE DEF after
  <2>5. QED
    BY <1>2, <2>3, <2>4, WrittenTyped, WorkTyped
       DEF UnknownMarked, TypeOK, untouchedByStore, books, dispatching, environment
<1>3. QED
  BY <1>1, <1>2 DEF UnknownStep

LEMMA MaterializeTyped ==
    ASSUME TypeOK, Materialize PROVE TypeOK'
<1> DEFINE planned == IF mode = "CANARY" THEN {<<Center, 1>>} ELSE Points \X {1}
           measured == {Point(a) : a \in planned}
           claimed == Claimed(Tables, planned)
           after == [claimed EXCEPT
             !.obs = [p \in Points |-> IF p \in measured THEN "PENDING" ELSE "BLOCKED"]]
<1>1. claimed \in TablesType
  BY TablesTyped, ClaimedTyped
<1>2. after \in TablesType
  <2> HIDE DEF claimed, measured
  <2> QED
    BY <1>1 DEF TablesType, Outcome
<1>3. WriteTables(after) /\ cycle' \in CycleStatus
  BY DEF Materialize, CycleStatus, ExecutableStatus
<1> HIDE DEF after
<1>4. QED
  BY <1>2, <1>3, WrittenTyped
     DEF Materialize, TypeOK, untouchedByStore, books, working, dispatching, environment

LEMMA ReconcileTyped ==
    ASSUME TypeOK, ReconcileBilling PROVE TypeOK'
<1> DEFINE existing == {a \in Attempts : attempt[a] # "NONE"}
           after == [Tables EXCEPT
             !.obs    = [p \in Points |-> "UNKNOWN"],
             !.budget = [a \in Attempts |-> IF a \in existing THEN "SPENT" ELSE @[a]],
             !.ledger = [a \in Attempts |-> IF a \in existing THEN "SETTLED" ELSE @[a]]]
<1>1. after \in TablesType
  BY TablesTyped DEF TablesType, Outcome, BudgetState, RowStatus
<1>2. /\ WriteTables(after) /\ cycle' \in CycleStatus /\ stopped' \in BOOLEAN
      /\ charged' \in [Attempts -> 0..2]
  BY DEF ReconcileBilling, CycleStatus, ClosedStatus, TypeOK
<1> HIDE DEF after
<1>3. QED
  BY <1>1, <1>2, WrittenTyped
     DEF ReconcileBilling, TypeOK, untouchedByStore, working, dispatching, environment

\* Every step keeps every variable in its type.
LEMMA TypeStep == TypeOK /\ [Next]_vars => TypeOK'
<1> SUFFICES ASSUME TypeOK, [Next]_vars PROVE TypeOK'
  OBVIOUS
<1> USE DEF slots, books, control, dispatching, working, environment
<1>1. ASSUME NEW a \in Attempts, LeaseExpires(a) PROVE TypeOK'
  BY <1>1, DispatchTyped DEF LeaseExpires, TypeOK
<1>2. ASSUME NEW w \in Procs, NEW a \in Attempts, FetchJob(w, a) PROVE TypeOK'
  BY <1>2 DEF FetchJob, Run, TypeOK
<1>3. ASSUME NEW w \in Procs, Job(w) PROVE TypeOK'
  BY <1>3, AcquireStepTyped, CallStepTyped, FinalizeStepTyped, UnknownStepTyped DEF Job
<1>4. ASSUME NEW w \in Procs, Crash(w) PROVE TypeOK'
  BY <1>4 DEF Crash, Finish, Run, TypeOK
<1>5. ASSUME NEW w \in Procs, Redeploy(w) PROVE TypeOK'
  BY <1>5 DEF Redeploy, TypeOK
<1>6. CASE WindowCloses
  BY <1>6 DEF WindowCloses, TypeOK
<1>7. ASSUME NEW amount \in Caps, SetCap(amount) PROVE TypeOK'
  BY <1>7 DEF SetCap, TypeOK
<1>8. CASE UNCHANGED vars
  BY <1>8 DEF vars, TypeOK
<1>9. QED
  BY <1>1, <1>2, <1>3, <1>4, <1>5, <1>6, <1>7, <1>8, MaterializeTyped, ReconcileTyped,
     DispatchStepTyped DEF Next

LEMMA TypeInit == Init => TypeOK
<1> SUFFICES ASSUME Init PROVE TypeOK
  OBVIOUS
<1>1. /\ cycle \in CycleStatus /\ stopped \in BOOLEAN /\ cap \in Caps
      /\ windowOpen \in BOOLEAN /\ jobs \subseteq Attempts
  BY DEF Init, CycleStatus
<1>2. Tables \in TablesType
  BY DEF Init, Tables, TablesType, Outcome, AttemptStatus, BudgetState, RowStatus, OutboxStatus
<1>3. /\ gate \in [Procs -> BOOLEAN]
      /\ result \in [Attempts -> {"NONE", "OK", "INCIDENT"}]
      /\ charged \in [Attempts -> 0..2] /\ calls \in [Attempts -> Nat]
  BY DEF Init
<1>4. /\ \A w \in Procs : wpc[w] = "idle"
      /\ \A d \in Dispatchers : dpc[d] = "loop"
  BY DEF Init
<1>5. QED
  BY <1>1, <1>2, <1>3, <1>4 DEF Init, TypeOK, Tables, TablesType

\* Every table, process and the queue stays in its type, on any grid.
THEOREM TypeCorrect == Spec => []TypeOK
BY TypeInit, TypeStep, PTL DEF Spec

-----------------------------------------------------------------------------
(* The inductive invariant.                                                 *)

\* Approval is the first thing that happens to a cycle.
CreatedIsEmpty ==
    IF cycle = "CREATED"
    THEN /\ ~stopped
         /\ \A a \in Attempts : attempt[a] = "NONE"
         /\ \A p \in Points : obs[p] = "NONE"
    ELSE \A p \in Points : obs[p] # "NONE"

\* Only billing reconciliation writes STOPPED, when nothing runs any more.
StoppedIsUnknown ==
    cycle = "STOPPED" =>
        \A a \in Attempts : attempt[a] \in {"NONE", "UNKNOWN_RECONCILIATION"}

StoppedIsClosed == stopped => cycle \in ClosedStatus

\* An unknown attempt leaves its slot unknown.
UnknownIsSeen ==
    \A a \in Attempts : attempt[a] = "UNKNOWN_RECONCILIATION" => obs[Point(a)] = "UNKNOWN"

TablesInv ==
    /\ AttemptsInSequence
    /\ PendingMeansLive
    /\ QuietWhenClosed
    /\ BooksAgree
    /\ IncidentBlocks
    /\ UnknownIsHeld
    /\ VerdictIsSettled
    /\ CreatedIsEmpty
    /\ StoppedIsUnknown
    /\ StoppedIsClosed
    /\ UnknownIsSeen

\* An attempt is called only after it was submitted, and one that was cancelled
\* before it is never called.
CalledWasSubmitted ==
    \A a \in Attempts :
        attempt[a] \in {"NONE", "CLAIMED", "CANCELLED_NO_CALL"} => calls[a] = 0

\* A doubt is about an attempt that was submitted.
DoubtedWasSubmitted ==
    \A w \in Procs : wpc[w] = "unknown" => attempt[cur[w]] \notin {"NONE", "CLAIMED"}

ProcessInv ==
    /\ JobOwnsAttempt
    /\ CalledWasSubmitted
    /\ DoubtedWasSubmitted
    /\ \A a \in Attempts : calls[a] <= 1

IInv == TypeOK /\ TablesInv /\ ProcessInv /\ EvidenceIsPaidFor

\* BooksAgree by the status of the attempt.
BooksOf(a) ==
    /\ attempt[a] = "NONE" => ledger[a] = "NONE" /\ budget[a] = "NONE"
    /\ attempt[a] \in Live => ledger[a] = "RESERVED" /\ budget[a] = "RESERVED"
    /\ attempt[a] = "CANCELLED_NO_CALL" => ledger[a] = "RELEASED" /\ budget[a] = "RELEASED"
    /\ attempt[a] = "UNKNOWN_RECONCILIATION" =>
         \/ ledger[a] = "RESERVED" /\ budget[a] = "RESERVED"
         \/ ledger[a] = "SETTLED" /\ budget[a] = "SPENT" /\ cycle = "STOPPED"
    /\ attempt[a] \in {"SUCCEEDED", "RETRYABLE_FAILURE", "TERMINAL_FAILURE"} =>
         \/ ledger[a] = "SETTLED" /\ budget[a] # "RESERVED"
         \/ ledger[a] = "RESERVED" /\ budget[a] = "SPENT"

LEMMA BooksByStatus ==
    ASSUME TypeOK PROVE BooksAgree <=> \A a \in Attempts : BooksOf(a)
BY DEF TypeOK, AttemptStatus, BooksAgree, BooksOf, Live

LEMMA NextBooksByStatus ==
    ASSUME TypeOK' PROVE BooksAgree' <=> \A a \in Attempts : BooksOf(a)'
BY DEF TypeOK, AttemptStatus, BooksAgree, BooksOf, Live

LEMMA IInvInit == Init => IInv
<1> SUFFICES ASSUME Init PROVE IInv
  OBVIOUS
<1>1. TypeOK
  BY TypeInit
<1>2. /\ cycle = "CREATED" /\ ~stopped
      /\ \A a \in Attempts : /\ attempt[a] = "NONE" /\ ledger[a] = "NONE"
                             /\ budget[a] = "NONE" /\ result[a] = "NONE"
                             /\ calls[a] = 0
      /\ \A p \in Points : obs[p] = "NONE"
      /\ \A w \in Procs : wpc[w] = "idle"
  BY DEF Init
<1>3. AttemptsInSequence /\ QuietWhenClosed /\ BooksAgree /\ IncidentBlocks
  <2>1. \A a \in Attempts : BooksOf(a)
    BY <1>2 DEF BooksOf, Live
  <2>2. BooksAgree
    BY <1>1, <2>1, BooksByStatus
  <2>3. QED
    BY <1>2, <2>2 DEF AttemptsInSequence, QuietWhenClosed, IncidentBlocks
<1>4. PendingMeansLive
  BY <1>2 DEF PendingMeansLive, AttemptsOf, Attempts, Live
<1>5. UnknownIsHeld /\ VerdictIsSettled /\ CreatedIsEmpty /\ StoppedIsUnknown
      /\ StoppedIsClosed /\ UnknownIsSeen
  BY <1>2 DEF UnknownIsHeld, VerdictIsSettled, CreatedIsEmpty, StoppedIsUnknown,
              StoppedIsClosed, UnknownIsSeen, VerdictStatus
<1>6. ProcessInv
  BY <1>2 DEF ProcessInv, JobOwnsAttempt, CalledWasSubmitted, DoubtedWasSubmitted, Owning
<1>7. EvidenceIsPaidFor
  BY <1>2 DEF EvidenceIsPaidFor
<1>8. QED
  BY <1>1, <1>3, <1>4, <1>5, <1>6, <1>7 DEF IInv, TablesInv
-----------------------------------------------------------------------------
(* The attempts of one point.                                               *)

LEMMA AttemptsOfPoint ==
    ASSUME NEW p \in Points
    PROVE  AttemptsOf(p) = {a \in Attempts : Point(a) = p}
BY DEF AttemptsOf, Attempts, Point

\* Two attempts of a point have different indexes.
LEMMA IndexesDiffer ==
    ASSUME NEW a \in Attempts, NEW b \in Attempts, a # b, Point(a) = Point(b)
    PROVE  Index(a) < Index(b) \/ Index(b) < Index(a)
<1>1. Index(a) # Index(b)
  BY AttemptParts
<1>2. Index(a) \in Int /\ Index(b) \in Int
  BY AttemptParts, GridAssumption
<1>3. QED
  BY <1>1, <1>2

\* Beside an attempt that is neither missing nor waiting for a retry, a point
\* has only missing and retried ones.
LEMMA AloneAtPoint ==
    ASSUME AttemptsInSequence, NEW a \in Attempts, NEW b \in Attempts,
           a # b, Point(a) = Point(b),
           attempt[a] \notin {"NONE", "RETRYABLE_FAILURE"}
    PROVE  attempt[b] \in {"NONE", "RETRYABLE_FAILURE"}
BY IndexesDiffer DEF AttemptsInSequence

-----------------------------------------------------------------------------
(* The shapes of the transactions.                                          *)

\* The rows of an attempt that a transaction cancels, or leaves alone.
CancelsAttempt(b) ==
    /\ attempt'[b] = "CANCELLED_NO_CALL"
    /\ budget'[b] = "RELEASED" /\ ledger'[b] = "RELEASED"
KeepsAttempt(b) ==
    attempt'[b] = attempt[b] /\ budget'[b] = budget[b] /\ ledger'[b] = ledger[b]

\* The attempts and slots but for attempt a, in a transaction that cancels what
\* was not called or does not.
OthersFollow(others, cancels) ==
    \A b \in others :
        IF cancels /\ attempt[b] = "CLAIMED" THEN CancelsAttempt(b) ELSE KeepsAttempt(b)
SlotsFollow(slotsOf, cancels) ==
    \A q \in slotsOf :
        obs'[q] = IF cancels /\ obs[q] = "PENDING" /\ ~Crossed(Tables, q)
                  THEN "CANCELLED" ELSE obs[q]

\* The submitted attempt a ends in a status, its slot in an outcome.
ConcludesSlot(a, status, outcome, cancels) ==
    /\ attempt[a] = "SUBMITTED" /\ attempt'[a] = status
    /\ status \in {"SUCCEEDED", "RETRYABLE_FAILURE", "TERMINAL_FAILURE",
                   "UNKNOWN_RECONCILIATION"}
    /\ outcome \notin {"NONE", "PENDING"}
    /\ obs'[Point(a)] = IF obs[Point(a)] = "PENDING" THEN outcome ELSE obs[Point(a)]
    /\ OthersFollow(Attempts \ {a}, cancels)
    /\ SlotsFollow(Points \ {Point(a)}, cancels)

\* What the books of attempt a say afterwards.
BooksFollow(a, status) ==
    /\ \A b \in Attempts \ {a} : result'[b] = result[b] /\ charged'[b] = charged[b]
    /\ IF status = "UNKNOWN_RECONCILIATION"
       THEN ledger'[a] = ledger[a] /\ budget'[a] = budget[a]
       ELSE \/ ledger'[a] = "SETTLED" /\ budget'[a] # "RESERVED"
            \/ ledger'[a] = "RESERVED" /\ budget'[a] = "SPENT"
    /\ status = "RETRYABLE_FAILURE" => result'[a] # "NONE"

AnswerFollows(a, status, outcome) ==
    /\ result'[a] = "INCIDENT" => cycle' = "BUDGET_BLOCKED" /\ stopped'
    /\ status = "UNKNOWN_RECONCILIATION" => outcome = "UNKNOWN"
    /\ outcome = "VALID" => /\ status = "SUCCEEDED" /\ result'[a] = "OK"
                            /\ ledger'[a] = "SETTLED" /\ charged'[a] <= 1

\* What the cycle becomes: blocked, held for reconciliation, the same, or handed
\* over with nothing left to do.
CycleFollows(cancels) ==
    \/ cancels /\ cycle' = "BUDGET_BLOCKED" /\ stopped' = TRUE
    \/ /\ cancels /\ cycle' = "UNKNOWN_RECONCILIATION" /\ UNCHANGED stopped
       /\ cycle \notin ClosedStatus
    \/ /\ ~cancels /\ UNCHANGED <<cycle, stopped>>
       /\ cycle \in ClosedStatus \/ \A p \in Points : obs'[p] # "UNKNOWN"
    \/ /\ ~cancels /\ cycle' \in VerdictStatus /\ UNCHANGED stopped
       /\ cycle \notin ClosedStatus
       /\ \A p \in Points : obs'[p] \notin {"PENDING", "UNKNOWN"}
       /\ cycle' = "QC_REQUIRED" => \A p \in Points : obs'[p] \notin {"INVALID", "BLOCKED"}

-----------------------------------------------------------------------------
(* A conclusion keeps what the tables say of one another.                   *)

LEMMA ConclusionInSequence ==
    ASSUME TypeOK, TablesInv, NEW a \in Attempts, NEW status, NEW outcome, NEW cancels,
           ConcludesSlot(a, status, outcome, cancels), BooksFollow(a, status)
    PROVE  AttemptsInSequence'
<1> SUFFICES ASSUME NEW b \in Attempts, NEW c \in Attempts, Point(b) = Point(c),
                    Index(b) < Index(c), attempt'[c] # "NONE"
             PROVE  attempt'[b] = "RETRYABLE_FAILURE" /\ result'[b] # "NONE"
  BY DEF AttemptsInSequence
<1>1. attempt[c] # "NONE"
  BY DEF ConcludesSlot, OthersFollow, CancelsAttempt, KeepsAttempt
<1>2. attempt[b] = "RETRYABLE_FAILURE" /\ result[b] # "NONE"
  BY <1>1 DEF TablesInv, AttemptsInSequence
<1>3. QED
  BY <1>2 DEF ConcludesSlot, OthersFollow, KeepsAttempt, BooksFollow

LEMMA ConclusionPending ==
    ASSUME TypeOK, TablesInv, NEW a \in Attempts, NEW status, NEW outcome,
           NEW cancels \in BOOLEAN, ConcludesSlot(a, status, outcome, cancels)
    PROVE  PendingMeansLive'
<1> SUFFICES ASSUME NEW p \in Points
             PROVE  obs'[p] = "PENDING"
                    <=> \E b \in Attempts : Point(b) = p /\ attempt'[b] \in Live
  BY AttemptsOfPoint DEF PendingMeansLive
<1>1. obs[p] = "PENDING" <=> \E b \in Attempts : Point(b) = p /\ attempt[b] \in Live
  BY AttemptsOfPoint DEF TablesInv, PendingMeansLive
<1>2. CASE p = Point(a)
  <2>1. obs'[p] # "PENDING"
    BY <1>2 DEF ConcludesSlot
  <2>2. \A b \in Attempts \ {a} : Point(b) = p => attempt'[b] \notin Live
    BY <1>2, AloneAtPoint
       DEF TablesInv, ConcludesSlot, OthersFollow, KeepsAttempt, CancelsAttempt, Live
  <2>3. QED
    BY <2>1, <2>2 DEF ConcludesSlot, Live
<1>3. CASE p # Point(a)
  <2>1. \A b \in Attempts : Point(b) = p =>
          attempt'[b] = IF cancels /\ attempt[b] = "CLAIMED"
                        THEN "CANCELLED_NO_CALL" ELSE attempt[b]
    BY <1>3 DEF ConcludesSlot, OthersFollow, CancelsAttempt, KeepsAttempt
  <2>2. obs'[p] = IF cancels /\ obs[p] = "PENDING" /\ ~Crossed(Tables, p)
                  THEN "CANCELLED" ELSE obs[p]
    BY <1>3 DEF ConcludesSlot, SlotsFollow
  <2>3. Crossed(Tables, p) <=>
          \E b \in Attempts : /\ Point(b) = p
                              /\ attempt[b] \in {"SUBMITTED", "UNKNOWN_RECONCILIATION"}
    BY AttemptsOfPoint DEF Crossed, Tables
  <2>4. obs[p] = "PENDING" =>
          ~\E b \in Attempts : Point(b) = p /\ attempt[b] = "UNKNOWN_RECONCILIATION"
    BY DEF TablesInv, UnknownIsSeen
  <2>5. CASE cancels
    BY <1>1, <2>1, <2>2, <2>3, <2>4, <2>5 DEF Live
  <2>6. CASE ~cancels
    BY <1>1, <2>1, <2>2, <2>6 DEF Live
  <2>7. QED
    BY <2>5, <2>6
<1>4. QED
  BY <1>2, <1>3
LEMMA ConclusionQuiet ==
    ASSUME TypeOK, TablesInv, NEW a \in Attempts, NEW status, NEW outcome,
           NEW cancels \in BOOLEAN, ConcludesSlot(a, status, outcome, cancels),
           CycleFollows(cancels), PendingMeansLive'
    PROVE  QuietWhenClosed'
<1> SUFFICES ASSUME NEW b \in Attempts, attempt'[b] = "CLAIMED" PROVE Executable'
  BY DEF QuietWhenClosed
<1>1. attempt[b] = "CLAIMED" /\ ~cancels
  BY DEF ConcludesSlot, OthersFollow, KeepsAttempt, CancelsAttempt
<1>2. Executable
  BY <1>1 DEF TablesInv, QuietWhenClosed
<1>3. Point(b) \in Points /\ obs'[Point(b)] = "PENDING"
  BY AttemptsOfPoint, AttemptParts DEF PendingMeansLive, Live
<1>4. QED
  BY <1>1, <1>2, <1>3 DEF CycleFollows, Executable

LEMMA ConclusionBooks ==
    ASSUME TypeOK, TypeOK', TablesInv, NEW a \in Attempts, NEW status, NEW outcome,
           NEW cancels \in BOOLEAN, ConcludesSlot(a, status, outcome, cancels),
           BooksFollow(a, status), CycleFollows(cancels)
    PROVE  BooksAgree'
<1>1. \A b \in Attempts : BooksOf(b)
  BY BooksByStatus DEF TablesInv
<1>2. cycle # "STOPPED"
  BY DEF TablesInv, StoppedIsUnknown, ConcludesSlot
<1> SUFFICES ASSUME NEW b \in Attempts PROVE BooksOf(b)'
  BY NextBooksByStatus
<1>3. CASE b = a
  BY <1>1, <1>2, <1>3 DEF BooksOf, ConcludesSlot, BooksFollow, Live
<1>4. CASE b # a
  BY <1>1, <1>2, <1>4
     DEF BooksOf, ConcludesSlot, OthersFollow, KeepsAttempt, CancelsAttempt, Live
<1>5. QED
  BY <1>3, <1>4

LEMMA ConclusionHeld ==
    ASSUME TypeOK, TablesInv, NEW a \in Attempts, NEW status, NEW outcome,
           NEW cancels \in BOOLEAN, ConcludesSlot(a, status, outcome, cancels),
           BooksFollow(a, status), AnswerFollows(a, status, outcome), CycleFollows(cancels)
    PROVE  /\ IncidentBlocks' /\ UnknownIsHeld' /\ VerdictIsSettled' /\ CreatedIsEmpty'
           /\ StoppedIsUnknown' /\ StoppedIsClosed' /\ UnknownIsSeen'
<1>1. cycle \notin {"STOPPED", "CREATED"}
  BY DEF TablesInv, StoppedIsUnknown, CreatedIsEmpty, ConcludesSlot
<1>2. cycle \notin VerdictStatus /\ obs[Point(a)] = "PENDING"
  BY AttemptsOfPoint, AttemptParts
     DEF TablesInv, PendingMeansLive, VerdictIsSettled, Live, ConcludesSlot
<1>3. \A p \in Points : obs'[p] # "NONE"
  BY <1>1 DEF TablesInv, CreatedIsEmpty, ConcludesSlot, SlotsFollow
<1>4. IncidentBlocks'
  BY DEF TablesInv, IncidentBlocks, BooksFollow, AnswerFollows, CycleFollows, ClosedStatus
<1>5. UnknownIsSeen'
  <2> SUFFICES ASSUME NEW b \in Attempts, attempt'[b] = "UNKNOWN_RECONCILIATION"
               PROVE  obs'[Point(b)] = "UNKNOWN"
    BY DEF UnknownIsSeen
  <2>1. CASE b = a
    BY <1>2, <2>1 DEF ConcludesSlot, AnswerFollows
  <2>2. CASE b # a
    <3>1. obs[Point(b)] = "UNKNOWN" /\ Point(b) \in Points
      BY <2>2, AttemptParts
         DEF TablesInv, UnknownIsSeen, ConcludesSlot, OthersFollow, KeepsAttempt, CancelsAttempt
    <3>2. QED
      BY <3>1 DEF ConcludesSlot, SlotsFollow
  <2>3. QED
    BY <2>1, <2>2
<1>6. UnknownIsHeld'
  BY <1>5, AttemptParts DEF UnknownIsHeld, UnknownIsSeen, CycleFollows, ClosedStatus
<1>7. VerdictIsSettled'
  BY <1>2, <1>3 DEF VerdictIsSettled, CycleFollows, VerdictStatus
<1>8. cycle' \notin {"STOPPED", "CREATED"}
  BY <1>1 DEF CycleFollows, VerdictStatus
<1>9. CreatedIsEmpty' /\ StoppedIsUnknown'
  BY <1>3, <1>8 DEF CreatedIsEmpty, StoppedIsUnknown
<1>10. StoppedIsClosed'
  BY DEF TablesInv, StoppedIsClosed, CycleFollows, ClosedStatus
<1>11. QED
  BY <1>4, <1>5, <1>6, <1>7, <1>9, <1>10

\* A conclusion keeps everything the tables say of one another.
LEMMA ConclusionTables ==
    ASSUME TypeOK, TypeOK', TablesInv, NEW a \in Attempts, NEW status, NEW outcome,
           NEW cancels \in BOOLEAN, ConcludesSlot(a, status, outcome, cancels),
           BooksFollow(a, status), AnswerFollows(a, status, outcome), CycleFollows(cancels)
    PROVE  TablesInv'
BY ConclusionInSequence, ConclusionPending, ConclusionQuiet, ConclusionBooks, ConclusionHeld
   DEF TablesInv

\* It keeps the evidence, if the attempt it concludes was called.
LEMMA ConclusionEvidence ==
    ASSUME TypeOK, EvidenceIsPaidFor, NEW a \in Attempts, NEW status, NEW outcome,
           NEW cancels \in BOOLEAN, ConcludesSlot(a, status, outcome, cancels),
           BooksFollow(a, status), AnswerFollows(a, status, outcome),
           UNCHANGED calls, outcome = "VALID" => calls[a] = 1
    PROVE  EvidenceIsPaidFor'
<1> SUFFICES ASSUME NEW p \in Points, obs'[p] = "VALID"
             PROVE  \E b \in Attempts :
                      /\ Point(b) = p
                      /\ attempt'[b] = "SUCCEEDED" /\ result'[b] = "OK" /\ calls'[b] = 1
                      /\ ledger'[b] = "SETTLED" /\ charged'[b] <= 1
  BY AttemptsOfPoint DEF EvidenceIsPaidFor
<1>1. CASE obs[p] = "VALID"
  <2>1. PICK b \in Attempts :
          /\ Point(b) = p
          /\ attempt[b] = "SUCCEEDED" /\ result[b] = "OK" /\ calls[b] = 1
          /\ ledger[b] = "SETTLED" /\ charged[b] <= 1
    BY <1>1, AttemptsOfPoint DEF EvidenceIsPaidFor
  <2>2. b # a /\ KeepsAttempt(b)
    BY <2>1 DEF ConcludesSlot, OthersFollow
  <2>3. QED
    BY <2>1, <2>2 DEF KeepsAttempt, BooksFollow
<1>2. CASE obs[p] # "VALID"
  <2>1. p = Point(a) /\ outcome = "VALID"
    BY <1>2 DEF ConcludesSlot, SlotsFollow
  <2>2. QED
    BY <2>1 DEF ConcludesSlot, AnswerFollows
<1>3. QED
  BY <1>1, <1>2
-----------------------------------------------------------------------------
(* The other transactions.                                                  *)

\* Attempt a fails and the next attempt of its point takes over.
RetriesSlot(a) ==
    /\ Index(a) < MaxAttempts
    /\ attempt[a] = "SUBMITTED" /\ attempt'[a] = "RETRYABLE_FAILURE"
    /\ attempt'[NextAttempt(a)] = "CLAIMED"
    /\ budget'[NextAttempt(a)] = "RESERVED" /\ ledger'[NextAttempt(a)] = "RESERVED"
    /\ OthersFollow(Attempts \ {a, NextAttempt(a)}, FALSE)
    /\ Executable /\ UNCHANGED <<control, obs>>
    /\ result'[a] = "OK"

LEMMA NextIsAttempt ==
    ASSUME NEW a \in Attempts, Index(a) < MaxAttempts
    PROVE  /\ NextAttempt(a) \in Attempts /\ NextAttempt(a) # a
           /\ Point(NextAttempt(a)) = Point(a) /\ Index(NextAttempt(a)) = Index(a) + 1
<1>1. Index(a) \in Nat /\ MaxAttempts \in Nat /\ Index(a) >= 1
  BY AttemptParts, GridAssumption
<1>2. Point(NextAttempt(a)) = Point(a) /\ Index(NextAttempt(a)) = Index(a) + 1
  BY DEF NextAttempt, Point, Index
<1>3. NextAttempt(a) \in Attempts
  BY <1>1, AttemptParts DEF NextAttempt, Attempts
<1>4. QED
  BY <1>1, <1>2, <1>3

LEMMA RetryInSequence ==
    ASSUME TypeOK, TablesInv, NEW a \in Attempts, RetriesSlot(a),
           BooksFollow(a, "RETRYABLE_FAILURE")
    PROVE  /\ attempt[NextAttempt(a)] = "NONE"
           /\ AttemptsInSequence'
<1> DEFINE n == NextAttempt(a)
<1>1. n \in Attempts /\ n # a /\ Point(n) = Point(a) /\ Index(n) = Index(a) + 1
  BY NextIsAttempt DEF RetriesSlot
<1>2. Index(a) \in Int
  BY AttemptParts, GridAssumption
<1> HIDE DEF n
<1>3. attempt[n] = "NONE"
  BY <1>1, <1>2 DEF TablesInv, AttemptsInSequence, RetriesSlot
<1>4. ASSUME NEW b \in Attempts, NEW c \in Attempts, Point(b) = Point(c),
             Index(b) < Index(c), attempt'[c] # "NONE"
      PROVE  attempt'[b] = "RETRYABLE_FAILURE" /\ result'[b] # "NONE"
  <2>1. Index(b) \in Int /\ Index(c) \in Int
    BY AttemptParts, GridAssumption
  <2>2. CASE c = n /\ b = a
    BY <2>2 DEF RetriesSlot, BooksFollow
  <2>3. CASE c = n /\ b # a
    <3>1. Index(b) < Index(a)
      BY <1>1, <1>2, <1>4, <2>1, <2>3, IndexesDiffer
    <3>2. attempt[b] = "RETRYABLE_FAILURE" /\ result[b] # "NONE" /\ b # n
      BY <1>1, <1>3, <1>4, <2>3, <3>1 DEF TablesInv, AttemptsInSequence, RetriesSlot
    <3>3. QED
      BY <2>3, <3>2 DEF RetriesSlot, n, OthersFollow, KeepsAttempt, BooksFollow
  <2>4. CASE c # n
    <3>1. attempt[c] # "NONE"
      BY <1>4, <2>4 DEF RetriesSlot, n, OthersFollow, KeepsAttempt
    <3>2. attempt[b] = "RETRYABLE_FAILURE" /\ result[b] # "NONE"
      BY <1>4, <3>1 DEF TablesInv, AttemptsInSequence
    <3>3. b # a /\ b # n
      BY <1>3, <3>2 DEF RetriesSlot
    <3>4. QED
      BY <3>2, <3>3 DEF RetriesSlot, n, OthersFollow, KeepsAttempt, BooksFollow
  <2>5. QED
    BY <2>2, <2>3, <2>4
<1>5. QED
  BY <1>3, <1>4 DEF n, AttemptsInSequence

\* A retry keeps everything the tables say of one another.
LEMMA RetryTables ==
    ASSUME TypeOK, TypeOK', TablesInv, NEW a \in Attempts, RetriesSlot(a),
           BooksFollow(a, "RETRYABLE_FAILURE")
    PROVE  TablesInv'
<1> DEFINE n == NextAttempt(a)
<1>1. n \in Attempts /\ n # a /\ Point(n) = Point(a) /\ attempt[n] = "NONE"
  BY NextIsAttempt, RetryInSequence DEF RetriesSlot
<1>2. \A b \in Attempts \ {a, n} : KeepsAttempt(b)
  BY DEF RetriesSlot, OthersFollow
<1>3. attempt'[n] = "CLAIMED" /\ budget'[n] = "RESERVED" /\ ledger'[n] = "RESERVED"
  BY DEF RetriesSlot
<1> HIDE DEF n
<1>4. PendingMeansLive'
  <2>1. \A b \in Attempts : attempt[b] \in Live /\ b # a => attempt'[b] \in Live
    BY <1>1, <1>2 DEF KeepsAttempt, Live
  <2>2. \A b \in Attempts : attempt'[b] \in Live /\ b # n => attempt[b] \in Live
    BY <1>2 DEF RetriesSlot, KeepsAttempt, Live
  <2>3. attempt[a] \in Live /\ attempt'[n] \in Live
    BY <1>3 DEF RetriesSlot, Live
  <2>4. QED
    BY <1>1, <2>1, <2>2, <2>3, AttemptsOfPoint DEF TablesInv, PendingMeansLive, RetriesSlot
<1>5. QuietWhenClosed'
  BY DEF QuietWhenClosed, RetriesSlot, Executable, control
<1>6. BooksAgree'
  <2>1. \A b \in Attempts : BooksOf(b)
    BY BooksByStatus DEF TablesInv
  <2> SUFFICES ASSUME NEW b \in Attempts PROVE BooksOf(b)'
    BY NextBooksByStatus
  <2>2. CASE b = n
    BY <1>3, <2>2 DEF BooksOf, Live
  <2>3. CASE b = a
    BY <2>1, <2>3 DEF BooksOf, RetriesSlot, BooksFollow, Live
  <2>4. CASE b \notin {a, n}
    BY <1>2, <2>1, <2>4 DEF BooksOf, KeepsAttempt, RetriesSlot, control, Live
  <2>5. QED
    BY <2>2, <2>3, <2>4
<1>7. IncidentBlocks'
  BY DEF TablesInv, IncidentBlocks, RetriesSlot, BooksFollow, control
<1>8. UnknownIsHeld' /\ UnknownIsSeen'
  BY <1>2, <1>3 DEF TablesInv, UnknownIsHeld, UnknownIsSeen, RetriesSlot, KeepsAttempt, control
<1>9. VerdictIsSettled' /\ StoppedIsClosed'
  BY DEF TablesInv, VerdictIsSettled, StoppedIsClosed, RetriesSlot, control
<1>10. CreatedIsEmpty' /\ StoppedIsUnknown'
  BY DEF TablesInv, CreatedIsEmpty, StoppedIsUnknown, RetriesSlot, control, Executable,
         ExecutableStatus
<1>11. QED
  BY <1>4, <1>5, <1>6, <1>7, <1>8, <1>9, <1>10, RetryInSequence DEF TablesInv
\* Evidence stays paid for where no slot becomes valid and no succeeded attempt
\* changes.
LEMMA EvidenceKept ==
    ASSUME EvidenceIsPaidFor,
           \A p \in Points : obs'[p] = "VALID" => obs[p] = "VALID",
           \A b \in Attempts : attempt[b] = "SUCCEEDED" =>
              /\ KeepsAttempt(b) /\ result'[b] = result[b]
              /\ charged'[b] = charged[b] /\ calls'[b] = calls[b]
    PROVE  EvidenceIsPaidFor'
<1> SUFFICES ASSUME NEW p \in Points, obs[p] = "VALID"
             PROVE  \E b \in Attempts :
                      /\ Point(b) = p
                      /\ attempt'[b] = "SUCCEEDED" /\ result'[b] = "OK" /\ calls'[b] = 1
                      /\ ledger'[b] = "SETTLED" /\ charged'[b] <= 1
  BY AttemptsOfPoint DEF EvidenceIsPaidFor
<1>1. PICK b \in Attempts :
        /\ Point(b) = p
        /\ attempt[b] = "SUCCEEDED" /\ result[b] = "OK" /\ calls[b] = 1
        /\ ledger[b] = "SETTLED" /\ charged[b] <= 1
  BY AttemptsOfPoint DEF EvidenceIsPaidFor
<1>2. QED
  BY <1>1 DEF KeepsAttempt

LEMMA RetryEvidence ==
    ASSUME TypeOK, TablesInv, EvidenceIsPaidFor, NEW a \in Attempts, RetriesSlot(a),
           BooksFollow(a, "RETRYABLE_FAILURE"), UNCHANGED calls
    PROVE  EvidenceIsPaidFor'
<1>1. attempt[NextAttempt(a)] = "NONE" /\ NextAttempt(a) \in Attempts
  BY RetryInSequence, NextIsAttempt DEF RetriesSlot
<1>2. QED
  BY <1>1, EvidenceKept DEF RetriesSlot, OthersFollow, BooksFollow

\* A cancellation of everything that was not called.
LEMMA CancellationTables ==
    ASSUME TypeOK, TypeOK', TablesInv, OthersFollow(Attempts, TRUE),
           SlotsFollow(Points, TRUE), UNCHANGED <<control, result>>
    PROVE  TablesInv'
<1>1. \A b \in Attempts : attempt'[b] = IF attempt[b] = "CLAIMED"
                                       THEN "CANCELLED_NO_CALL" ELSE attempt[b]
  BY DEF OthersFollow, CancelsAttempt, KeepsAttempt
<1>2. \A p \in Points : obs'[p] = IF obs[p] = "PENDING" /\ ~Crossed(Tables, p)
                                 THEN "CANCELLED" ELSE obs[p]
  BY DEF SlotsFollow
<1>3. AttemptsInSequence'
  BY <1>1 DEF TablesInv, AttemptsInSequence
<1>4. PendingMeansLive'
  <2> SUFFICES ASSUME NEW p \in Points
               PROVE  obs'[p] = "PENDING"
                      <=> \E b \in Attempts : Point(b) = p /\ attempt'[b] \in Live
    BY AttemptsOfPoint DEF PendingMeansLive
  <2>1. obs[p] = "PENDING" <=> \E b \in Attempts : Point(b) = p /\ attempt[b] \in Live
    BY AttemptsOfPoint DEF TablesInv, PendingMeansLive
  <2>2. Crossed(Tables, p) <=>
          \E b \in Attempts : /\ Point(b) = p
                              /\ attempt[b] \in {"SUBMITTED", "UNKNOWN_RECONCILIATION"}
    BY AttemptsOfPoint DEF Crossed, Tables
  <2>3. obs[p] = "PENDING" =>
          ~\E b \in Attempts : Point(b) = p /\ attempt[b] = "UNKNOWN_RECONCILIATION"
    BY DEF TablesInv, UnknownIsSeen
  <2>4. QED
    BY <1>1, <1>2, <2>1, <2>2, <2>3 DEF Live
<1>5. QuietWhenClosed'
  BY <1>1 DEF QuietWhenClosed
<1>6. BooksAgree'
  <2>1. \A b \in Attempts : BooksOf(b)
    BY BooksByStatus DEF TablesInv
  <2> SUFFICES ASSUME NEW b \in Attempts PROVE BooksOf(b)'
    BY NextBooksByStatus
  <2>2. QED
    BY <2>1 DEF BooksOf, OthersFollow, CancelsAttempt, KeepsAttempt, Live, control
<1>7. IncidentBlocks'
  BY DEF TablesInv, IncidentBlocks, control
<1>8. UnknownIsHeld' /\ UnknownIsSeen'
  BY <1>1, <1>2, AttemptParts DEF TablesInv, UnknownIsHeld, UnknownIsSeen, control
<1>9. VerdictIsSettled' /\ StoppedIsClosed'
  BY <1>2 DEF TablesInv, VerdictIsSettled, StoppedIsClosed, control
<1>10. CreatedIsEmpty' /\ StoppedIsUnknown'
  BY <1>1, <1>2 DEF TablesInv, CreatedIsEmpty, StoppedIsUnknown, control
<1>11. QED
  BY <1>3, <1>4, <1>5, <1>6, <1>7, <1>8, <1>9, <1>10 DEF TablesInv

\* The submission of a claimed attempt.
LEMMA SubmissionTables ==
    ASSUME TypeOK, TypeOK', TablesInv, NEW a \in Attempts,
           attempt[a] = "CLAIMED", attempt'[a] = "SUBMITTED",
           \A b \in Attempts \ {a} : attempt'[b] = attempt[b],
           UNCHANGED <<control, obs, budget, ledger, result>>
    PROVE  TablesInv'
<1>1. AttemptsInSequence'
  BY DEF TablesInv, AttemptsInSequence
<1>2. PendingMeansLive'
  BY AttemptsOfPoint DEF TablesInv, PendingMeansLive, Live
<1>3. QuietWhenClosed' /\ IncidentBlocks'
  BY DEF TablesInv, QuietWhenClosed, IncidentBlocks, Executable, control
<1>4. BooksAgree'
  <2>1. \A b \in Attempts : BooksOf(b)
    BY BooksByStatus DEF TablesInv
  <2> SUFFICES ASSUME NEW b \in Attempts PROVE BooksOf(b)'
    BY NextBooksByStatus
  <2>2. QED
    BY <2>1 DEF BooksOf, Live, control
<1>5. UnknownIsHeld' /\ UnknownIsSeen' /\ VerdictIsSettled' /\ StoppedIsClosed'
  BY DEF TablesInv, UnknownIsHeld, UnknownIsSeen, VerdictIsSettled, StoppedIsClosed, control
<1>6. CreatedIsEmpty' /\ StoppedIsUnknown'
  BY DEF TablesInv, CreatedIsEmpty, StoppedIsUnknown, control
<1>7. QED
  BY <1>1, <1>2, <1>3, <1>4, <1>5, <1>6 DEF TablesInv

\* Nothing but the outbox, the queue and the processes changes.
LEMMA FrameTables ==
    ASSUME TablesInv, UNCHANGED <<control, obs, attempt, budget, ledger, result>>
    PROVE  TablesInv'
BY DEF TablesInv, AttemptsInSequence, PendingMeansLive, QuietWhenClosed, BooksAgree,
       IncidentBlocks, UnknownIsHeld, VerdictIsSettled, CreatedIsEmpty, StoppedIsUnknown,
       StoppedIsClosed, UnknownIsSeen, Executable, control
\* Approval fills an empty cycle.
LEMMA MaterializeInv ==
    ASSUME TypeOK, TypeOK', TablesInv, Materialize
    PROVE  TablesInv' /\ EvidenceIsPaidFor'
<1> DEFINE planned == IF mode = "CANARY" THEN {<<Center, 1>>} ELSE Points \X {1}
           measured == {Point(a) : a \in planned}
<1>1. /\ \A a \in Attempts : /\ attempt[a] = "NONE"
                              /\ ledger[a] = "NONE" /\ budget[a] = "NONE"
      /\ ~stopped
  <2>1. cycle = "CREATED"
    BY DEF Materialize
  <2>2. \A a \in Attempts : BooksOf(a)
    BY BooksByStatus DEF TablesInv
  <2>3. QED
    BY <2>1, <2>2 DEF TablesInv, CreatedIsEmpty, BooksOf
<1>2. \A a \in Attempts : result[a] # "INCIDENT"
  BY DEF TablesInv, IncidentBlocks, Materialize
<1>3. \A a \in Attempts :
        IF a \in planned
        THEN attempt'[a] = "CLAIMED" /\ budget'[a] = "RESERVED" /\ ledger'[a] = "RESERVED"
        ELSE KeepsAttempt(a)
  BY DEF Materialize, WriteTables, Claimed, Tables, KeepsAttempt
<1>4. \A p \in Points : obs'[p] = IF p \in measured THEN "PENDING" ELSE "BLOCKED"
  BY DEF Materialize, WriteTables
<1>5. cycle' \in ExecutableStatus /\ ~stopped'
  BY <1>1 DEF Materialize, ExecutableStatus
<1>6. UNCHANGED result
  BY DEF Materialize, books
<1>7. /\ planned \subseteq Attempts
      /\ \A a \in planned : Index(a) = 1
      /\ \A p \in Points : p \in measured <=> \E a \in Attempts : Point(a) = p /\ a \in planned
  BY GridAssumption, ModeAssumption DEF Attempts, Point, Index
<1> HIDE DEF planned, measured
<1>8. AttemptsInSequence'
  <2>1. \A a, b \in Attempts : attempt'[b] # "NONE" => ~(Index(a) < Index(b))
    <3> SUFFICES ASSUME NEW a \in Attempts, NEW b \in Attempts, attempt'[b] # "NONE"
                 PROVE  ~(Index(a) < Index(b))
      OBVIOUS
    <3>1. Index(b) = 1
      BY <1>1, <1>3, <1>7 DEF KeepsAttempt
    <3>2. Index(a) \in 1..MaxAttempts /\ MaxAttempts \in Nat
      BY AttemptParts, GridAssumption
    <3>3. QED
      BY <3>1, <3>2
  <2>2. QED
    BY <2>1 DEF AttemptsInSequence
<1>9. PendingMeansLive'
  <2>1. \A a \in Attempts : attempt'[a] \in Live <=> a \in planned
    BY <1>1, <1>3 DEF KeepsAttempt, Live
  <2>2. QED
    BY <1>4, <1>7, <2>1, AttemptsOfPoint DEF PendingMeansLive
<1>10. QuietWhenClosed' /\ IncidentBlocks'
  BY <1>2, <1>5, <1>6 DEF QuietWhenClosed, IncidentBlocks, Executable
<1>11. BooksAgree'
  <2> SUFFICES ASSUME NEW b \in Attempts PROVE BooksOf(b)'
    BY NextBooksByStatus
  <2>1. CASE b \in planned
    BY <1>3, <2>1 DEF BooksOf, Live
  <2>2. CASE b \notin planned
    BY <1>1, <1>3, <2>2 DEF BooksOf, Live, KeepsAttempt
  <2>3. QED
    BY <2>1, <2>2
<1>12. \A a \in Attempts : attempt'[a] \in {"NONE", "CLAIMED"}
  BY <1>1, <1>3 DEF KeepsAttempt
<1>13. UnknownIsHeld' /\ UnknownIsSeen'
  BY <1>12 DEF UnknownIsHeld, UnknownIsSeen
<1>14. VerdictIsSettled' /\ StoppedIsClosed' /\ CreatedIsEmpty' /\ StoppedIsUnknown'
  BY <1>4, <1>5
     DEF VerdictIsSettled, StoppedIsClosed, CreatedIsEmpty, StoppedIsUnknown,
         VerdictStatus, ExecutableStatus
<1>15. EvidenceIsPaidFor'
  BY <1>4 DEF EvidenceIsPaidFor
<1>16. QED
  BY <1>8, <1>9, <1>10, <1>11, <1>13, <1>14, <1>15 DEF TablesInv

\* Reconciliation closes a cycle in which every attempt is unknown.
LEMMA ReconcileInv ==
    ASSUME TypeOK, TypeOK', TablesInv, EvidenceIsPaidFor, ReconcileBilling
    PROVE  TablesInv' /\ EvidenceIsPaidFor'
<1>1. \A a \in Attempts : attempt[a] \in {"NONE", "UNKNOWN_RECONCILIATION"}
  BY DEF ReconcileBilling
<1>2. \A a \in Attempts :
        IF attempt[a] = "NONE" THEN KeepsAttempt(a)
        ELSE attempt'[a] = attempt[a] /\ budget'[a] = "SPENT" /\ ledger'[a] = "SETTLED"
  BY DEF ReconcileBilling, WriteTables, Tables, KeepsAttempt
<1>3. \A p \in Points : obs'[p] = "UNKNOWN"
  BY DEF ReconcileBilling, WriteTables
<1>4. cycle' = "STOPPED" /\ stopped' = TRUE /\ UNCHANGED result
      /\ cycle # "BUDGET_BLOCKED"
  BY DEF ReconcileBilling, ExecutableStatus
<1>5. \A a \in Attempts : attempt'[a] = attempt[a]
  BY <1>2 DEF KeepsAttempt
<1>6. AttemptsInSequence'
  BY <1>4, <1>5 DEF TablesInv, AttemptsInSequence
<1>7. PendingMeansLive' /\ QuietWhenClosed'
  BY <1>1, <1>3, <1>5, AttemptsOfPoint DEF PendingMeansLive, QuietWhenClosed, Live
<1>8. BooksAgree'
  <2>1. \A b \in Attempts : BooksOf(b)
    BY BooksByStatus DEF TablesInv
  <2> SUFFICES ASSUME NEW b \in Attempts PROVE BooksOf(b)'
    BY NextBooksByStatus
  <2>2. CASE attempt[b] = "NONE"
    BY <1>2, <2>1, <2>2 DEF BooksOf, KeepsAttempt, Live
  <2>3. CASE attempt[b] = "UNKNOWN_RECONCILIATION"
    BY <1>2, <1>4, <2>3 DEF BooksOf, Live
  <2>4. QED
    BY <1>1, <2>2, <2>3
<1>9. IncidentBlocks'
  BY <1>4 DEF TablesInv, IncidentBlocks
<1>10. UnknownIsHeld' /\ UnknownIsSeen'
  BY <1>3, <1>4, AttemptParts DEF UnknownIsHeld, UnknownIsSeen, ClosedStatus
<1>11. VerdictIsSettled' /\ StoppedIsClosed' /\ CreatedIsEmpty' /\ StoppedIsUnknown'
  BY <1>1, <1>3, <1>4, <1>5
     DEF VerdictIsSettled, StoppedIsClosed, CreatedIsEmpty, StoppedIsUnknown,
         VerdictStatus, ClosedStatus
<1>12. EvidenceIsPaidFor'
  BY <1>3 DEF EvidenceIsPaidFor
<1>13. QED
  BY <1>6, <1>7, <1>8, <1>9, <1>10, <1>11, <1>12 DEF TablesInv
-----------------------------------------------------------------------------
(* What the operators of the transactions do to each row.                   *)

LEMMA SettledRows ==
    ASSUME TypeOK, NEW w \in Procs, wpc[w] = "finalize"
    PROVE  /\ \A b \in Attempts \ {cur[w]} :
                /\ Settled(w).attempt[b] = attempt[b]
                /\ Settled(w).budget[b] = budget[b] /\ Settled(w).ledger[b] = ledger[b]
           /\ Settled(w).attempt[cur[w]] = StatusAfter(cur[w], reply[w])
           /\ Settled(w).budget[cur[w]] = BudgetAfter(reply[w])
           /\ Settled(w).ledger[cur[w]] = IF reply[w].basis = "actual" THEN "SETTLED"
                                          ELSE ledger[cur[w]]
           /\ Settled(w).obs = obs
BY InHand DEF Settled, Answered, Tables, TypeOK

LEMMA ObservedRows ==
    ASSUME NEW t \in TablesType, NEW p \in Points, NEW outcome
    PROVE  /\ Observed(t, p, outcome).attempt = t.attempt
           /\ Observed(t, p, outcome).budget = t.budget
           /\ Observed(t, p, outcome).ledger = t.ledger
           /\ Observed(t, p, outcome).obs[p] = IF t.obs[p] = "PENDING" THEN outcome ELSE t.obs[p]
           /\ \A q \in Points \ {p} : Observed(t, p, outcome).obs[q] = t.obs[q]
BY DEF TablesType, Observed

LEMMA CancelledRows ==
    ASSUME NEW t \in TablesType
    PROVE  /\ \A b \in Attempts :
                IF t.attempt[b] = "CLAIMED"
                THEN /\ Cancelled(t).attempt[b] = "CANCELLED_NO_CALL"
                     /\ Cancelled(t).budget[b] = "RELEASED"
                     /\ Cancelled(t).ledger[b] = "RELEASED"
                ELSE /\ Cancelled(t).attempt[b] = t.attempt[b]
                     /\ Cancelled(t).budget[b] = t.budget[b]
                     /\ Cancelled(t).ledger[b] = t.ledger[b]
           /\ \A q \in Points :
                Cancelled(t).obs[q] = IF t.obs[q] = "PENDING" /\ ~Crossed(t, q)
                                      THEN "CANCELLED" ELSE t.obs[q]
BY DEF Cancelled, Cancellable

\* Whether another point was crossed does not depend on attempt a.
LEMMA CrossedElsewhere ==
    ASSUME NEW t, NEW a \in Attempts, NEW q \in Points, q # Point(a),
           \A b \in Attempts \ {a} : t.attempt[b] = attempt[b]
    PROVE  Crossed(t, q) <=> Crossed(Tables, q)
BY AttemptsOfPoint DEF Crossed, Tables

\* A point whose submitted attempt has ended, in no doubt, is no longer crossed.
LEMMA UncrossedHere ==
    ASSUME TablesInv, NEW t, NEW a \in Attempts, attempt[a] = "SUBMITTED",
           \A b \in Attempts \ {a} : t.attempt[b] = attempt[b],
           t.attempt[a] \notin {"SUBMITTED", "UNKNOWN_RECONCILIATION"}
    PROVE  ~Crossed(t, Point(a))
<1>1. \A b \in Attempts \ {a} : Point(b) = Point(a) =>
        t.attempt[b] \in {"NONE", "RETRYABLE_FAILURE"}
  BY AloneAtPoint DEF TablesInv
<1>2. QED
  BY <1>1, AttemptsOfPoint, AttemptParts DEF Crossed

LEMMA StatusIsFinal ==
    ASSUME NEW a \in Attempts, NEW r \in Reply
    PROVE  /\ StatusAfter(a, r) \in {"SUCCEEDED", "RETRYABLE_FAILURE", "TERMINAL_FAILURE",
                                     "UNKNOWN_RECONCILIATION"}
           /\ StatusAfter(a, r) = "UNKNOWN_RECONCILIATION" <=> r.event = "OUTCOME_UNKNOWN"
           /\ OutcomeAfter(r) \notin {"NONE", "PENDING"}
           /\ OutcomeAfter(r) = "VALID" => StatusAfter(a, r) = "SUCCEEDED"
           /\ r.event = "OUTCOME_UNKNOWN" => OutcomeAfter(r) = "UNKNOWN"
BY DEF StatusAfter, OutcomeAfter, Reply

\* A submitted attempt's slot is pending.
LEMMA SubmittedIsPending ==
    ASSUME TablesInv, NEW a \in Attempts, attempt[a] = "SUBMITTED"
    PROVE  obs[Point(a)] = "PENDING"
BY AttemptsOfPoint, AttemptParts DEF TablesInv, PendingMeansLive, Live

-----------------------------------------------------------------------------
(* The shapes of the finalisations.                                         *)

\* The rows of the finalised attempt in the ledger.
LedgerFollows(w) ==
    /\ budget'[cur[w]] = BudgetAfter(reply[w])
    /\ ledger'[cur[w]] = IF reply[w].basis = "actual" THEN "SETTLED" ELSE ledger[cur[w]]

\* The slot is closed, and then the rest may be cancelled.
LEMMA CloseShape ==
    ASSUME TypeOK, TablesInv, NEW w \in Procs, Finalizing(w), NEW cancels \in BOOLEAN,
           WriteTables(IF cancels THEN Cancelled(Close(w, Settled(w)))
                       ELSE Close(w, Settled(w)))
    PROVE  /\ ConcludesSlot(cur[w], StatusAfter(cur[w], reply[w]), OutcomeAfter(reply[w]), cancels)
           /\ LedgerFollows(w)
           /\ \A p \in Points : IF cancels
                                THEN Close(w, Settled(w)).obs[p] = "UNKNOWN" => obs'[p] = "UNKNOWN"
                                ELSE Close(w, Settled(w)).obs[p] = obs'[p]
<1> DEFINE a == cur[w]
           r == reply[w]
           t == Close(w, Settled(w))
<1>1. /\ a \in Attempts /\ r \in Reply /\ Point(a) \in Points
      /\ wpc[w] = "finalize" /\ attempt[a] = "SUBMITTED" /\ obs[Point(a)] = "PENDING"
  BY InHand, SubmittedIsPending DEF Finalizing
<1>2. t \in TablesType /\ Settled(w) \in TablesType
  BY <1>1, SettledTyped
<1>3. /\ \A b \in Attempts \ {a} : /\ t.attempt[b] = attempt[b]
                                   /\ t.budget[b] = budget[b] /\ t.ledger[b] = ledger[b]
      /\ t.attempt[a] = StatusAfter(a, r) /\ t.budget[a] = BudgetAfter(r)
      /\ t.ledger[a] = IF r.basis = "actual" THEN "SETTLED" ELSE ledger[a]
      /\ t.obs[Point(a)] = OutcomeAfter(r)
      /\ \A q \in Points \ {Point(a)} : t.obs[q] = obs[q]
  BY <1>1, <1>2, SettledRows, ObservedRows DEF Close
<1>4. \A q \in Points \ {Point(a)} : Crossed(t, q) <=> Crossed(Tables, q)
  BY <1>1, <1>3, CrossedElsewhere
<1>5. /\ t.attempt[a] # "CLAIMED" /\ t.obs[Point(a)] # "PENDING"
      /\ StatusAfter(a, r) \in {"SUCCEEDED", "RETRYABLE_FAILURE", "TERMINAL_FAILURE",
                                "UNKNOWN_RECONCILIATION"}
      /\ OutcomeAfter(r) \notin {"NONE", "PENDING"}
  BY <1>1, <1>3, StatusIsFinal
<1> HIDE DEF t, a, r
<1>6. CASE cancels
  <2>1. WriteTables(Cancelled(t))
    BY <1>6 DEF t
  <2>2. /\ attempt' = Cancelled(t).attempt /\ budget' = Cancelled(t).budget
        /\ ledger' = Cancelled(t).ledger /\ obs' = Cancelled(t).obs
    BY <2>1 DEF WriteTables
  <2>3. OthersFollow(Attempts \ {a}, cancels) /\ attempt'[a] = StatusAfter(a, r)
    BY <1>1, <1>2, <1>3, <1>5, <1>6, <2>2, CancelledRows
       DEF OthersFollow, CancelsAttempt, KeepsAttempt
  <2>4. SlotsFollow(Points \ {Point(a)}, cancels) /\ obs'[Point(a)] = OutcomeAfter(r)
    BY <1>1, <1>2, <1>3, <1>4, <1>5, <1>6, <2>2, CancelledRows DEF SlotsFollow
  <2>5. budget'[a] = BudgetAfter(r) /\ ledger'[a] = t.ledger[a]
    BY <1>1, <1>2, <1>3, <1>5, <2>2, CancelledRows
  <2>6. \A p \in Points : t.obs[p] = "UNKNOWN" => obs'[p] = "UNKNOWN"
    BY <1>2, <2>2, CancelledRows
  <2>7. QED
    BY <1>1, <1>3, <1>5, <1>6, <2>3, <2>4, <2>5, <2>6 DEF ConcludesSlot, LedgerFollows, a, r, t
<1>7. CASE ~cancels
  <2>1. /\ attempt' = t.attempt /\ budget' = t.budget
        /\ ledger' = t.ledger /\ obs' = t.obs
    BY <1>7 DEF WriteTables, t
  <2>2. OthersFollow(Attempts \ {a}, cancels) /\ SlotsFollow(Points \ {Point(a)}, cancels)
    BY <1>3, <1>7, <2>1 DEF OthersFollow, SlotsFollow, KeepsAttempt
  <2>3. QED
    BY <1>1, <1>3, <1>5, <1>7, <2>1, <2>2 DEF ConcludesSlot, LedgerFollows, a, r, t
<1>8. QED
  BY <1>6, <1>7
\* Everything is cancelled first; the slot itself, pending and no longer crossed,
\* is cancelled with the rest, and closing it changes nothing any more.
LEMMA CancelShape ==
    ASSUME TypeOK, TablesInv, NEW w \in Procs, Finalizing(w),
           reply[w].event # "OUTCOME_UNKNOWN",
           \/ WriteTables(Cancelled(Settled(w)))
           \/ WriteTables(Close(w, Cancelled(Settled(w))))
    PROVE  /\ ConcludesSlot(cur[w], StatusAfter(cur[w], reply[w]), "CANCELLED", TRUE)
           /\ LedgerFollows(w)
<1> DEFINE a == cur[w]
           r == reply[w]
           t == Settled(w)
           c == Cancelled(t)
<1>1. /\ a \in Attempts /\ r \in Reply /\ Point(a) \in Points
      /\ wpc[w] = "finalize" /\ attempt[a] = "SUBMITTED" /\ obs[Point(a)] = "PENDING"
  BY InHand, SubmittedIsPending DEF Finalizing
<1>2. t \in TablesType /\ c \in TablesType
  BY <1>1, SettledTyped
<1>3. /\ \A b \in Attempts \ {a} : /\ t.attempt[b] = attempt[b]
                                   /\ t.budget[b] = budget[b] /\ t.ledger[b] = ledger[b]
      /\ t.attempt[a] = StatusAfter(a, r) /\ t.budget[a] = BudgetAfter(r)
      /\ t.ledger[a] = IF r.basis = "actual" THEN "SETTLED" ELSE ledger[a]
      /\ t.obs = obs
  BY <1>1, SettledRows
<1>4. StatusAfter(a, r) \in {"SUCCEEDED", "RETRYABLE_FAILURE", "TERMINAL_FAILURE"}
  BY <1>1, StatusIsFinal
<1>5. ~Crossed(t, Point(a)) /\ \A q \in Points \ {Point(a)} : Crossed(t, q) <=> Crossed(Tables, q)
  <2> HIDE DEF t, a, r
  <2>1. t.attempt[a] \notin {"SUBMITTED", "UNKNOWN_RECONCILIATION"}
    BY <1>3, <1>4
  <2>2. QED
    BY <1>1, <1>3, <2>1, UncrossedHere, CrossedElsewhere
<1>6. /\ attempt' = c.attempt /\ budget' = c.budget /\ ledger' = c.ledger
      /\ \A q \in Points : obs'[q] = c.obs[q]
  <2> HIDE DEF c
  <2>1. CASE WriteTables(c)
    BY <2>1 DEF WriteTables
  <2>2. CASE WriteTables(Close(w, c))
    <3>1. c.obs[Point(a)] # "PENDING"
      BY <1>1, <1>2, <1>3, <1>5, CancelledRows DEF c
    <3>2. QED
      BY <1>1, <1>2, <2>2, <3>1, ObservedRows DEF WriteTables, Close
  <2>3. QED
    BY <2>1, <2>2 DEF c
<1> HIDE DEF t, a, r
<1>7. OthersFollow(Attempts \ {a}, TRUE) /\ attempt'[a] = StatusAfter(a, r)
  BY <1>1, <1>2, <1>3, <1>4, <1>6, CancelledRows DEF OthersFollow, CancelsAttempt, KeepsAttempt
<1>8. SlotsFollow(Points \ {Point(a)}, TRUE) /\ obs'[Point(a)] = "CANCELLED"
  BY <1>1, <1>2, <1>3, <1>5, <1>6, CancelledRows DEF SlotsFollow
<1>9. budget'[a] = BudgetAfter(r) /\ ledger'[a] = t.ledger[a]
  BY <1>1, <1>2, <1>3, <1>4, <1>6, CancelledRows
<1>10. QED
  BY <1>1, <1>3, <1>4, <1>7, <1>8, <1>9 DEF ConcludesSlot, LedgerFollows, a, r

\* A doubt holds the attempt and its slot, and cancels what was not called.
LEMMA UnknownShape ==
    ASSUME TypeOK, TablesInv, NEW w \in Procs, UnknownMarked(w)
    PROVE  /\ cur[w] \in Attempts
           /\ ConcludesSlot(cur[w], "UNKNOWN_RECONCILIATION", "UNKNOWN", TRUE)
           /\ budget'[cur[w]] = budget[cur[w]] /\ ledger'[cur[w]] = ledger[cur[w]]
<1> DEFINE a == cur[w]
           crossed == [Tables EXCEPT !.attempt[a] = "UNKNOWN_RECONCILIATION"]
           t == Observed(crossed, Point(a), "UNKNOWN")
<1>1. /\ a \in Attempts /\ attempt[a] = "SUBMITTED" /\ Point(a) \in Points
      /\ obs[Point(a)] = "PENDING"
  BY SubmittedIsPending, AttemptParts DEF UnknownMarked, TypeOK
<1>2. crossed \in TablesType
  BY <1>1, TablesTyped DEF TablesType, AttemptStatus
<1>3. t \in TablesType
  BY <1>1, <1>2, ObservedTyped DEF Outcome
<1>4. /\ \A b \in Attempts \ {a} : crossed.attempt[b] = attempt[b]
      /\ crossed.attempt[a] = "UNKNOWN_RECONCILIATION"
      /\ crossed.budget = budget /\ crossed.ledger = ledger /\ crossed.obs = obs
  BY <1>1 DEF Tables, TypeOK
<1>5. WriteTables(Cancelled(t))
  BY DEF UnknownMarked
<1> HIDE DEF crossed
<1>6. /\ \A b \in Attempts \ {a} : t.attempt[b] = attempt[b]
      /\ t.attempt[a] = "UNKNOWN_RECONCILIATION"
      /\ t.budget = budget /\ t.ledger = ledger
      /\ t.obs[Point(a)] = "UNKNOWN"
      /\ \A q \in Points \ {Point(a)} : t.obs[q] = obs[q]
  BY <1>1, <1>2, <1>4, ObservedRows
<1> HIDE DEF t
<1>7. \A q \in Points \ {Point(a)} : Crossed(t, q) <=> Crossed(Tables, q)
  BY <1>1, <1>6, CrossedElsewhere
<1>8. /\ attempt' = Cancelled(t).attempt /\ budget' = Cancelled(t).budget
      /\ ledger' = Cancelled(t).ledger /\ obs' = Cancelled(t).obs
  BY <1>5 DEF WriteTables
<1>9. OthersFollow(Attempts \ {a}, TRUE) /\ attempt'[a] = "UNKNOWN_RECONCILIATION"
  BY <1>1, <1>3, <1>6, <1>8, CancelledRows DEF OthersFollow, CancelsAttempt, KeepsAttempt
<1>10. SlotsFollow(Points \ {Point(a)}, TRUE) /\ obs'[Point(a)] = "UNKNOWN"
  BY <1>1, <1>3, <1>6, <1>7, <1>8, CancelledRows DEF SlotsFollow
<1>11. budget'[a] = budget[a] /\ ledger'[a] = ledger[a]
  BY <1>1, <1>3, <1>6, <1>8, CancelledRows
<1>12. QED
  BY <1>1, <1>9, <1>10, <1>11 DEF ConcludesSlot

\* What a receipt writes beside the tables.
LEMMA ReceiptRows ==
    ASSUME TypeOK, TablesInv, NEW w \in Procs, Finalizing(w), NEW t, Receipt(w, t),
           LedgerFollows(w)
    PROVE  /\ BooksFollow(cur[w], StatusAfter(cur[w], reply[w]))
           /\ result'[cur[w]] = IF Incident(reply[w]) THEN "INCIDENT" ELSE "OK"
           /\ ~Incident(reply[w]) => charged'[cur[w]] <= 1 \/ reply[w].basis # "actual"
<1> DEFINE a == cur[w]
           r == reply[w]
<1>1. a \in Attempts /\ r \in Reply /\ attempt[a] = "SUBMITTED"
  BY InHand DEF Finalizing
<1>2. /\ \A b \in Attempts \ {a} : result'[b] = result[b] /\ charged'[b] = charged[b]
      /\ result'[a] = IF Incident(r) THEN "INCIDENT" ELSE "OK"
      /\ r.basis = "actual" => charged'[a] = r.cost
  BY <1>1 DEF Receipt, TypeOK
<1>3. ledger[a] = "RESERVED" /\ budget[a] = "RESERVED"
  BY <1>1, BooksByStatus DEF TablesInv, BooksOf, Live
<1>4. IF StatusAfter(a, r) = "UNKNOWN_RECONCILIATION"
      THEN ledger'[a] = ledger[a] /\ budget'[a] = budget[a]
      ELSE \/ ledger'[a] = "SETTLED" /\ budget'[a] # "RESERVED"
           \/ ledger'[a] = "RESERVED" /\ budget'[a] = "SPENT"
  <2>1. CASE r.event = "OUTCOME_UNKNOWN"
    BY <1>1, <1>3, <2>1, StatusIsFinal DEF LedgerFollows, BudgetAfter, Reply
  <2>2. CASE r.event # "OUTCOME_UNKNOWN"
    BY <1>1, <1>3, <2>2, StatusIsFinal DEF LedgerFollows, BudgetAfter, Reply
  <2>3. QED
    BY <2>1, <2>2
<1>5. ~Incident(r) => charged'[a] <= 1 \/ r.basis # "actual"
  BY <1>1, <1>2 DEF Incident, Reply
<1> HIDE DEF a, r
<1>6. QED
  BY <1>2, <1>4, <1>5 DEF BooksFollow, a, r
-----------------------------------------------------------------------------
(* What the processes know.                                                 *)

\* A job that ends, or goes to its doubt, and the tables it leaves: only its own
\* attempt leaves SUBMITTED, nothing goes back to a status before its call.
LEMMA JobLeaves ==
    ASSUME TypeOK, ProcessInv, NEW w \in Procs,
           \A v \in Procs \ {w} : wpc'[v] = wpc[v] /\ cur'[v] = cur[v],
           wpc'[w] = "idle" \/ (wpc'[w] = "unknown" /\ cur'[w] = cur[w]),
           wpc'[w] = "unknown" =>
              wpc[w] \in Owning /\ attempt'[cur[w]] \notin {"NONE", "CLAIMED"},
           UNCHANGED calls,
           \A b \in Attempts : attempt[b] = "SUBMITTED" =>
              attempt'[b] = "SUBMITTED" \/ (b = cur[w] /\ wpc[w] \in Owning \cup {"unknown"}),
           \A b \in Attempts : attempt'[b] \in {"NONE", "CLAIMED", "CANCELLED_NO_CALL"} =>
              attempt[b] \in {"NONE", "CLAIMED", "CANCELLED_NO_CALL"},
           \A b \in Attempts : attempt'[b] \in {"NONE", "CLAIMED"} =>
              attempt[b] = attempt'[b] \/ attempt[b] = "NONE"
    PROVE  ProcessInv'
<1>1. CalledWasSubmitted' /\ \A a \in Attempts : calls'[a] <= 1
  BY DEF ProcessInv, CalledWasSubmitted
<1>2. \A v \in Procs : wpc[v] # "idle" => cur[v] \in Attempts
  BY DEF TypeOK
<1>3. DoubtedWasSubmitted'
  BY <1>2 DEF ProcessInv, DoubtedWasSubmitted, Owning
<1>4. JobOwnsAttempt'
  <2> SUFFICES ASSUME NEW u \in Procs, wpc'[u] \in Owning
               PROVE  /\ attempt'[cur'[u]] = "SUBMITTED"
                      /\ calls'[cur'[u]] = IF wpc'[u] = "submitted" THEN 0 ELSE 1
                      /\ \A v \in Procs \ {u} :
                           wpc'[v] \in Owning \cup {"unknown"} => cur'[v] # cur'[u]
    BY DEF JobOwnsAttempt
  <2>1. u # w /\ wpc[u] = wpc'[u] /\ cur[u] = cur'[u] /\ cur[u] \in Attempts
    BY <1>2 DEF Owning
  <2>2. /\ attempt[cur[u]] = "SUBMITTED"
        /\ calls[cur[u]] = IF wpc[u] = "submitted" THEN 0 ELSE 1
        /\ \A v \in Procs \ {u} : wpc[v] \in Owning \cup {"unknown"} => cur[v] # cur[u]
    BY <2>1 DEF ProcessInv, JobOwnsAttempt
  <2>3. attempt'[cur[u]] = "SUBMITTED"
    BY <2>1, <2>2
  <2>4. QED
    BY <2>1, <2>2, <2>3 DEF Owning
<1>5. QED
  BY <1>1, <1>3, <1>4 DEF ProcessInv

\* A change of the tables alone: missing attempts are claimed.
LEMMA ProcessesStay ==
    ASSUME TypeOK, ProcessInv, UNCHANGED <<wpc, cur, calls>>,
           \A b \in Attempts : attempt'[b] = attempt[b]
                              \/ (attempt[b] = "NONE" /\ attempt'[b] = "CLAIMED")
    PROVE  ProcessInv'
<1>1. \A v \in Procs : wpc[v] # "idle" => cur[v] \in Attempts
  BY DEF TypeOK
<1>2. CalledWasSubmitted' /\ \A a \in Attempts : calls'[a] <= 1
  BY DEF ProcessInv, CalledWasSubmitted
<1>3. DoubtedWasSubmitted'
  BY <1>1 DEF ProcessInv, DoubtedWasSubmitted
<1>4. JobOwnsAttempt'
  BY <1>1 DEF ProcessInv, JobOwnsAttempt, Owning
<1>5. QED
  BY <1>2, <1>3, <1>4 DEF ProcessInv

\* What a step leaves: a concluded slot, and a stopped cycle.
ConcludedStays ==
    \A p \in Points : obs[p] \notin {"NONE", "PENDING"} => obs'[p] = obs[p]
StoppedStays ==
    stopped => /\ stopped' /\ cycle' = cycle
               /\ \A a \in Attempts : attempt'[a] # attempt[a] => attempt'[a] \notin Live
Keeps == IInv' /\ ConcludedStays /\ StoppedStays

\* How the process of a job looks after its end or its doubt.
LEMMA JobEnds ==
    ASSUME TypeOK, NEW w \in Procs, Finish(w) \/ Doubt(w)
    PROVE  /\ \A v \in Procs \ {w} : wpc'[v] = wpc[v] /\ cur'[v] = cur[v]
           /\ wpc'[w] = "idle" \/ (wpc'[w] = "unknown" /\ cur'[w] = cur[w])
           /\ Finish(w) => wpc'[w] = "idle"
BY DEF TypeOK, Finish, Doubt, Run

\* A job ends, or goes to its doubt after its submission, and writes nothing.
LEMMA QuietEnd ==
    ASSUME IInv, TypeOK', NEW w \in Procs,
           Finish(w) \/ (Doubt(w) /\ wpc[w] \in Owning),
           UNCHANGED <<slots, books, control, calls>>
    PROVE  Keeps
<1>1. UNCHANGED <<obs, attempt, budget, ledger, result, charged, control>>
  BY DEF slots, books
<1>2. TablesInv'
  BY <1>1, FrameTables DEF IInv
<1>3. EvidenceIsPaidFor'
  BY <1>1 DEF IInv, EvidenceIsPaidFor
<1>4. wpc'[w] = "unknown" => wpc[w] \in Owning /\ attempt'[cur[w]] \notin {"NONE", "CLAIMED"}
  BY <1>1, JobEnds DEF IInv, ProcessInv, JobOwnsAttempt
<1>5. TypeOK /\ ProcessInv
  BY DEF IInv
<1>6. ProcessInv'
  BY <1>1, <1>4, <1>5, JobEnds, JobLeaves
<1>7. QED
  BY <1>1, <1>2, <1>3, <1>6 DEF IInv, Keeps, ConcludedStays, StoppedStays, control

\* A conclusion by the job of its attempt keeps the invariant.
LEMMA ConclusionInv ==
    ASSUME IInv, TypeOK', NEW w \in Procs, NEW status, NEW outcome, NEW cancels \in BOOLEAN,
           cur[w] \in Attempts,
           wpc[w] = "finalize" \/ wpc[w] = "unknown",
           Finish(w) \/ (Doubt(w) /\ wpc[w] = "finalize"),
           ConcludesSlot(cur[w], status, outcome, cancels),
           BooksFollow(cur[w], status), AnswerFollows(cur[w], status, outcome),
           CycleFollows(cancels), UNCHANGED calls,
           outcome = "VALID" => wpc[w] = "finalize"
    PROVE  Keeps
<1>1. TypeOK /\ TablesInv /\ ProcessInv /\ EvidenceIsPaidFor
  BY DEF IInv
<1>2. TablesInv'
  BY <1>1, ConclusionTables
<1>3. outcome = "VALID" => calls[cur[w]] = 1
  BY <1>1 DEF ProcessInv, JobOwnsAttempt, Owning
<1>4. EvidenceIsPaidFor'
  BY <1>1, <1>3, ConclusionEvidence
<1>5. \A b \in Attempts :
        /\ attempt[b] = "SUBMITTED" => attempt'[b] = "SUBMITTED" \/ b = cur[w]
        /\ attempt'[b] \in {"NONE", "CLAIMED", "CANCELLED_NO_CALL"} =>
             attempt[b] \in {"NONE", "CLAIMED", "CANCELLED_NO_CALL"}
        /\ attempt'[b] \in {"NONE", "CLAIMED"} => attempt[b] = attempt'[b]
  BY DEF ConcludesSlot, OthersFollow, CancelsAttempt, KeepsAttempt
<1>6. attempt'[cur[w]] \notin {"NONE", "CLAIMED"}
  BY DEF ConcludesSlot
<1>7. ProcessInv'
  BY <1>1, <1>5, <1>6, JobEnds, JobLeaves DEF Owning
<1>8. ConcludedStays
  BY DEF ConcludedStays, ConcludesSlot, SlotsFollow
<1>9. StoppedStays
  <2>1. cycle # "STOPPED" /\ (stopped => cycle \in ClosedStatus)
    BY <1>1 DEF TablesInv, StoppedIsUnknown, StoppedIsClosed, ConcludesSlot
  <2>2. stopped => stopped' /\ cycle' = cycle
    BY <2>1 DEF CycleFollows, ClosedStatus
  <2>3. \A b \in Attempts : attempt'[b] # attempt[b] => attempt'[b] \notin Live
    BY DEF ConcludesSlot, OthersFollow, CancelsAttempt, KeepsAttempt, Live
  <2>4. QED
    BY <2>2, <2>3 DEF StoppedStays
<1>10. QED
  BY <1>2, <1>4, <1>7, <1>8, <1>9 DEF IInv, Keeps
-----------------------------------------------------------------------------
(* Each action keeps the invariant.                                         *)

\* The recount gives the cycle what CycleFollows allows.
LEMMA RecountFollows ==
    ASSUME TypeOK', NEW t, cycle' = Recounted(t), UNCHANGED stopped,
           NEW cancels, cancels = (Recounted(t) = "UNKNOWN_RECONCILIATION"),
           ~cancels => \A p \in Points : t.obs[p] = obs'[p],
           cycle # "CREATED"
    PROVE  CycleFollows(cancels)
<1>1. CASE cycle \in ClosedStatus
  BY <1>1 DEF Recounted, CycleFollows, ClosedStatus
<1>2. CASE cycle \notin ClosedStatus
  <2>1. Recounted(t) = Verdict(t)
    BY <1>2 DEF Recounted
  <2>2. CASE cancels
    BY <1>2, <2>2 DEF CycleFollows
  <2>3. CASE ~cancels
    <3>1. cycle' = KnownVerdict(t) /\ ~Some(t, {"UNKNOWN"})
      BY <2>1, <2>3 DEF Verdict
    <3>2. \A p \in Points : obs'[p] # "UNKNOWN"
      BY <2>3, <3>1 DEF Some
    <3>3. CASE Some(t, {"PENDING"})
      BY <2>3, <3>1, <3>2, <3>3 DEF KnownVerdict, CycleFollows
    <3>4. CASE ~Some(t, {"PENDING"})
      <4>1. \A p \in Points : obs'[p] # "PENDING"
        BY <2>3, <3>4 DEF Some
      <4>2. cycle' \in VerdictStatus
        BY <3>1, <3>4 DEF KnownVerdict, VerdictStatus
      <4>3. cycle' = "QC_REQUIRED" => \A p \in Points : obs'[p] \notin {"INVALID", "BLOCKED"}
        BY <2>3, <3>1, <3>4 DEF KnownVerdict, Some
      <4>4. QED
        BY <1>2, <2>3, <3>2, <4>1, <4>2, <4>3 DEF CycleFollows
    <3>5. QED
      BY <3>3, <3>4
  <2>4. QED
    BY <2>2, <2>3
<1>3. QED
  BY <1>1, <1>2

LEMMA ConcludeInv ==
    ASSUME IInv, TypeOK', NEW w \in Procs, Finalizing(w), ~Incident(reply[w]),
           Conclude(w, Close(w, Settled(w))),
           reply[w].event = "FOUND" => (mode = "PILOT" => reply[w].basis = "actual")
    PROVE  Keeps
<1> DEFINE a == cur[w]
           r == reply[w]
           t == Close(w, Settled(w))
           cancels == Recounted(t) = "UNKNOWN_RECONCILIATION"
<1>1. TypeOK /\ TablesInv
  BY DEF IInv
<1>2. a \in Attempts /\ r \in Reply /\ wpc[w] = "finalize" /\ attempt[a] = "SUBMITTED"
  BY <1>1, InHand DEF Finalizing
<1>3. /\ cycle' = Recounted(t) /\ UNCHANGED stopped
      /\ Receipt(w, IF cancels THEN Cancelled(t) ELSE t)
  BY DEF Conclude
<1>4. WriteTables(IF cancels THEN Cancelled(t) ELSE t) /\ Acknowledged(w) /\ UNCHANGED calls
  BY <1>3 DEF Receipt
<1>5. cancels \in BOOLEAN
  OBVIOUS
<1> HIDE DEF cancels
<1>6. /\ ConcludesSlot(a, StatusAfter(a, r), OutcomeAfter(r), cancels)
      /\ LedgerFollows(w)
      /\ ~cancels => \A p \in Points : t.obs[p] = obs'[p]
  BY <1>1, <1>4, <1>5, CloseShape
<1> HIDE DEF t
<1>7. CycleFollows(cancels)
  <2>1. cycle # "CREATED"
    BY <1>1, <1>2 DEF TablesInv, CreatedIsEmpty
  <2>2. QED
    BY <1>3, <1>6, <2>1, RecountFollows DEF cancels
<1>8. /\ BooksFollow(a, StatusAfter(a, r))
      /\ result'[a] = "OK"
      /\ charged'[a] <= 1 \/ r.basis # "actual"
  BY <1>1, <1>3, <1>6, ReceiptRows
<1>9. AnswerFollows(a, StatusAfter(a, r), OutcomeAfter(r))
  <2>1. OutcomeAfter(r) = "VALID" => r.event = "FOUND" /\ mode = "PILOT"
    BY <1>2 DEF OutcomeAfter, Reply
  <2>2. QED
    BY <1>2, <1>6, <1>8, <2>1, StatusIsFinal DEF AnswerFollows, LedgerFollows
<1>10. Finish(w) \/ Doubt(w)
  BY <1>4 DEF Acknowledged
<1> HIDE DEF a, r
<1>11. QED
  BY <1>2, <1>4, <1>5, <1>6, <1>7, <1>8, <1>9, <1>10, ConclusionInv DEF a, r

\* An incident or a refused retry stops the cycle.
LEMMA StopInv ==
    ASSUME IInv, TypeOK', NEW w \in Procs, Finalizing(w), Stop,
           reply[w].event # "OUTCOME_UNKNOWN", NEW t, Receipt(w, t),
           t = Cancelled(Settled(w)) \/ t = Close(w, Cancelled(Settled(w)))
    PROVE  Keeps
<1> DEFINE a == cur[w]
           r == reply[w]
<1>1. TypeOK /\ TablesInv
  BY DEF IInv
<1>2. a \in Attempts /\ r \in Reply /\ wpc[w] = "finalize"
  BY <1>1, InHand DEF Finalizing
<1>3. WriteTables(t) /\ Acknowledged(w) /\ UNCHANGED calls
  BY DEF Receipt
<1>4. ConcludesSlot(a, StatusAfter(a, r), "CANCELLED", TRUE) /\ LedgerFollows(w)
  BY <1>1, <1>3, CancelShape
<1>5. BooksFollow(a, StatusAfter(a, r))
  BY <1>1, <1>4, ReceiptRows
<1>6. CycleFollows(TRUE)
  BY DEF Stop, CycleFollows
<1>7. AnswerFollows(a, StatusAfter(a, r), "CANCELLED")
  BY <1>2, StatusIsFinal DEF AnswerFollows, Stop
<1>8. Finish(w) \/ Doubt(w)
  BY <1>3 DEF Acknowledged
<1> HIDE DEF a, r
<1>9. QED
  BY <1>2, <1>3, <1>4, <1>5, <1>6, <1>7, <1>8, ConclusionInv DEF a, r

LEMMA FinalizeRetryInv ==
    ASSUME IInv, TypeOK', NEW w \in Procs, FinalizeRetry(w) PROVE Keeps
<1> DEFINE a == cur[w]
           r == reply[w]
           n == NextAttempt(a)
           t == Settled(w)
<1>1. TypeOK /\ TablesInv /\ ProcessInv /\ EvidenceIsPaidFor
  BY DEF IInv
<1>2. /\ Finalizing(w) /\ ~Incident(r) /\ r.event = "RETRYABLE" /\ MayRetry(a)
      /\ Executable /\ Receipt(w, Claimed(t, {n})) /\ UNCHANGED control
  BY DEF FinalizeRetry, Retrying, Answer
<1>3. /\ a \in Attempts /\ r \in Reply /\ wpc[w] = "finalize" /\ attempt[a] = "SUBMITTED"
      /\ StatusAfter(a, r) = "RETRYABLE_FAILURE" /\ Index(a) < MaxAttempts
  BY <1>1, <1>2, InHand DEF Finalizing, StatusAfter, MayRetry
<1>4. t \in TablesType /\ n \in Attempts /\ n # a
  BY <1>1, <1>3, SettledTyped, NextIsAttempt
<1>5. WriteTables(Claimed(t, {n})) /\ Acknowledged(w) /\ UNCHANGED calls
  BY <1>2 DEF Receipt
<1>6. /\ \A b \in Attempts \ {a} : /\ t.attempt[b] = attempt[b]
                                   /\ t.budget[b] = budget[b] /\ t.ledger[b] = ledger[b]
      /\ t.attempt[a] = "RETRYABLE_FAILURE" /\ t.budget[a] = BudgetAfter(r)
      /\ t.ledger[a] = IF r.basis = "actual" THEN "SETTLED" ELSE ledger[a]
      /\ t.obs = obs
  BY <1>1, <1>3, SettledRows
<1> HIDE DEF t
<1>7. \A b \in Attempts :
        IF b = n
        THEN attempt'[b] = "CLAIMED" /\ budget'[b] = "RESERVED" /\ ledger'[b] = "RESERVED"
        ELSE /\ attempt'[b] = t.attempt[b] /\ budget'[b] = t.budget[b]
             /\ ledger'[b] = t.ledger[b]
  BY <1>4, <1>5 DEF WriteTables, Claimed, TablesType
<1>8. UNCHANGED obs
  BY <1>4, <1>5, <1>6 DEF WriteTables, Claimed, TablesType
<1>9. LedgerFollows(w)
  BY <1>3, <1>4, <1>6, <1>7 DEF LedgerFollows
<1>10. BooksFollow(a, "RETRYABLE_FAILURE") /\ result'[a] = "OK"
  BY <1>1, <1>2, <1>3, <1>9, ReceiptRows
<1>11. RetriesSlot(a)
  <2>1. OthersFollow(Attempts \ {a, n}, FALSE)
    BY <1>6, <1>7 DEF OthersFollow, KeepsAttempt
  <2>2. QED
    BY <1>2, <1>3, <1>4, <1>6, <1>7, <1>8, <1>10, <2>1 DEF RetriesSlot
<1>12. TablesInv' /\ EvidenceIsPaidFor'
  BY <1>1, <1>3, <1>5, <1>10, <1>11, RetryTables, RetryEvidence
<1>13. attempt[n] = "NONE"
  BY <1>1, <1>3, <1>10, <1>11, RetryInSequence
<1>14. Finish(w) \/ Doubt(w)
  BY <1>5 DEF Acknowledged
<1> HIDE DEF a, n
<1>15. ProcessInv'
  BY <1>1, <1>3, <1>4, <1>5, <1>6, <1>7, <1>13, <1>14, JobEnds, JobLeaves DEF Owning, a
<1>16. QED
  BY <1>2, <1>8, <1>12, <1>15 DEF IInv, Keeps, ConcludedStays, StoppedStays, Executable

LEMMA FinalizeStepInv ==
    ASSUME IInv, TypeOK', NEW w \in Procs, FinalizeStep(w) PROVE Keeps
<1> USE DEF Answer, Retrying
<1>0. TypeOK
  BY DEF IInv
<1>1. CASE FinalizeIncident(w)
  <2>1. reply[w].event # "OUTCOME_UNKNOWN" /\ Finalizing(w) /\ Stop
    BY <1>0, <1>1, InHand DEF FinalizeIncident, Finalizing, Incident, Reply
  <2>2. PICK t : /\ Receipt(w, t)
                 /\ t = Cancelled(Settled(w)) \/ t = Close(w, Cancelled(Settled(w)))
    BY <1>1 DEF FinalizeIncident
  <2>3. QED
    BY <2>1, <2>2, StopInv
<1>2. CASE FinalizeEvidence(w)
  BY <1>2, ConcludeInv DEF FinalizeEvidence, Acceptable
<1>3. CASE FinalizeRetryClosed(w) \/ FinalizeFailure(w) \/ FinalizeOutcomeUnknown(w)
  BY <1>3, ConcludeInv DEF FinalizeRetryClosed, FinalizeFailure, FinalizeOutcomeUnknown
<1>4. CASE FinalizeRetry(w)
  BY <1>4, FinalizeRetryInv
<1>5. CASE FinalizeRetryRefused(w)
  BY <1>5, StopInv DEF FinalizeRetryRefused
<1>6. CASE FinalizeRejected(w) \/ FinalizeFails(w)
  BY <1>6, QuietEnd DEF FinalizeRejected, FinalizeFails, Finalizing, Owning
<1>7. QED
  BY <1>1, <1>2, <1>3, <1>4, <1>5, <1>6 DEF FinalizeStep
LEMMA AcquireStepInv ==
    ASSUME IInv, TypeOK', NEW w \in Procs, AcquireStep(w) PROVE Keeps
<1>0. TypeOK /\ TablesInv /\ ProcessInv /\ EvidenceIsPaidFor
  BY DEF IInv
<1>1. CASE AcquireNothing(w) \/ AcquireThrows(w)
  BY <1>1, QuietEnd DEF AcquireNothing, AcquireThrows
<1>2. CASE AcquireCancels(w)
  <2>1. /\ attempt' = Cancelled(Tables).attempt /\ budget' = Cancelled(Tables).budget
        /\ ledger' = Cancelled(Tables).ledger /\ obs' = Cancelled(Tables).obs
    BY <1>2 DEF AcquireCancels, WriteTables
  <2>2. UNCHANGED <<control, result, charged, calls>> /\ Finish(w)
    BY <1>2 DEF AcquireCancels, books
  <2>3. Tables \in TablesType
    BY <1>0, TablesTyped
  <2>4. /\ Tables.attempt = attempt /\ Tables.budget = budget
        /\ Tables.ledger = ledger /\ Tables.obs = obs
    BY DEF Tables
  <2>5. OthersFollow(Attempts, TRUE) /\ SlotsFollow(Points, TRUE)
    BY <2>1, <2>3, <2>4, CancelledRows
       DEF OthersFollow, SlotsFollow, CancelsAttempt, KeepsAttempt
  <2>6. TablesInv'
    BY <1>0, <2>2, <2>5, CancellationTables
  <2>7. EvidenceIsPaidFor'
    BY <1>0, <2>2, <2>5, EvidenceKept DEF OthersFollow, SlotsFollow
  <2>8. ProcessInv'
    BY <1>0, <2>2, <2>5, JobEnds, JobLeaves DEF OthersFollow, CancelsAttempt, KeepsAttempt
  <2>9. ConcludedStays /\ StoppedStays
    BY <2>2, <2>5 DEF ConcludedStays, StoppedStays, OthersFollow, SlotsFollow, CancelsAttempt,
                      KeepsAttempt, Live, control
  <2>10. QED
    BY <2>6, <2>7, <2>8, <2>9 DEF IInv, Keeps
<1>3. CASE AcquireSubmits(w)
  <2>1. /\ attempt[cur[w]] = "CLAIMED" /\ cur[w] \in Attempts
        /\ attempt' = [attempt EXCEPT ![cur[w]] = "SUBMITTED"]
        /\ wpc' = [wpc EXCEPT ![w] = "submitted"] /\ wpc[w] = "acquire"
        /\ UNCHANGED <<control, obs, budget, ledger, result, charged, cur, calls>>
    BY <1>0, <1>3 DEF AcquireSubmits, Submit, Acquirable, Run, TypeOK, books
  <2>2. /\ attempt'[cur[w]] = "SUBMITTED"
        /\ \A b \in Attempts \ {cur[w]} : attempt'[b] = attempt[b]
        /\ wpc'[w] = "submitted" /\ \A v \in Procs \ {w} : wpc'[v] = wpc[v]
    BY <1>0, <2>1 DEF TypeOK
  <2>3. TablesInv'
    BY <1>0, <2>1, <2>2, SubmissionTables
  <2>4. EvidenceIsPaidFor'
    BY <1>0, <2>1, <2>2, EvidenceKept DEF KeepsAttempt
  <2>5. \A v \in Procs \ {w} : wpc[v] \in Owning \cup {"unknown"} =>
          cur[v] # cur[w] /\ cur[v] \in Attempts
    BY <1>0, <2>1 DEF TypeOK, ProcessInv, JobOwnsAttempt, DoubtedWasSubmitted, Owning
  <2>6. calls[cur[w]] = 0
    BY <1>0, <2>1 DEF ProcessInv, CalledWasSubmitted
  <2>7. JobOwnsAttempt'
    <3> SUFFICES ASSUME NEW u \in Procs, wpc'[u] \in Owning
                 PROVE  /\ attempt'[cur'[u]] = "SUBMITTED"
                        /\ calls'[cur'[u]] = IF wpc'[u] = "submitted" THEN 0 ELSE 1
                        /\ \A v \in Procs \ {u} :
                             wpc'[v] \in Owning \cup {"unknown"} => cur'[v] # cur'[u]
      BY DEF JobOwnsAttempt
    <3>1. CASE u = w
      BY <2>1, <2>2, <2>5, <2>6, <3>1
    <3>2. CASE u # w
      BY <1>0, <2>1, <2>2, <2>5, <3>2 DEF ProcessInv, JobOwnsAttempt
    <3>3. QED
      BY <3>1, <3>2
  <2>8. CalledWasSubmitted' /\ \A a \in Attempts : calls'[a] <= 1
    BY <1>0, <2>1, <2>2 DEF ProcessInv, CalledWasSubmitted
  <2>9. DoubtedWasSubmitted'
    BY <1>0, <2>1, <2>2, <2>5 DEF ProcessInv, DoubtedWasSubmitted
  <2>10. ~stopped
    BY <1>3 DEF AcquireSubmits, Submit, StopRequested
  <2>11. QED
    BY <2>1, <2>3, <2>4, <2>7, <2>8, <2>9, <2>10
       DEF IInv, ProcessInv, Keeps, ConcludedStays, StoppedStays
<1>4. CASE AcquireUnacknowledged(w)
  <2>1. /\ attempt[cur[w]] = "CLAIMED" /\ cur[w] \in Attempts
        /\ attempt' = [attempt EXCEPT ![cur[w]] = "SUBMITTED"]
        /\ Finish(w) /\ wpc[w] = "acquire" /\ ~stopped
        /\ UNCHANGED <<control, obs, budget, ledger, result, charged, calls>>
    BY <1>0, <1>4 DEF AcquireUnacknowledged, Submit, Acquirable, StopRequested, TypeOK, books
  <2>2. /\ attempt'[cur[w]] = "SUBMITTED"
        /\ \A b \in Attempts \ {cur[w]} : attempt'[b] = attempt[b]
        /\ wpc'[w] = "idle"
        /\ \A v \in Procs \ {w} : wpc'[v] = wpc[v] /\ cur'[v] = cur[v]
    BY <1>0, <2>1 DEF TypeOK, Finish, Run
  <2>3. TablesInv'
    BY <1>0, <2>1, <2>2, SubmissionTables
  <2>4. EvidenceIsPaidFor'
    BY <1>0, <2>1, <2>2, EvidenceKept DEF KeepsAttempt
  <2>5. \A v \in Procs \ {w} : wpc[v] \in Owning \cup {"unknown"} =>
          cur[v] # cur[w] /\ cur[v] \in Attempts
    BY <1>0, <2>1 DEF TypeOK, ProcessInv, JobOwnsAttempt, DoubtedWasSubmitted, Owning
  <2>6. JobOwnsAttempt'
    BY <1>0, <2>1, <2>2, <2>5 DEF ProcessInv, JobOwnsAttempt, Owning
  <2>7. CalledWasSubmitted' /\ \A a \in Attempts : calls'[a] <= 1
    BY <1>0, <2>1, <2>2 DEF ProcessInv, CalledWasSubmitted
  <2>8. DoubtedWasSubmitted'
    BY <1>0, <2>1, <2>2, <2>5 DEF ProcessInv, DoubtedWasSubmitted
  <2>9. QED
    BY <2>1, <2>3, <2>4, <2>6, <2>7, <2>8
       DEF IInv, ProcessInv, Keeps, ConcludedStays, StoppedStays
<1>5. QED
  BY <1>1, <1>2, <1>3, <1>4 DEF AcquireStep

LEMMA CallStepInv ==
    ASSUME IInv, TypeOK', NEW w \in Procs, CallStep(w) PROVE Keeps
<1>0. TypeOK /\ TablesInv /\ ProcessInv /\ EvidenceIsPaidFor
  BY DEF IInv
<1>1. CASE SnapshotDropped(w) \/ DispatchedLate(w) \/ ProviderFails(w)
  BY <1>1, QuietEnd DEF SnapshotDropped, DispatchedLate, ProviderFails, Owning
<1>2. CASE CallProvider(w)
  <2>1. /\ wpc[w] = "submitted" /\ wpc' = [wpc EXCEPT ![w] = "called"]
        /\ calls' = [calls EXCEPT ![cur[w]] = @ + 1] /\ cur[w] \in Attempts
        /\ UNCHANGED <<control, obs, attempt, budget, ledger, result, charged, cur>>
    BY <1>0, <1>2 DEF CallProvider, Run, TypeOK, slots, books
  <2>2. /\ wpc'[w] = "called" /\ \A v \in Procs \ {w} : wpc'[v] = wpc[v]
        /\ \A b \in Attempts \ {cur[w]} : calls'[b] = calls[b]
        /\ calls'[cur[w]] = 1 /\ attempt[cur[w]] = "SUBMITTED"
        /\ \A v \in Procs \ {w} : wpc[v] \in Owning \cup {"unknown"} => cur[v] # cur[w]
    BY <1>0, <2>1 DEF TypeOK, ProcessInv, JobOwnsAttempt, Owning
  <2>3. TablesInv'
    BY <1>0, <2>1, FrameTables
  <2>4. EvidenceIsPaidFor'
    BY <1>0, <2>1, <2>2, EvidenceKept DEF KeepsAttempt
  <2>5. JobOwnsAttempt'
    <3> SUFFICES ASSUME NEW u \in Procs, wpc'[u] \in Owning
                 PROVE  /\ attempt'[cur'[u]] = "SUBMITTED"
                        /\ calls'[cur'[u]] = IF wpc'[u] = "submitted" THEN 0 ELSE 1
                        /\ \A v \in Procs \ {u} :
                             wpc'[v] \in Owning \cup {"unknown"} => cur'[v] # cur'[u]
      BY DEF JobOwnsAttempt
    <3>1. CASE u = w
      BY <2>1, <2>2, <3>1
    <3>2. CASE u # w
      <4>1. wpc[u] \in Owning /\ cur[u] # cur[w] /\ cur[u] \in Attempts
        BY <1>0, <2>2, <3>2 DEF TypeOK, Owning
      <4>2. /\ attempt[cur[u]] = "SUBMITTED"
            /\ calls[cur[u]] = IF wpc[u] = "submitted" THEN 0 ELSE 1
            /\ \A v \in Procs \ {u} : wpc[v] \in Owning \cup {"unknown"} => cur[v] # cur[u]
        BY <1>0, <4>1 DEF ProcessInv, JobOwnsAttempt
      <4>3. QED
        BY <2>1, <2>2, <3>2, <4>1, <4>2
    <3>3. QED
      BY <3>1, <3>2
  <2>6. CalledWasSubmitted' /\ \A a \in Attempts : calls'[a] <= 1
    BY <1>0, <2>1, <2>2 DEF ProcessInv, CalledWasSubmitted
  <2>7. DoubtedWasSubmitted'
    BY <1>0, <2>1, <2>2 DEF ProcessInv, DoubtedWasSubmitted
  <2>8. QED
    BY <2>1, <2>3, <2>4, <2>5, <2>6, <2>7
       DEF IInv, ProcessInv, Keeps, ConcludedStays, StoppedStays, control
<1>3. ASSUME NEW r \in Replies, ProviderAnswers(w, r) PROVE Keeps
  <2>1. /\ wpc[w] = "called" /\ wpc' = [wpc EXCEPT ![w] = "finalize"]
        /\ UNCHANGED <<control, obs, attempt, budget, ledger, result, charged, cur, calls>>
    BY <1>3 DEF ProviderAnswers, Run, slots, books
  <2>2. \A v \in Procs : /\ wpc'[v] \in Owning <=> wpc[v] \in Owning
                         /\ wpc'[v] = "submitted" <=> wpc[v] = "submitted"
                         /\ wpc'[v] = "unknown" <=> wpc[v] = "unknown"
    BY <1>0, <2>1 DEF TypeOK, Owning
  <2>3. TablesInv'
    BY <1>0, <2>1, FrameTables
  <2>4. ProcessInv'
    BY <1>0, <2>1, <2>2 DEF ProcessInv, JobOwnsAttempt, CalledWasSubmitted, DoubtedWasSubmitted
  <2>5. EvidenceIsPaidFor'
    BY <1>0, <2>1 DEF EvidenceIsPaidFor
  <2>6. QED
    BY <2>1, <2>3, <2>4, <2>5 DEF IInv, Keeps, ConcludedStays, StoppedStays, control
<1>4. QED
  BY <1>1, <1>2, <1>3 DEF CallStep

LEMMA UnknownStepInv ==
    ASSUME IInv, TypeOK', NEW w \in Procs, UnknownStep(w) PROVE Keeps
<1>0. TypeOK /\ TablesInv
  BY DEF IInv
<1>1. CASE UnknownAlreadyFinal(w) \/ UnknownRejected(w)
  BY <1>1, QuietEnd DEF UnknownAlreadyFinal, UnknownRejected
<1>2. CASE UnknownMarked(w)
  <2> DEFINE a == cur[w]
  <2>1. /\ a \in Attempts
        /\ ConcludesSlot(a, "UNKNOWN_RECONCILIATION", "UNKNOWN", TRUE)
        /\ budget'[a] = budget[a] /\ ledger'[a] = ledger[a]
    BY <1>0, <1>2, UnknownShape
  <2>2. /\ wpc[w] = "unknown" /\ attempt[a] = "SUBMITTED" /\ cycle # "BUDGET_BLOCKED"
        /\ cycle' = "UNKNOWN_RECONCILIATION" /\ Finish(w)
        /\ UNCHANGED <<result, charged, stopped, calls>>
    BY <1>2 DEF UnknownMarked, books
  <2>3. BooksFollow(a, "UNKNOWN_RECONCILIATION")
    BY <2>1, <2>2 DEF BooksFollow
  <2>4. AnswerFollows(a, "UNKNOWN_RECONCILIATION", "UNKNOWN")
    BY <1>0, <2>1, <2>2 DEF AnswerFollows, TablesInv, IncidentBlocks
  <2>5. CycleFollows(TRUE)
    BY <1>0, <2>1, <2>2 DEF CycleFollows, TablesInv, StoppedIsUnknown, ClosedStatus
  <2> HIDE DEF a
  <2>6. QED
    BY <2>1, <2>2, <2>3, <2>4, <2>5, ConclusionInv DEF a
<1>3. QED
  BY <1>1, <1>2 DEF UnknownStep

\* Steps around the tables: dispatcher, queue, switches, clock, cap.
LEMMA AroundInv ==
    ASSUME IInv, TypeOK', UNCHANGED <<control, obs, attempt, budget, ledger, books, wpc, cur, calls>>
    PROVE  Keeps
<1>1. UNCHANGED <<result, charged>> /\ TypeOK /\ TablesInv /\ ProcessInv /\ EvidenceIsPaidFor
  BY DEF books, IInv
<1>2. TablesInv'
  BY <1>1, FrameTables
<1>3. ProcessInv'
  BY <1>1, ProcessesStay
<1>4. EvidenceIsPaidFor'
  BY <1>1 DEF EvidenceIsPaidFor
<1>5. QED
  BY <1>2, <1>3, <1>4 DEF IInv, Keeps, ConcludedStays, StoppedStays, control
\* A job starts with an attempt of the queue; it owns nothing yet.
LEMMA FetchInv ==
    ASSUME IInv, TypeOK', NEW w \in Procs, NEW a \in Attempts, FetchJob(w, a) PROVE Keeps
<1>1. TypeOK /\ TablesInv /\ ProcessInv /\ EvidenceIsPaidFor
  BY DEF IInv
<1>2. /\ wpc'[w] = "acquire" /\ \A v \in Procs \ {w} : wpc'[v] = wpc[v] /\ cur'[v] = cur[v]
      /\ UNCHANGED <<control, obs, attempt, budget, ledger, result, charged, calls>>
  BY <1>1 DEF FetchJob, Run, TypeOK, slots, books
<1>3. TablesInv' /\ EvidenceIsPaidFor'
  BY <1>1, <1>2, FrameTables DEF EvidenceIsPaidFor
<1>4. ProcessInv'
  BY <1>1, <1>2
     DEF ProcessInv, JobOwnsAttempt, CalledWasSubmitted, DoubtedWasSubmitted, Owning
<1>5. QED
  BY <1>2, <1>3, <1>4 DEF IInv, Keeps, ConcludedStays, StoppedStays, control

LEMMA EveryStepKeeps == IInv /\ [Next]_vars => Keeps
<1> SUFFICES ASSUME IInv, [Next]_vars PROVE Keeps
  OBVIOUS
<1>0. TypeOK /\ TypeOK' /\ TablesInv /\ ProcessInv /\ EvidenceIsPaidFor
  BY TypeStep DEF IInv
<1> USE DEF slots, working
<1>1. CASE Materialize
  <2>1. TablesInv' /\ EvidenceIsPaidFor'
    BY <1>0, <1>1, MaterializeInv
  <2>2. \A b \in Attempts : attempt[b] = "NONE"
    BY <1>0, <1>1 DEF Materialize, TablesInv, CreatedIsEmpty
  <2>3. \A b \in Attempts : attempt'[b] \in {"NONE", "CLAIMED"}
    BY <2>2 , <1>1 DEF Materialize, WriteTables, Claimed, Tables
  <2>4. ProcessInv'
    BY <1>0, <1>1, <2>2, <2>3, ProcessesStay DEF Materialize
  <2>5. ConcludedStays /\ StoppedStays
    BY <1>0, <1>1
       DEF ConcludedStays, StoppedStays, Materialize, TablesInv, CreatedIsEmpty
  <2>6. QED
    BY <1>0, <2>1, <2>4, <2>5 DEF IInv, Keeps
<1>2. ASSUME NEW d \in Dispatchers, Dispatch(d) PROVE Keeps
  BY <1>0, <1>2, AroundInv
     DEF Dispatch, ClaimRows, ReturnExpired, CheckRow, SkipRow, FinishRound, SendJob,
         SendFails, MarkEnqueued, LeaseLost, untouchedByDispatch
<1>3. ASSUME NEW a \in Attempts, LeaseExpires(a) PROVE Keeps
  BY <1>0, <1>3, AroundInv DEF LeaseExpires, untouchedByDispatch
<1>4. ASSUME NEW w \in Procs, NEW a \in Attempts, FetchJob(w, a) PROVE Keeps
  BY <1>0, <1>4, FetchInv
<1>5. ASSUME NEW w \in Procs, Job(w) PROVE Keeps
  BY <1>0, <1>5, AcquireStepInv, CallStepInv, FinalizeStepInv, UnknownStepInv DEF Job
<1>6. ASSUME NEW w \in Procs, Crash(w) PROVE Keeps
  BY <1>0, <1>6, QuietEnd DEF Crash
<1>7. ASSUME NEW w \in Procs, Redeploy(w) PROVE Keeps
  BY <1>0, <1>7, AroundInv DEF Redeploy
<1>8. CASE ReconcileBilling
  <2>1. TablesInv' /\ EvidenceIsPaidFor'
    BY <1>0, <1>8, ReconcileInv
  <2>2. attempt' = attempt /\ UNCHANGED <<wpc, cur, calls>>
    BY <1>8 DEF ReconcileBilling, WriteTables, Tables
  <2>3. ProcessInv'
    BY <1>0, <2>2, ProcessesStay
  <2>4. ConcludedStays
    BY <1>8 DEF ConcludedStays, ReconcileBilling, WriteTables
  <2>5. StoppedStays
    BY <1>0, <1>8, <2>2
       DEF StoppedStays, ReconcileBilling, TablesInv, StoppedIsClosed, ClosedStatus,
           ExecutableStatus
  <2>6. QED
    BY <1>0, <2>1, <2>3, <2>4, <2>5 DEF IInv, Keeps
<1>9. CASE WindowCloses
  BY <1>0, <1>9, AroundInv DEF WindowCloses
<1>10. ASSUME NEW amount \in Caps, SetCap(amount) PROVE Keeps
  BY <1>0, <1>10, AroundInv DEF SetCap
<1>11. CASE UNCHANGED vars
  BY <1>0, <1>11, AroundInv DEF vars
<1>12. QED
  BY <1>1, <1>2, <1>3, <1>4, <1>5, <1>6, <1>7, <1>8, <1>9, <1>10, <1>11 DEF Next

LEMMA IInvStep == IInv /\ [Next]_vars => IInv'
BY EveryStepKeeps DEF Keeps

\* The inductive invariant.
THEOREM InvariantHolds == Spec => []IInv
BY IInvInit, IInvStep, PTL DEF Spec

-----------------------------------------------------------------------------
(* The theorems.                                                            *)

LEMMA IInvCalls == IInv => AtMostOneCall
<1> SUFFICES ASSUME IInv, NEW a \in Attempts
             PROVE  calls[a] <= 1 /\ (calls[a] = 1 => ledger[a] \in {"RESERVED", "SETTLED"})
  BY DEF AtMostOneCall
<1>1. TypeOK /\ BooksOf(a) /\ calls[a] <= 1
  BY BooksByStatus DEF IInv, TablesInv, ProcessInv
<1>2. calls[a] = 1 => attempt[a] \notin {"NONE", "CLAIMED", "CANCELLED_NO_CALL"}
  BY DEF IInv, ProcessInv, CalledWasSubmitted
<1>3. QED
  BY <1>1, <1>2 DEF BooksOf, TypeOK, AttemptStatus, Live

\* No duplicate job, lost lease, crash or lost acknowledgement calls the provider
\* twice for one attempt, and what may have been called keeps its money.
THEOREM CalledOnce == Spec => []AtMostOneCall
BY InvariantHolds, IInvCalls, PTL

\* Past the acquisition a job is alone with its attempt.
THEOREM JobsOwnAttempts == Spec => []JobOwnsAttempt
<1>1. IInv => JobOwnsAttempt
  BY DEF IInv, ProcessInv
<1>2. QED
  BY <1>1, InvariantHolds, PTL

\* An observation is pending exactly while one of its attempts works for it.
THEOREM SlotsAreWorkedOn == Spec => []PendingMeansLive
<1>1. IInv => PendingMeansLive
  BY DEF IInv, TablesInv
<1>2. QED
  BY <1>1, InvariantHolds, PTL

\* A retry exists only after its predecessors failed with a receipt.
THEOREM RetriesFollow == Spec => []AttemptsInSequence
<1>1. IInv => AttemptsInSequence
  BY DEF IInv, TablesInv
<1>2. QED
  BY <1>1, InvariantHolds, PTL

\* A closed cycle has nothing left to submit.
THEOREM ClosedCyclesAreQuiet == Spec => []QuietWhenClosed
<1>1. IInv => QuietWhenClosed
  BY DEF IInv, TablesInv
<1>2. QED
  BY <1>1, InvariantHolds, PTL

\* Attempt, budget state and ledger row agree after every transaction.
THEOREM BooksAlwaysAgree == Spec => []BooksAgree
<1>1. IInv => BooksAgree
  BY DEF IInv, TablesInv
<1>2. QED
  BY <1>1, InvariantHolds, PTL

\* A cycle is handed over only when everything in it is known.
THEOREM VerdictsAreSettled == Spec => []VerdictIsSettled
<1>1. IInv => VerdictIsSettled
  BY DEF IInv, TablesInv
<1>2. QED
  BY <1>1, InvariantHolds, PTL

\* An unknown attempt holds its cycle.
THEOREM UnknownsAreHeld == Spec => []UnknownIsHeld
<1>1. IInv => UnknownIsHeld
  BY DEF IInv, TablesInv
<1>2. QED
  BY <1>1, InvariantHolds, PTL

\* A charge above the reservation blocks the cycle for good.
THEOREM IncidentsBlock == Spec => []IncidentBlocks
<1>1. IInv => IncidentBlocks
  BY DEF IInv, TablesInv
<1>2. QED
  BY <1>1, InvariantHolds, PTL

\* A customer's measurement has been called once and settled within its price.
THEOREM EvidencePaid == Spec => []EvidenceIsPaidFor
<1>1. IInv => EvidenceIsPaidFor
  BY DEF IInv
<1>2. QED
  BY <1>1, InvariantHolds, PTL

\* A concluded observation is never concluded again or cancelled.
THEOREM OutcomesFinal == Spec => OutcomesAreFinal
<1>1. IInv /\ [Next]_vars =>
        [\A p \in Points : obs[p] \notin {"NONE", "PENDING"} => obs'[p] = obs[p]]_vars
  BY EveryStepKeeps DEF Keeps, ConcludedStays
<1>2. QED
  BY <1>1, InvariantHolds, PTL DEF Spec, OutcomesAreFinal

\* Nothing reopens a stopped cycle or submits an attempt in it.
THEOREM StopFinal == Spec => StopIsFinal
<1>1. IInv /\ [Next]_vars =>
        [stopped => /\ stopped' /\ cycle' = cycle
                    /\ \A a \in Attempts : attempt'[a] # attempt[a]
                                           => attempt'[a] \notin Live]_vars
  BY EveryStepKeeps DEF Keeps, StoppedStays
<1>2. QED
  BY <1>1, InvariantHolds, PTL DEF Spec, StopIsFinal

-----------------------------------------------------------------------------
(* The refinement of PaidCall.                                              *)

\* What a transaction may do to the ledger row of attempt b.
MoneyLeaves(b) ==
    \/ ledger'[b] = ledger[b]
    \/ ledger[b] = "RESERVED" /\ ledger'[b] = "SETTLED"
    \/ ledger[b] = "RESERVED" /\ ledger'[b] = "RELEASED" /\ calls[b] = 0
MoneyMoves(b) == MoneyLeaves(b) \/ (ledger[b] = "NONE" /\ ledger'[b] = "RESERVED")

LEMMA MoneyIsPaid ==
    ASSUME NEW b \in Attempts, MoneyMoves(b), UNCHANGED calls
    PROVE  Paid(b)!Step
BY DEF MoneyMoves, MoneyLeaves, Paid!Step, Paid!Next, Paid!Promise, Paid!Settle, Paid!GiveBack

\* A claimed attempt was never called, and is given back whole.
LEMMA OthersArePaid ==
    ASSUME IInv, NEW others \in SUBSET Attempts, NEW cancels, OthersFollow(others, cancels)
    PROVE  \A b \in others : MoneyLeaves(b)
<1>1. \A b \in Attempts : attempt[b] = "CLAIMED" => ledger[b] = "RESERVED" /\ calls[b] = 0
  BY BooksByStatus DEF IInv, TablesInv, BooksOf, Live, ProcessInv, CalledWasSubmitted
<1>2. QED
  BY <1>1 DEF OthersFollow, CancelsAttempt, KeepsAttempt, MoneyLeaves

\* A submitted attempt holds its reservation until its answer settles it.
LEMMA SubmittedIsReserved ==
    ASSUME IInv, NEW a \in Attempts, attempt[a] = "SUBMITTED"
    PROVE  ledger[a] = "RESERVED"
BY BooksByStatus DEF IInv, TablesInv, BooksOf, Live

LEMMA AnswerIsPaid ==
    ASSUME IInv, NEW w \in Procs, Finalizing(w), LedgerFollows(w)
    PROVE  cur[w] \in Attempts /\ MoneyLeaves(cur[w])
<1>1. cur[w] \in Attempts /\ attempt[cur[w]] = "SUBMITTED"
  BY InHand DEF IInv, Finalizing
<1>2. QED
  BY <1>1, SubmittedIsReserved DEF LedgerFollows, MoneyLeaves

\* A finalisation that closes its slot, or stops the cycle.
LEMMA ClosingIsPaid ==
    ASSUME IInv, NEW w \in Procs, Finalizing(w), LedgerFollows(w), NEW status, NEW outcome,
           NEW cancels, ConcludesSlot(cur[w], status, outcome, cancels)
    PROVE  \A b \in Attempts : MoneyLeaves(b)
<1>1. \A b \in Attempts \ {cur[w]} : MoneyLeaves(b)
  BY OthersArePaid DEF ConcludesSlot
<1>2. QED
  BY <1>1, AnswerIsPaid

LEMMA ConcludeIsPaid ==
    ASSUME IInv, NEW w \in Procs, Finalizing(w), Conclude(w, Close(w, Settled(w)))
    PROVE  \A b \in Attempts : MoneyLeaves(b)
<1> DEFINE t == Close(w, Settled(w))
           cancels == Recounted(t) = "UNKNOWN_RECONCILIATION"
<1>1. WriteTables(IF cancels THEN Cancelled(t) ELSE t) /\ cancels \in BOOLEAN
  BY DEF Conclude, Receipt
<1> HIDE DEF cancels
<1>2. /\ ConcludesSlot(cur[w], StatusAfter(cur[w], reply[w]), OutcomeAfter(reply[w]), cancels)
      /\ LedgerFollows(w)
  BY <1>1, CloseShape DEF IInv
<1>3. QED
  BY <1>2, ClosingIsPaid

\* The retry's reservation is made in the transaction that settles its predecessor.
LEMMA RetryIsPaid ==
    ASSUME IInv, NEW w \in Procs, FinalizeRetry(w)
    PROVE  \A b \in Attempts : MoneyMoves(b)
<1> DEFINE a == cur[w]
           n == NextAttempt(a)
           t == Settled(w)
<1>1. /\ Finalizing(w) /\ MayRetry(a) /\ WriteTables(Claimed(t, {n}))
      /\ a \in Attempts /\ attempt[a] = "SUBMITTED" /\ wpc[w] = "finalize"
      /\ Index(a) < MaxAttempts
  BY InHand DEF IInv, FinalizeRetry, Retrying, Answer, Receipt, Finalizing, MayRetry
<1>2. t \in TablesType /\ n \in Attempts /\ Point(n) = Point(a) /\ Index(n) = Index(a) + 1
  BY <1>1, SettledTyped, NextIsAttempt DEF IInv
<1>3. /\ \A b \in Attempts \ {a} : t.ledger[b] = ledger[b]
      /\ t.ledger[a] = IF reply[w].basis = "actual" THEN "SETTLED" ELSE ledger[a]
  BY <1>1, SettledRows DEF IInv
<1> HIDE DEF t
<1>4. \A b \in Attempts : ledger'[b] = IF b = n THEN "RESERVED" ELSE t.ledger[b]
  BY <1>1, <1>2 DEF WriteTables, Claimed, TablesType
<1>5. ledger[n] = "NONE"
  <2>1. Index(a) \in Int
    BY <1>1, AttemptParts, GridAssumption
  <2>2. attempt[n] = "NONE"
    BY <1>1, <1>2, <2>1 DEF IInv, TablesInv, AttemptsInSequence
  <2>3. QED
    BY <1>2, <2>2, BooksByStatus DEF IInv, TablesInv, BooksOf
<1>6. ledger[a] = "RESERVED"
  BY <1>1, SubmittedIsReserved
<1> HIDE DEF a, n
<1>7. QED
  BY <1>3, <1>4, <1>5, <1>6 DEF MoneyMoves, MoneyLeaves

LEMMA FinalizeIsPaid ==
    ASSUME IInv, NEW w \in Procs, FinalizeStep(w)
    PROVE  FinalizeRetry(w) \/ \A b \in Attempts : MoneyLeaves(b)
<1> USE DEF Answer, Retrying
<1>1. CASE FinalizeIncident(w) \/ FinalizeRetryRefused(w)
  <2>1. Finalizing(w) /\ reply[w].event # "OUTCOME_UNKNOWN"
    BY <1>1, InHand DEF IInv, FinalizeIncident, FinalizeRetryRefused, Finalizing, Incident, Reply
  <2>2. \/ WriteTables(Cancelled(Settled(w)))
        \/ WriteTables(Close(w, Cancelled(Settled(w))))
    BY <1>1 DEF FinalizeIncident, FinalizeRetryRefused, Receipt
  <2>3. /\ ConcludesSlot(cur[w], StatusAfter(cur[w], reply[w]), "CANCELLED", TRUE)
        /\ LedgerFollows(w)
    BY <2>1, <2>2, CancelShape DEF IInv
  <2>4. QED
    BY <2>1, <2>3, ClosingIsPaid
<1>2. CASE \/ FinalizeEvidence(w) \/ FinalizeRetryClosed(w)
           \/ FinalizeFailure(w) \/ FinalizeOutcomeUnknown(w)
  BY <1>2, ConcludeIsPaid
     DEF FinalizeEvidence, FinalizeRetryClosed, FinalizeFailure, FinalizeOutcomeUnknown
<1>3. CASE FinalizeRejected(w) \/ FinalizeFails(w)
  BY <1>3 DEF FinalizeRejected, FinalizeFails, slots, MoneyLeaves
<1>4. QED
  BY <1>1, <1>2, <1>3 DEF FinalizeStep

\* No job reserves, but for the retry.
LEMMA JobReserves ==
    ASSUME IInv, NEW w \in Procs, Job(w)
    PROVE  FinalizeRetry(w) \/ \A b \in Attempts : MoneyLeaves(b)
<1>1. CASE FinalizeStep(w)
  BY <1>1, FinalizeIsPaid
<1>2. CASE AcquireCancels(w)
  <2>1. ledger' = Cancelled(Tables).ledger
    BY <1>2 DEF AcquireCancels, WriteTables
  <2>2. Tables \in TablesType /\ Tables.attempt = attempt /\ Tables.ledger = ledger
    BY TablesTyped DEF IInv, Tables
  <2>3. \A b \in Attempts : IF attempt[b] = "CLAIMED" THEN ledger'[b] = "RELEASED"
                                                     ELSE ledger'[b] = ledger[b]
    BY <2>1, <2>2, CancelledRows
  <2>4. \A b \in Attempts : attempt[b] = "CLAIMED" => ledger[b] = "RESERVED" /\ calls[b] = 0
    BY BooksByStatus DEF IInv, TablesInv, BooksOf, Live, ProcessInv, CalledWasSubmitted
  <2>5. QED
    BY <2>3, <2>4 DEF MoneyLeaves
<1>3. CASE UnknownMarked(w)
  <2>1. /\ cur[w] \in Attempts /\ ledger'[cur[w]] = ledger[cur[w]]
        /\ OthersFollow(Attempts \ {cur[w]}, TRUE)
    BY <1>3, UnknownShape DEF IInv, ConcludesSlot
  <2>2. \A b \in Attempts \ {cur[w]} : MoneyLeaves(b)
    BY <2>1, OthersArePaid
  <2>3. QED
    BY <2>1, <2>2 DEF MoneyLeaves
<1>4. CASE UNCHANGED ledger
  BY <1>4 DEF MoneyLeaves
<1>5. QED
  BY <1>1, <1>2, <1>3, <1>4
     DEF Job, AcquireStep, AcquireNothing, AcquireThrows, AcquireSubmits,
         AcquireUnacknowledged, Submit, CallStep,
         SnapshotDropped, DispatchedLate, CallProvider, ProviderAnswers, ProviderFails,
         UnknownStep, UnknownAlreadyFinal, UnknownRejected, slots

\* A job moves money, or calls the provider, never both in one step.
LEMMA JobIsPaid ==
    ASSUME IInv, NEW w \in Procs, Job(w), NEW b \in Attempts
    PROVE  Paid(b)!Step
<1>1. CASE CallProvider(w)
  <2>1. cur[w] \in Attempts /\ attempt[cur[w]] = "SUBMITTED" /\ calls[cur[w]] = 0
    BY <1>1 DEF CallProvider, IInv, TypeOK, ProcessInv, JobOwnsAttempt, Owning
  <2>2. ledger[cur[w]] = "RESERVED"
    BY <2>1, SubmittedIsReserved
  <2>3. ledger' = ledger /\ calls' = [calls EXCEPT ![cur[w]] = 1]
    BY <1>1, <2>1 DEF CallProvider, slots, IInv, TypeOK
  <2>4. CASE b = cur[w]
    BY <2>1, <2>2, <2>3, <2>4 DEF Paid!Step, Paid!Next, Paid!Call, IInv, TypeOK
  <2>5. CASE b # cur[w]
    BY <2>3, <2>5 DEF Paid!Step, IInv, TypeOK
  <2>6. QED
    BY <2>4, <2>5
<1>2. CASE ~CallProvider(w)
  <2>1. UNCHANGED calls
    BY <1>2 DEF Job, AcquireStep, AcquireNothing, AcquireCancels, AcquireThrows, AcquireSubmits,
       AcquireUnacknowledged, Submit, CallStep, SnapshotDropped, DispatchedLate, ProviderAnswers, ProviderFails, FinalizeStep,
       FinalizeIncident, FinalizeEvidence, FinalizeRetry, FinalizeRetryRefused,
       FinalizeRetryClosed, FinalizeFailure, FinalizeOutcomeUnknown, FinalizeRejected,
       FinalizeFails, Conclude, Receipt, UnknownStep, UnknownAlreadyFinal, UnknownMarked,
       UnknownRejected
  <2>2. MoneyMoves(b)
    BY JobReserves, RetryIsPaid DEF MoneyMoves
  <2>3. QED
    BY <2>1, <2>2, MoneyIsPaid
<1>3. QED
  BY <1>1, <1>2

LEMMA PaidStep ==
    ASSUME IInv, [Next]_vars, NEW b \in Attempts
    PROVE  Paid(b)!Step
<1>1. \A a \in Attempts : BooksOf(a)
  BY BooksByStatus DEF IInv, TablesInv
<1>2. CASE Materialize
  <2>1. attempt[b] = "NONE" /\ ledger[b] = "NONE"
    BY <1>1, <1>2 DEF Materialize, IInv, TablesInv, CreatedIsEmpty, BooksOf
  <2>2. ledger'[b] \in {"RESERVED", ledger[b]} /\ UNCHANGED calls
    BY <1>2 DEF Materialize, WriteTables, Claimed, Tables
  <2>3. QED
    BY <2>1, <2>2, MoneyIsPaid DEF MoneyMoves, MoneyLeaves
<1>3. ASSUME NEW w \in Procs, Job(w) PROVE Paid(b)!Step
  BY <1>3, JobIsPaid
<1>4. CASE ReconcileBilling
  <2>1. /\ ledger'[b] \in {"SETTLED", ledger[b]} /\ UNCHANGED calls
        /\ ledger'[b] # ledger[b] => ledger[b] = "RESERVED"
    BY <1>4 DEF ReconcileBilling, WriteTables, Tables
  <2>2. QED
    BY <2>1, MoneyIsPaid DEF MoneyMoves, MoneyLeaves
<1>5. CASE UNCHANGED <<ledger, calls>>
  BY <1>5 DEF Paid!Step
<1>6. ASSUME NEW d \in Dispatchers, Dispatch(d) PROVE UNCHANGED <<ledger, calls>>
  BY <1>6 DEF Dispatch, ClaimRows, ReturnExpired, CheckRow, SkipRow, FinishRound, SendJob,
     SendFails, MarkEnqueued, LeaseLost, untouchedByDispatch
<1>7. QED
  BY <1>2, <1>3, <1>4, <1>5, <1>6
     DEF Next, LeaseExpires, untouchedByDispatch, FetchJob, Crash, Redeploy, WindowCloses,
         SetCap, slots, vars

\* Every attempt is one paid call, for any grid, number of processes and answers:
\* money is promised before the provider is called, the call is made once at most,
\* and what may have been called is never given back.
THEOREM AttemptsPaid == Spec => AttemptsArePaidCalls
<1>1. Init => \A a \in Attempts : Paid(a)!Init
  BY DEF Init, Paid!Init
<1>2. IInv /\ [Next]_vars => [\A a \in Attempts : Paid(a)!Step]_vars
  BY PaidStep
<1>3. QED
  BY <1>1, <1>2, InvariantHolds, PTL DEF Spec, AttemptsArePaidCalls

-----------------------------------------------------------------------------
(* Nothing claimed is lost.  The disturbances the property excludes are an  *)
(* assumption of each lemma.                                                *)

Held(a) == a \in jobs \/ \E w \in Procs : cur[w] = a

\* A dispatcher forgets its row only when it has marked it, and by then the job it
\* sent is in the queue, in hand, or has taken the attempt further.
Carried ==
    /\ windowOpen
    /\ NothingLost
    /\ \A a \in Attempts : outbox[a] \in {"PENDING", "CLAIMED"} => attempt[a] # "NONE"
    /\ \A d \in Dispatchers : dpc[d] \in {"send", "mark"} => attempt[row[d]] # "NONE"
    /\ \A d \in Dispatchers :
          dpc[d] = "mark" /\ attempt[row[d]] = "CLAIMED" => Held(row[d])
    /\ \A w \in Procs : wpc[w] = "idle" => cur[w] \notin Attempts

\* What a transaction on attempts does to the outbox row of attempt b: a new
\* attempt waits to be sent, the row of one that stays claimed is left alone.
RowFollows(b) ==
    /\ attempt[b] # "NONE" => attempt'[b] # "NONE"
    /\ attempt'[b] = "CLAIMED" =>
         \/ attempt[b] = "CLAIMED" /\ outbox'[b] = outbox[b]
         \/ attempt[b] = "NONE" /\ outbox'[b] = "PENDING"
    /\ outbox'[b] \in {"PENDING", "CLAIMED"} => outbox'[b] = outbox[b] \/ attempt'[b] # "NONE"

\* A job is taken from the hands of a process only after it took its attempt further.
HandsFollow ==
    \A w \in Procs :
        /\ cur'[w] # cur[w] /\ cur[w] \in Attempts => attempt'[cur[w]] # "CLAIMED"
        /\ wpc'[w] = "idle" => cur'[w] \notin Attempts

LEMMA RowsCarried ==
    ASSUME TypeOK, TypeOK', Carried, \A b \in Attempts : RowFollows(b), HandsFollow,
           UNCHANGED <<jobs, dispatching, windowOpen>>
    PROVE  Carried'
<1>1. \A d \in Dispatchers : dpc'[d] \in {"send", "mark"} =>
        dpc[d] = dpc'[d] /\ row'[d] = row[d] /\ row[d] \in Attempts
  BY DEF TypeOK, dispatching
<1>2. ASSUME NEW b \in Attempts, Held(b), attempt'[b] = "CLAIMED" PROVE Held(b)'
  BY <1>2 DEF Held, HandsFollow
<1>3. NothingLost'
  <2> SUFFICES ASSUME NEW b \in Attempts, attempt'[b] = "CLAIMED"
               PROVE  outbox'[b] \in {"PENDING", "CLAIMED"} \/ Held(b)'
    BY DEF NothingLost, Held
  <2>1. CASE attempt[b] = "CLAIMED" /\ outbox'[b] = outbox[b]
    BY <1>2, <2>1 DEF Carried, NothingLost, Held
  <2>2. QED
    BY <2>1 DEF RowFollows
<1>4. ASSUME NEW d \in Dispatchers, dpc'[d] = "mark", attempt'[row'[d]] = "CLAIMED"
      PROVE  Held(row[d])'
  <2>1. row[d] \in Attempts /\ dpc[d] = "mark" /\ attempt'[row[d]] = "CLAIMED"
        /\ row'[d] = row[d]
    BY <1>1, <1>4
  <2>2. attempt[row[d]] = "CLAIMED"
    BY <2>1 DEF Carried, RowFollows
  <2>3. PICK b \in Attempts : b = row[d] /\ Held(b)
    BY <2>1, <2>2 DEF Carried
  <2>4. Held(b)'
    BY <1>2, <2>1, <2>3
  <2>5. QED
    BY <2>1, <2>3, <2>4 DEF Held
<1>5. \A d \in Dispatchers : dpc'[d] \in {"send", "mark"} => attempt'[row'[d]] # "NONE"
  BY <1>1 DEF Carried, RowFollows
<1>6. \A a \in Attempts : outbox'[a] \in {"PENDING", "CLAIMED"} => attempt'[a] # "NONE"
  BY DEF Carried, RowFollows
<1>7. \A d \in Dispatchers : dpc'[d] = "mark" => row'[d] = row[d]
  BY <1>1
<1>8. QED
  BY <1>3, <1>4, <1>5, <1>6, <1>7 DEF Carried, HandsFollow, Held

\* How a transaction built from the tables leaves the outbox.
LEMMA OutboxBuilt ==
    ASSUME TypeOK, NEW w \in Procs, wpc[w] = "finalize"
    PROVE  /\ Settled(w).outbox = outbox
           /\ Close(w, Settled(w)).outbox = outbox
           /\ Close(w, Cancelled(Settled(w))).outbox = Cancelled(Settled(w)).outbox
           /\ \A b \in Attempts :
                /\ Cancelled(Settled(w)).outbox[b] \in {outbox[b], "CANCELLED"}
                /\ Cancelled(Close(w, Settled(w))).outbox[b] \in {outbox[b], "CANCELLED"}
<1>1. Settled(w) \in TablesType /\ Settled(w).outbox = outbox
  BY SettledTyped DEF Settled, Answered, Tables
<1>2. \A t \in TablesType : Close(w, t).outbox = t.outbox
  BY DEF Close, Observed, TablesType
<1>3. Cancelled(Settled(w)) \in TablesType
  BY <1>1, CancelledTyped
<1>4. \A t : \A b \in Attempts : Cancelled(t).outbox[b] \in {t.outbox[b], "CANCELLED"}
  BY DEF Cancelled
<1>5. QED
  BY <1>1, <1>2, <1>3, <1>4

\* The rows after a conclusion, with what was not called cancelled or left alone.
LEMMA ConclusionRows ==
    ASSUME TypeOK, NEW a \in Attempts, NEW status, NEW outcome, NEW cancels \in BOOLEAN,
           ConcludesSlot(a, status, outcome, cancels),
           \A b \in Attempts : outbox'[b] \in {outbox[b], "CANCELLED"},
           ~cancels => outbox' = outbox
    PROVE  (\A b \in Attempts : RowFollows(b)) /\ attempt'[a] # "CLAIMED"
<1>1. RowFollows(a) /\ attempt'[a] # "CLAIMED"
  BY DEF ConcludesSlot, RowFollows
<1>2. ASSUME NEW b \in Attempts \ {a} PROVE RowFollows(b)
  BY DEF ConcludesSlot, OthersFollow, CancelsAttempt, KeepsAttempt, RowFollows
<1>3. QED
  BY <1>1, <1>2

\* A finalisation leaves its attempt ended, and hands nothing claimed to nobody.
LEMMA FinalizeCarried ==
    ASSUME IInv, TypeOK', NEW w \in Procs, FinalizeStep(w)
    PROVE  (\A b \in Attempts : RowFollows(b)) /\ attempt'[cur[w]] # "CLAIMED"
<1> USE DEF Answer, Retrying
<1>0. /\ Finalizing(w) /\ TypeOK /\ TablesInv /\ wpc[w] = "finalize"
      /\ cur[w] \in Attempts /\ attempt[cur[w]] = "SUBMITTED"
  <2>1. TypeOK /\ TablesInv
    BY DEF IInv
  <2>2. CASE FinalizeRejected(w) \/ FinalizeFails(w)
    BY <2>1, <2>2, InHand DEF FinalizeRejected, FinalizeFails, Finalizing
  <2>3. CASE ~(FinalizeRejected(w) \/ FinalizeFails(w))
    BY <2>1, <2>3, InHand
       DEF FinalizeStep, FinalizeIncident, FinalizeEvidence, FinalizeRetry,
           FinalizeRetryRefused, FinalizeRetryClosed, FinalizeFailure,
           FinalizeOutcomeUnknown, Finalizing
  <2>4. QED
    BY <2>2, <2>3
<1>1. CASE FinalizeIncident(w) \/ FinalizeRetryRefused(w)
  <2>1. reply[w].event # "OUTCOME_UNKNOWN"
    BY <1>0, <1>1, InHand DEF FinalizeIncident, FinalizeRetryRefused, Incident, Reply
  <2>2. \/ WriteTables(Cancelled(Settled(w)))
        \/ WriteTables(Close(w, Cancelled(Settled(w))))
    BY <1>1 DEF FinalizeIncident, FinalizeRetryRefused, Receipt
  <2>3. ConcludesSlot(cur[w], StatusAfter(cur[w], reply[w]), "CANCELLED", TRUE)
    BY <1>0, <2>1, <2>2, CancelShape
  <2>4. \A b \in Attempts : outbox'[b] \in {outbox[b], "CANCELLED"}
    BY <1>0, <2>2, OutboxBuilt DEF WriteTables
  <2>5. QED
    BY <1>0, <2>3, <2>4, ConclusionRows
<1>2. CASE \/ FinalizeEvidence(w) \/ FinalizeRetryClosed(w)
           \/ FinalizeFailure(w) \/ FinalizeOutcomeUnknown(w)
  <2> DEFINE t == Close(w, Settled(w))
             cancels == Recounted(t) = "UNKNOWN_RECONCILIATION"
  <2>1. Conclude(w, t)
    BY <1>2
       DEF FinalizeEvidence, FinalizeRetryClosed, FinalizeFailure, FinalizeOutcomeUnknown
  <2>2. WriteTables(IF cancels THEN Cancelled(t) ELSE t) /\ cancels \in BOOLEAN
    BY <2>1 DEF Conclude, Receipt
  <2> HIDE DEF cancels
  <2>3. ConcludesSlot(cur[w], StatusAfter(cur[w], reply[w]), OutcomeAfter(reply[w]), cancels)
    BY <1>0, <2>2, CloseShape
  <2>4. /\ \A b \in Attempts : outbox'[b] \in {outbox[b], "CANCELLED"}
        /\ ~cancels => outbox' = outbox
    BY <1>0, <2>2, OutboxBuilt DEF WriteTables
  <2>5. QED
    BY <1>0, <2>2, <2>3, <2>4, ConclusionRows
<1>3. CASE FinalizeRetry(w)
  <2> DEFINE n == NextAttempt(cur[w])
             t == Settled(w)
  <2>1. /\ WriteTables(Claimed(t, {n})) /\ Index(cur[w]) < MaxAttempts
        /\ reply[w].event = "RETRYABLE" /\ MayRetry(cur[w])
    BY <1>3 DEF FinalizeRetry, Receipt, MayRetry
  <2>2. /\ t \in TablesType /\ n \in Attempts /\ n # cur[w]
        /\ Point(n) = Point(cur[w]) /\ Index(n) = Index(cur[w]) + 1
    BY <1>0, <2>1, SettledTyped, NextIsAttempt
  <2>3. /\ \A b \in Attempts \ {cur[w]} : t.attempt[b] = attempt[b]
        /\ t.attempt[cur[w]] = "RETRYABLE_FAILURE" /\ t.outbox = outbox
    BY <1>0, <2>1, SettledRows, OutboxBuilt DEF StatusAfter
  <2> HIDE DEF t
  <2>4. attempt[n] = "NONE"
    <3>1. Index(cur[w]) \in Int
      BY <1>0, AttemptParts, GridAssumption
    <3>2. QED
      BY <1>0, <2>2, <3>1 DEF TablesInv, AttemptsInSequence
  <2>5. \A b \in Attempts :
          /\ attempt'[b] = IF b = n THEN "CLAIMED" ELSE t.attempt[b]
          /\ outbox'[b] = IF b = n THEN "PENDING" ELSE outbox[b]
    BY <2>1, <2>2, <2>3 DEF WriteTables, Claimed, TablesType
  <2>6. \A b \in Attempts : RowFollows(b)
    BY <1>0, <2>2, <2>3, <2>4, <2>5 DEF RowFollows
  <2>7. attempt'[cur[w]] = "RETRYABLE_FAILURE"
    BY <1>0, <2>2, <2>3, <2>5
  <2>8. QED
    BY <2>6, <2>7
<1>4. CASE FinalizeRejected(w) \/ FinalizeFails(w)
  <2>1. UNCHANGED <<attempt, outbox>>
    BY <1>4 DEF FinalizeRejected, FinalizeFails, slots
  <2>2. \A b \in Attempts : RowFollows(b)
    BY <1>0, <2>1 DEF RowFollows, TypeOK
  <2>3. QED
    BY <1>0, <2>1, <2>2
<1>5. QED
  BY <1>1, <1>2, <1>3, <1>4 DEF FinalizeStep

\* A process that ends its job, or takes it further.
LEMMA HandsOfJob ==
    ASSUME TypeOK, Carried, NEW w \in Procs,
           \/ Finish(w) /\ (cur[w] \in Attempts => attempt'[cur[w]] # "CLAIMED")
           \/ Doubt(w)
           \/ \E label : label # "idle" /\ Run(w, label) /\ UNCHANGED cur
    PROVE  HandsFollow
<1>1. \A v \in Procs : wpc[v] = "idle" => cur[v] \notin Attempts
  BY DEF Carried
<1>2. CASE Finish(w) /\ (cur[w] \in Attempts => attempt'[cur[w]] # "CLAIMED")
  BY <1>1, <1>2, NullAssumption DEF HandsFollow, Finish, Run, TypeOK
<1>3. CASE Doubt(w)
  BY <1>1, <1>3 DEF HandsFollow, Doubt, Run, TypeOK
<1>4. CASE \E label : label # "idle" /\ Run(w, label) /\ UNCHANGED cur
  BY <1>1, <1>4 DEF HandsFollow, Run, TypeOK
<1>5. QED
  BY <1>2, <1>3, <1>4

\* An attempt that stays as it was keeps its row.
LEMMA QuietRows ==
    ASSUME TypeOK, UNCHANGED <<attempt, outbox>>
    PROVE  \A b \in Attempts : RowFollows(b)
BY DEF RowFollows, TypeOK

\* While transactions do not fail and the window is open, no job of a claimed
\* attempt ends without taking it further: a claimed attempt has an executable cycle.
LEMMA JobCarried ==
    ASSUME IInv, TypeOK', Carried, "DATABASE" \notin Disturbances, NEW w \in Procs, Job(w)
    PROVE  Carried'
<1>0. TypeOK /\ TablesInv /\ ProcessInv
  BY DEF IInv
<1>1. (\A b \in Attempts : RowFollows(b)) /\ HandsFollow
  <2>1. CASE FinalizeStep(w)
    <3>1. (\A b \in Attempts : RowFollows(b)) /\ attempt'[cur[w]] # "CLAIMED"
      BY <2>1, FinalizeCarried
    <3>2. Finish(w) \/ Doubt(w)
      BY <2>1
         DEF FinalizeStep, FinalizeIncident, FinalizeEvidence, FinalizeRetry,
             FinalizeRetryRefused, FinalizeRetryClosed, FinalizeFailure,
             FinalizeOutcomeUnknown, FinalizeRejected, FinalizeFails, Conclude, Receipt,
             Acknowledged
    <3>3. QED
      BY <1>0, <3>1, <3>2, HandsOfJob
  <2>2. CASE AcquireNothing(w) \/ UnknownAlreadyFinal(w) \/ UnknownRejected(w)
             \/ SnapshotDropped(w)
    <3>1. Finish(w) /\ UNCHANGED <<attempt, outbox>>
      BY <2>2
         DEF AcquireNothing, UnknownAlreadyFinal, UnknownRejected, SnapshotDropped, slots
    <3>2. attempt[cur[w]] # "CLAIMED"
      BY <1>0, <2>2
         DEF AcquireNothing, Acquirable, UnknownAlreadyFinal, UnknownRejected,
             SnapshotDropped, ProcessInv, JobOwnsAttempt, DoubtedWasSubmitted, Owning
    <3>3. QED
      BY <1>0, <3>1, <3>2, HandsOfJob, QuietRows
  <2>3. CASE AcquireCancels(w)
    <3>1. /\ Finish(w) /\ attempt' = Cancelled(Tables).attempt
          /\ outbox' = Cancelled(Tables).outbox
      BY <2>3 DEF AcquireCancels, WriteTables
    <3>2. \A b \in Attempts :
            IF attempt[b] = "CLAIMED"
            THEN attempt'[b] = "CANCELLED_NO_CALL" /\ outbox'[b] = "CANCELLED"
            ELSE attempt'[b] = attempt[b] /\ outbox'[b] = outbox[b]
      BY <3>1 DEF Cancelled, Tables
    <3>3. /\ \A b \in Attempts : RowFollows(b)
          /\ cur[w] \in Attempts => attempt'[cur[w]] # "CLAIMED"
      BY <3>2 DEF RowFollows
    <3>4. QED
      BY <1>0, <3>1, <3>3, HandsOfJob
  <2>4. ~AcquireThrows(w)
    <3>1. attempt[cur[w]] = "CLAIMED" /\ cur[w] \in Attempts => Executable /\ windowOpen
      BY <1>0 DEF TablesInv, QuietWhenClosed, Carried
    <3>2. QED
      BY <1>0, <3>1 DEF AcquireThrows, Acquirable, Executable, TypeOK
  <2>5. CASE AcquireSubmits(w)
    <3>1. /\ attempt' = [attempt EXCEPT ![cur[w]] = "SUBMITTED"] /\ outbox' = outbox
          /\ Run(w, "submitted") /\ UNCHANGED cur
      BY <2>5 DEF AcquireSubmits, Submit
    <3>2. \A b \in Attempts : RowFollows(b)
      BY <1>0, <3>1 DEF RowFollows, TypeOK
    <3>3. HandsFollow
      BY <1>0, <3>1, HandsOfJob
    <3>4. QED
      BY <3>2, <3>3
  <2>6. CASE DispatchedLate(w) \/ ProviderFails(w)
    <3>1. Doubt(w) /\ UNCHANGED <<attempt, outbox>>
      BY <2>6 DEF DispatchedLate, ProviderFails, slots
    <3>2. QED
      BY <1>0, <3>1, HandsOfJob, QuietRows
  <2>7. CASE CallProvider(w) \/ \E r \in Replies : ProviderAnswers(w, r)
    <3>1. /\ Run(w, "called") \/ Run(w, "finalize")
          /\ UNCHANGED <<cur, attempt, outbox>>
      BY <2>7 DEF CallProvider, ProviderAnswers, slots
    <3>2. \E label : label # "idle" /\ Run(w, label) /\ UNCHANGED cur
      <4>1. "called" # "idle" /\ "finalize" # "idle"
        OBVIOUS
      <4>2. QED
        BY <3>1, <4>1
    <3>3. QED
      BY <1>0, <3>1, <3>2, HandsOfJob, QuietRows
  <2>8. CASE UnknownMarked(w)
    <3> DEFINE crossed == [Tables EXCEPT !.attempt[cur[w]] = "UNKNOWN_RECONCILIATION"]
               t == Observed(crossed, Point(cur[w]), "UNKNOWN")
    <3>1. cur[w] \in Attempts /\ ConcludesSlot(cur[w], "UNKNOWN_RECONCILIATION", "UNKNOWN", TRUE)
      BY <1>0, <2>8, UnknownShape
    <3>2. outbox' = Cancelled(t).outbox /\ Finish(w)
      BY <2>8 DEF UnknownMarked, WriteTables
    <3>3. t.outbox = outbox
      BY DEF Observed, Tables
    <3> HIDE DEF t
    <3>4. \A b \in Attempts : outbox'[b] \in {outbox[b], "CANCELLED"}
      BY <3>2, <3>3 DEF Cancelled
    <3>5. (\A b \in Attempts : RowFollows(b)) /\ attempt'[cur[w]] # "CLAIMED"
      BY <1>0, <3>1, <3>4, ConclusionRows
    <3>6. QED
      BY <1>0, <3>2, <3>5, HandsOfJob
  <2>9. ~AcquireUnacknowledged(w)
    BY DEF AcquireUnacknowledged
  <2>10. QED
    BY <2>1, <2>2, <2>3, <2>4, <2>5, <2>6, <2>7, <2>8, <2>9
       DEF Job, AcquireStep, CallStep, UnknownStep
<1>2. UNCHANGED untouchedByStore
  BY DEF Job, AcquireStep, AcquireNothing, AcquireCancels, AcquireThrows, AcquireSubmits,
     AcquireUnacknowledged, Submit, CallStep, SnapshotDropped, DispatchedLate, CallProvider, ProviderAnswers, ProviderFails,
     FinalizeStep, FinalizeIncident, FinalizeEvidence, FinalizeRetry, FinalizeRetryRefused,
     FinalizeRetryClosed, FinalizeFailure, FinalizeOutcomeUnknown, FinalizeRejected,
     FinalizeFails, Conclude, Receipt, UnknownStep, UnknownAlreadyFinal, UnknownMarked,
     UnknownRejected
<1>3. QED
  BY <1>0, <1>1, <1>2, RowsCarried DEF untouchedByStore, environment

\* A dispatcher marks a row only after it has sent its job.
LEMMA DispatchCarried ==
    ASSUME TypeOK, TypeOK', Carried, NEW d \in Dispatchers, Dispatch(d)
    PROVE  Carried'
<1>1. /\ UNCHANGED <<attempt, cur, wpc, windowOpen>> /\ jobs \subseteq jobs'
      /\ \A a \in Attempts : Held(a) => Held(a)'
  <2>1. UNCHANGED <<attempt, cur, wpc, windowOpen>> /\ jobs \subseteq jobs'
    BY DEF Dispatch, ClaimRows, ReturnExpired, CheckRow, SkipRow, FinishRound, SendJob,
       SendFails, AbandonRound, MarkEnqueued, LeaseLost, untouchedByDispatch, dispatching,
       working, environment
  <2>2. QED
    BY <2>1 DEF Held
<1>2. \A e \in Dispatchers \ {d} : dpc'[e] = dpc[e] /\ row'[e] = row[e]
  BY DEF TypeOK, Dispatch, ClaimRows, ReturnExpired, CheckRow, SkipRow, FinishRound, SendJob,
     SendFails, AbandonRound, MarkEnqueued, LeaseLost, dispatching
<1>3. \A e \in Dispatchers : dpc[e] \in {"send", "mark"} => row[e] \in Attempts
  BY DEF TypeOK
<1>4. /\ dpc'[d] \in {"send", "mark"} => attempt[row'[d]] # "NONE"
      /\ dpc'[d] = "mark" => row'[d] = row[d] /\ row[d] \in jobs'
  BY DEF Carried, CanDispatch, TypeOK, Dispatch, ClaimRows, ReturnExpired, CheckRow, SkipRow,
     FinishRound, SendJob, SendFails, AbandonRound, MarkEnqueued, LeaseLost, dispatching
<1>5. \A b \in Attempts :
        \/ outbox'[b] \in {"PENDING", "CLAIMED"} <=> outbox[b] \in {"PENDING", "CLAIMED"}
        \/ dpc[d] = "mark" /\ b = row[d] /\ outbox'[b] = "ENQUEUED"
  BY DEF TypeOK, Dispatch, ClaimRows, ReturnExpired, Waiting, Expired, CheckRow, SkipRow,
     FinishRound, SendJob, SendFails, MarkEnqueued, LeaseLost
<1>6. NothingLost'
  BY <1>1, <1>5 DEF NothingLost, Carried, Held
<1>7. \A a \in Attempts : outbox'[a] \in {"PENDING", "CLAIMED"} => attempt'[a] # "NONE"
  BY <1>1, <1>5 DEF Carried
<1>8. \A e \in Dispatchers : dpc'[e] \in {"send", "mark"} => attempt'[row'[e]] # "NONE"
  BY <1>1, <1>2, <1>4 DEF Carried
<1>9. ASSUME NEW e \in Dispatchers, dpc'[e] = "mark", attempt'[row'[e]] = "CLAIMED"
      PROVE  row'[e] \in jobs' \/ \E w \in Procs : cur'[w] = row'[e]
  BY <1>1, <1>2, <1>4, <1>9 DEF Carried, Held
<1>10. QED
  BY <1>1, <1>6, <1>7, <1>8, <1>9 DEF Carried, Held

\* A job passes from the queue into the hands of a process.
LEMMA FetchCarried ==
    ASSUME TypeOK, TypeOK', Carried, NEW w \in Procs, NEW a \in Attempts, FetchJob(w, a)
    PROVE  Carried'
<1>1. /\ wpc[w] = "idle" /\ jobs' = jobs \ {a} /\ cur'[w] = a /\ wpc'[w] = "acquire"
      /\ \A v \in Procs \ {w} : cur'[v] = cur[v] /\ wpc'[v] = wpc[v]
      /\ UNCHANGED <<attempt, outbox, dpc, row, windowOpen>>
  BY DEF FetchJob, Run, TypeOK, slots, dispatching, environment
<1>2. cur[w] \notin Attempts
  BY <1>1 DEF Carried
<1>3. ASSUME NEW b \in Attempts, Held(b) PROVE Held(b)'
  BY <1>1, <1>2, <1>3 DEF Held
<1>4. NothingLost'
  BY <1>1, <1>3 DEF NothingLost, Carried, Held
<1>5. ASSUME NEW d \in Dispatchers, dpc'[d] = "mark", attempt'[row'[d]] = "CLAIMED"
      PROVE  row'[d] \in jobs' \/ \E v \in Procs : cur'[v] = row'[d]
  <2>1. PICK b \in Attempts : b = row[d] /\ Held(b)
    BY <1>1, <1>5 DEF Carried, TypeOK
  <2>2. QED
    BY <1>1, <1>3, <2>1 DEF Held
<1>6. QED
  BY <1>1, <1>4, <1>5 DEF Carried, Held

\* Approval puts every attempt it claims into the outbox; reconciliation finds
\* nothing claimed.
LEMMA OwnerCarried ==
    ASSUME IInv, TypeOK', Carried, Materialize \/ ReconcileBilling
    PROVE  Carried'
<1>0. TypeOK /\ TablesInv
  BY DEF IInv
<1>1. CASE Materialize
  <2>1. \A b \in Attempts : attempt[b] = "NONE"
    BY <1>0, <1>1 DEF Materialize, TablesInv, CreatedIsEmpty
  <2>2. \A b \in Attempts :
          \/ attempt'[b] = "CLAIMED" /\ outbox'[b] = "PENDING"
          \/ attempt'[b] = attempt[b] /\ outbox'[b] = outbox[b]
    BY <1>1 DEF Materialize, WriteTables, Claimed, Tables
  <2>3. \A b \in Attempts : RowFollows(b)
    BY <2>1, <2>2 DEF RowFollows
  <2>4. UNCHANGED <<jobs, dispatching, windowOpen, wpc, cur>>
    BY <1>1 DEF Materialize, untouchedByStore, environment, working
  <2>5. HandsFollow
    BY <2>4 DEF HandsFollow, Carried
  <2>6. QED
    BY <1>0, <2>3, <2>4, <2>5, RowsCarried
<1>2. CASE ReconcileBilling
  <2>1. UNCHANGED <<attempt, outbox, jobs, dispatching, windowOpen, wpc, cur>>
    BY <1>2 DEF ReconcileBilling, WriteTables, Tables, untouchedByStore, environment, working
  <2>2. HandsFollow
    BY <2>1 DEF HandsFollow, Carried
  <2>3. QED
    BY <1>0, <2>1, <2>2, QuietRows, RowsCarried
<1>3. QED
  BY <1>1, <1>2

LEMMA CarriedStep ==
    ASSUME IInv, TypeOK', Carried, [Next]_vars,
           {"CRASH", "DATABASE", "WINDOW"} \cap Disturbances = {}
    PROVE  Carried'
<1>0. TypeOK /\ \A w \in Procs : ~Crash(w)
  BY DEF IInv, Crash
<1>1. CASE UNCHANGED <<attempt, outbox, jobs, dispatching, windowOpen, wpc, cur>>
  <2>1. HandsFollow
    BY <1>1 DEF HandsFollow, Carried
  <2>2. QED
    BY <1>0, <1>1, <2>1, QuietRows, RowsCarried
<1>2. ASSUME NEW w \in Procs, Job(w) PROVE Carried'
  BY <1>2, JobCarried
<1>3. ASSUME NEW d \in Dispatchers, Dispatch(d) PROVE Carried'
  BY <1>0, <1>3, DispatchCarried
<1>4. ASSUME NEW w \in Procs, NEW a \in Attempts, FetchJob(w, a) PROVE Carried'
  BY <1>0, <1>4, FetchCarried
<1>5. CASE Materialize \/ ReconcileBilling
  BY <1>5, OwnerCarried
<1>6. ASSUME \/ \E a \in Attempts : LeaseExpires(a)
             \/ \E w \in Procs : Redeploy(w)
             \/ \E amount \in Caps : SetCap(amount)
             \/ UNCHANGED vars
      PROVE  UNCHANGED <<attempt, outbox, jobs, dispatching, windowOpen, wpc, cur>>
  BY <1>6
     DEF LeaseExpires, Redeploy, SetCap, vars, untouchedByDispatch, slots, working, environment
<1>7. QED
  BY <1>0, <1>1, <1>2, <1>3, <1>4, <1>5, <1>6 DEF Next, WindowCloses

\* While nobody is killed, no transaction fails and the window stays open, a
\* claimed attempt is in the outbox, in the queue or in the hands of a worker,
\* whatever sends fail, rounds end early or leases run out.
THEOREM NothingIsLost ==
    ASSUME {"CRASH", "DATABASE", "WINDOW"} \cap Disturbances = {}
    PROVE  Spec => []NothingLost
<1>1. Init => Carried
  BY NullAssumption DEF Init, Carried, NothingLost, Held
<1>2. IInv /\ IInv' /\ Carried /\ [Next]_vars => Carried'
  BY CarriedStep DEF IInv
<1>3. Carried => NothingLost
  BY DEF Carried
<1>4. QED
  BY <1>1, <1>2, <1>3, InvariantHolds, PTL DEF Spec

-----------------------------------------------------------------------------
(* The budget.                                                              *)

\* What the reservations of the cycle announced is within a cap its owner set.  Not
\* so what is committed: an answer may cost more than its reservation.
PromisesFit ==
    \E amount \in Caps : Promised(ledger, WorstCase, charged) <= amount

LEMMA AttemptsFinite == IsFiniteSet(Attempts)
<1>1. IsFiniteSet(1..MaxAttempts)
  BY GridAssumption, FS_Interval
<1>2. QED
  BY <1>1, GridAssumption, FS_Product DEF Attempts

LEMMA LedgerType ==
    ASSUME TypeOK
    PROVE  /\ IsFiniteSet(Attempts) /\ WorstCase \in [Attempts -> Nat]
           /\ ledger \in [Attempts -> RowStatus] /\ charged \in [Attempts -> Nat]
           /\ cap \in Caps /\ Caps \subseteq Nat
BY AttemptsFinite, MoneyAssumption DEF TypeOK, WorstCase

\* A settled row keeps its charge: only an answer writes one, while its attempt
\* holds a reservation, and the reconciliation of reserved rows.
LEMMA ChargesFinal ==
    ASSUME IInv, [Next]_vars, NEW b \in Attempts, ledger[b] = "SETTLED"
    PROVE  charged'[b] = charged[b]
<1> USE DEF books
<1>1. ASSUME NEW w \in Procs, NEW t, Finalizing(w), Receipt(w, t)
      PROVE  charged'[b] = charged[b]
  <2>1. cur[w] \in Attempts /\ ledger[cur[w]] = "RESERVED"
    BY <1>1, InHand, SubmittedIsReserved DEF IInv, Finalizing
  <2>2. QED
    BY <1>1, <2>1 DEF Receipt, IInv, TypeOK
<1>2. ASSUME NEW w \in Procs, FinalizeStep(w) PROVE charged'[b] = charged[b]
  BY <1>1, <1>2
     DEF FinalizeStep, FinalizeIncident, FinalizeEvidence, FinalizeRetry, FinalizeRetryRefused,
         FinalizeRetryClosed, FinalizeFailure, FinalizeOutcomeUnknown, FinalizeRejected,
         FinalizeFails, Answer, Retrying, Conclude
<1>3. ASSUME NEW w \in Procs, Job(w) PROVE charged'[b] = charged[b]
  BY <1>2, <1>3
     DEF Job, AcquireStep, AcquireNothing, AcquireCancels, AcquireThrows, AcquireSubmits,
         AcquireUnacknowledged, Submit, CallStep, SnapshotDropped, DispatchedLate, CallProvider, ProviderAnswers,
         ProviderFails, UnknownStep, UnknownAlreadyFinal, UnknownMarked, UnknownRejected
<1>4. CASE ReconcileBilling
  BY <1>4 DEF ReconcileBilling
<1>5. ASSUME NEW d \in Dispatchers, Dispatch(d) PROVE UNCHANGED charged
  BY <1>5 DEF Dispatch, ClaimRows, ReturnExpired, CheckRow, SkipRow, FinishRound, SendJob,
     SendFails, MarkEnqueued, LeaseLost, untouchedByDispatch
<1>6. QED
  BY <1>3, <1>4, <1>5
     DEF Next, Materialize, LeaseExpires, untouchedByDispatch, FetchJob, Crash, Redeploy,
         WindowCloses, SetCap, vars

\* A step that reserves nothing promises nothing.
LEMMA LeavingFits ==
    ASSUME IInv, TypeOK', [Next]_vars, PromisesFit, \A b \in Attempts : MoneyLeaves(b)
    PROVE  PromisesFit'
<1>1. \A b \in Attempts : Announced(ledger'[b], WorstCase[b], charged'[b])
                            <= Announced(ledger[b], WorstCase[b], charged[b])
  <2> SUFFICES ASSUME NEW b \in Attempts
               PROVE  Announced(ledger'[b], WorstCase[b], charged'[b])
                        <= Announced(ledger[b], WorstCase[b], charged[b])
    OBVIOUS
  <2>1. /\ WorstCase[b] = 1 /\ charged[b] \in Nat /\ charged'[b] \in Nat
        /\ ledger[b] = "SETTLED" => charged'[b] = charged[b]
    BY ChargesFinal DEF IInv, TypeOK, WorstCase
  <2>2. QED
    BY <2>1 DEF MoneyLeaves, Announced
<1>2. /\ IsFiniteSet(Attempts) /\ WorstCase \in [Attempts -> Nat]
      /\ ledger \in [Attempts -> RowStatus] /\ charged \in [Attempts -> Nat]
      /\ ledger' \in [Attempts -> RowStatus] /\ charged' \in [Attempts -> Nat]
      /\ Caps \subseteq Nat
  <2>1. ledger' \in [Attempts -> RowStatus] /\ charged' \in [Attempts -> Nat]
    BY DEF TypeOK
  <2>2. TypeOK
    BY DEF IInv
  <2>3. QED
    BY <2>1, <2>2, LedgerType
<1>3. /\ Promised(ledger', WorstCase, charged') <= Promised(ledger, WorstCase, charged)
      /\ Promised(ledger, WorstCase, charged) \in Nat
      /\ Promised(ledger', WorstCase, charged') \in Nat
  BY <1>1, <1>2, PromisesKept, CommittedSplits
<1>4. PICK amount \in Caps : Promised(ledger, WorstCase, charged) <= amount
  BY DEF PromisesFit
<1>5. Promised(ledger', WorstCase, charged') <= amount
  BY <1>2, <1>3, <1>4
<1>6. QED
  BY <1>5 DEF PromisesFit

\* Rows that are reserved together, when they fit beside all that is committed.
LEMMA ReservingFits ==
    ASSUME TypeOK, NEW lg \in [Attempts -> RowStatus], NEW ch \in [Attempts -> Nat],
           NEW new \in SUBSET Attempts, CommittedWith(lg, ch) + Cardinality(new) <= cap,
           ledger' \in [Attempts -> RowStatus], charged' = ch,
           \A b \in Attempts : ledger'[b] = IF b \in new THEN "RESERVED" ELSE lg[b]
    PROVE  PromisesFit'
<1> DEFINE more == [b \in Attempts |-> IF b \in new THEN 1 ELSE 0]
<1>0. /\ IsFiniteSet(Attempts) /\ WorstCase \in [Attempts -> Nat]
      /\ cap \in Nat /\ cap \in Caps
  BY LedgerType
<1>1. \A b \in Attempts : Announced(ledger'[b], WorstCase[b], ch[b])
                            <= Announced(lg[b], WorstCase[b], ch[b]) + more[b]
  <2> SUFFICES ASSUME NEW b \in Attempts
               PROVE  Announced(ledger'[b], WorstCase[b], ch[b])
                        <= Announced(lg[b], WorstCase[b], ch[b]) + more[b]
    OBVIOUS
  <2>1. WorstCase[b] = 1 /\ Announced(lg[b], WorstCase[b], ch[b]) \in Nat
    BY <1>0, AnnouncedType DEF WorstCase
  <2>2. CASE b \in new
    <3>1. Announced(ledger'[b], WorstCase[b], ch[b]) = 1
      BY <2>1, <2>2 DEF Announced
    <3>2. QED
      BY <2>1, <2>2, <3>1
  <2>3. CASE b \notin new
    BY <2>1, <2>3
  <2>4. QED
    BY <2>2, <2>3
<1>2. SumFunction(more) = Cardinality(new)
  BY <1>0, SumCounts
<1>3. more \in [Attempts -> Nat]
  OBVIOUS
<1> HIDE DEF more
<1>4. Promised(ledger', WorstCase, ch) <= Promised(lg, WorstCase, ch) + Cardinality(new)
  BY <1>0, <1>1, <1>2, <1>3, PromisesGrow
<1>5. /\ CommittedWith(lg, ch) = Promised(lg, WorstCase, ch) + Overrun(lg, WorstCase, ch)
      /\ Promised(lg, WorstCase, ch) \in Nat /\ Overrun(lg, WorstCase, ch) \in Nat
      /\ Promised(ledger', WorstCase, ch) \in Nat
  BY <1>0, CommittedSplits DEF CommittedWith
<1>6. Cardinality(new) \in Nat
  BY <1>0, FS_Subset, FS_CardinalityType
<1>7. Promised(ledger', WorstCase, ch) <= cap
  BY <1>0, <1>4, <1>5, <1>6
<1>8. QED
  BY <1>0, <1>7 DEF PromisesFit

LEMMA MaterializeFits ==
    ASSUME TypeOK, TypeOK', Materialize PROVE PromisesFit'
<1> DEFINE planned == IF mode = "CANARY" THEN {<<Center, 1>>} ELSE Points \X {1}
<1>1. planned \in SUBSET Attempts
  BY GridAssumption DEF Attempts
<1>2. CommittedWith(ledger, charged) + Cardinality(planned) <= cap /\ charged' = charged
  BY DEF Materialize, books
<1>3. \A b \in Attempts : ledger'[b] = IF b \in planned THEN "RESERVED" ELSE ledger[b]
  BY DEF Materialize, WriteTables, Claimed, Tables
<1>4. /\ ledger \in [Attempts -> RowStatus] /\ charged \in [Attempts -> Nat]
      /\ ledger' \in [Attempts -> RowStatus]
  BY LedgerType DEF TypeOK
<1> HIDE DEF planned
<1>5. QED
  BY <1>1, <1>2, <1>3, <1>4, ReservingFits

\* The retry is counted against the books its transaction has already written: with
\* the answer of its predecessor settled.
LEMMA RetryFitsIn ==
    ASSUME IInv, TypeOK', NEW w \in Procs, FinalizeRetry(w) PROVE PromisesFit'
<1> DEFINE a == cur[w]
           n == NextAttempt(a)
           t == Settled(w)
           ch == [charged EXCEPT ![a] = IF reply[w].basis = "actual"
                                        THEN reply[w].cost ELSE @]
<1>1. /\ Finalizing(w) /\ MayRetry(a) /\ Receipt(w, Claimed(t, {n}))
      /\ a \in Attempts /\ wpc[w] = "finalize" /\ Index(a) < MaxAttempts
      /\ CommittedWith(t.ledger, ch) + 1 <= cap
  BY InHand DEF IInv, FinalizeRetry, Retrying, RetryFits, Answer, Finalizing, MayRetry
<1>2. t \in TablesType /\ n \in Attempts
  BY <1>1, SettledTyped, NextIsAttempt DEF IInv
<1>3. charged' = ch
  BY <1>1 DEF Receipt
<1>4. /\ ledger' \in [Attempts -> RowStatus] /\ charged' \in [Attempts -> Nat]
  BY DEF TypeOK
<1>5. {n} \in SUBSET Attempts /\ Cardinality({n}) = 1
  BY <1>2, FS_Singleton
<1> HIDE DEF t, ch
<1>6. t.ledger \in [Attempts -> RowStatus]
  BY <1>2 DEF TablesType
<1>7. \A b \in Attempts : ledger'[b] = IF b \in {n} THEN "RESERVED" ELSE t.ledger[b]
  BY <1>1, <1>2 DEF Receipt, WriteTables, Claimed, TablesType
<1> HIDE DEF a, n
<1>8. ch \in [Attempts -> Nat] /\ TypeOK
  BY <1>3, <1>4 DEF IInv
<1>9. CommittedWith(t.ledger, ch) + Cardinality({n}) <= cap
  BY <1>1, <1>5
<1>10. QED
  BY <1>3, <1>4, <1>5, <1>6, <1>7, <1>8, <1>9, ReservingFits

LEMMA FitStep ==
    ASSUME IInv, IInv', [Next]_vars, PromisesFit PROVE PromisesFit'
<1>0. TypeOK /\ TypeOK'
  BY DEF IInv
<1>1. CASE Materialize
  BY <1>0, <1>1, MaterializeFits
<1>2. ASSUME NEW w \in Procs, Job(w) PROVE PromisesFit'
  BY <1>0, <1>2, JobReserves, RetryFitsIn, LeavingFits
<1>3. CASE ReconcileBilling
  <2>1. \A b \in Attempts : MoneyLeaves(b)
    BY <1>3 DEF ReconcileBilling, WriteTables, Tables, MoneyLeaves
  <2>2. QED
    BY <1>0, <2>1, LeavingFits
<1>4. CASE UNCHANGED ledger
  BY <1>0, <1>4, LeavingFits DEF MoneyLeaves
<1>5. ASSUME NEW d \in Dispatchers, Dispatch(d) PROVE UNCHANGED ledger
  BY <1>5 DEF Dispatch, ClaimRows, ReturnExpired, CheckRow, SkipRow, FinishRound, SendJob,
     SendFails, MarkEnqueued, LeaseLost, untouchedByDispatch
<1>6. QED
  BY <1>1, <1>2, <1>3, <1>4, <1>5
     DEF Next, LeaseExpires, untouchedByDispatch, FetchJob, Crash, Redeploy, WindowCloses,
         SetCap, slots, vars

\* Nothing is promised before approval.
LEMMA FitInit == Init => PromisesFit
<1> SUFFICES ASSUME Init PROVE PromisesFit
  OBVIOUS
<1>1. Promised(ledger, WorstCase, charged) = 0
  <2>1. [b \in DOMAIN ledger |-> Announced(ledger[b], WorstCase[b], charged[b])]
          = [b \in Attempts |-> IF b \in {} THEN 1 ELSE 0]
    BY DEF Init, Announced
  <2>2. SumFunction([b \in Attempts |-> IF b \in {} THEN 1 ELSE 0]) = 0
    BY AttemptsFinite, SumCounts, FS_EmptySet
  <2>3. QED
    BY <2>1, <2>2 DEF Promised
<1>2. cap \in Caps /\ cap \in Nat
  BY MoneyAssumption DEF Init
<1>3. QED
  BY <1>1, <1>2 DEF PromisesFit

\* However retries, settlements, refunds and caps interleave, the cycle commits no
\* more than a cap its owner set, but for what answers cost above their
\* reservations.
THEOREM SpendFitsCap == Spec => []SpendWithinCap
<1>1. IInv /\ PromisesFit => SpendWithinCap
  <2> SUFFICES ASSUME IInv, PromisesFit PROVE SpendWithinCap
    OBVIOUS
  <2>1. PICK amount \in Caps : Promised(ledger, WorstCase, charged) <= amount
    BY DEF PromisesFit
  <2>2. /\ CommittedWith(ledger, charged) = Promised(ledger, WorstCase, charged)
                                             + Overrun(ledger, WorstCase, charged)
        /\ Promised(ledger, WorstCase, charged) \in Nat
        /\ Overrun(ledger, WorstCase, charged) \in Nat
        /\ amount \in Nat
    BY LedgerType, CommittedSplits DEF IInv, CommittedWith
  <2>3. CommittedWith(ledger, charged) <= amount + Overrun(ledger, WorstCase, charged)
    BY <2>1, <2>2
  <2>4. QED
    BY <2>3 DEF SpendWithinCap
<1>2. IInv /\ IInv' /\ PromisesFit /\ [Next]_vars => PromisesFit'
  BY FitStep
<1>3. QED
  BY <1>1, <1>2, FitInit, InvariantHolds, PTL DEF Spec
=============================================================================
