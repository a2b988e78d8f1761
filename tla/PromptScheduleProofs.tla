------------------------ MODULE PromptScheduleProofs ------------------------
(***************************************************************************)
(* OneCycleAtATime of the prompt schedule, for any number of handlers,     *)
(* rows, targets, cadence and faults.  Nothing in the code counts the      *)
(* cycles of a prompt: what keeps them apart is that one row of the queue  *)
(* at most waits, that the handler of a cycle holds a row, and that the    *)
(* row outlasts it.                                                        *)
(***************************************************************************)
EXTENDS PromptSchedule, FiniteSetTheorems, TLAPS

\* A row that the worker or its sweep queued: pg-boss never retries it.
WorkerRow == [state : {"none", "created", "active"}, timer : Nat, streak : Nat,
              retries : {0}, web : {FALSE}]

Typed ==
    /\ row \in [Jobs -> WorkerRow]
    /\ step \in [Workers -> {"idle", "look", "call", "done"}]
    /\ mine \in [Workers -> Jobs \cup {NoJob}]
    /\ streak \in [Workers -> Nat]
    /\ left \in [Workers -> Nat]
    /\ task \in {"none", "schedule", "expedite"}
    /\ task = "expedite" => pulled \in Jobs

AllIdle == \A w \in Workers : step[w] = "idle"
NothingWaits == \A j \in Jobs : row[j].state # "created"

OneHandler ==
    \A v, w \in Workers : step[v] # "idle" /\ step[w] # "idle" => v = w

\* How long the row of a handler must still last.
Needed(w) ==
    CASE step[w] = "look" -> Patience
      [] step[w] = "call" -> left[w]
      [] OTHER -> 0

HoldsItsRow ==
    \A w \in Workers : step[w] # "idle" =>
        /\ mine[w] \in Jobs /\ row[mine[w]].state = "active"
        /\ row[mine[w]].timer > Needed(w)

OneWaits ==
    \A i, j \in Jobs : row[i].state = "created" /\ row[j].state = "created" => i = j

\* The successor is queued at the end of a cycle, and cannot start before it.
SuccessorWaits ==
    \A w \in Workers :
        /\ step[w] \in {"look", "call"} => NothingWaits
        /\ step[w] = "done" => \A j \in Jobs : row[j].state = "created" => row[j].timer > 0

\* What the sweep has decided stays true until it acts.
SweepIsRight ==
    /\ task = "schedule" => AllIdle /\ \A j \in Jobs : row[j].state = "none"
    /\ task = "expedite" /\ row[pulled].state = "created" => AllIdle

Single == Typed /\ OneHandler /\ HoldsItsRow /\ OneWaits /\ SuccessorWaits /\ SweepIsRight

\* Until the web application sends a job.
IInv == ~asked => Single

-----------------------------------------------------------------------------
(* The numbers.                                                             *)

LEMMA Numbers ==
    /\ Cadence \in Nat \ {0} /\ Patience \in Nat
    /\ \A m, n \in Nat : Lesser(m, n) \in Nat
    /\ \A n \in Nat : Less(n) \in Nat
BY CadenceAssumption, BoundsAssumption DEF Lesser, Less

LEMMA BackoffIsTime ==
    ASSUME NEW k \in Nat PROVE failureBackoffHours(k) \in Nat \ {0}
BY CadenceAssumption DEF failureBackoffHours, FAILURE_BACKOFF_HOURS, Lesser

LEMMA StreakIsNumber == LongestStreak \in Nat
<1> DEFINE short == {k \in DOMAIN FAILURE_BACKOFF_HOURS : FAILURE_BACKOFF_HOURS[k] < Cadence}
<1>1. DOMAIN FAILURE_BACKOFF_HOURS = 1 .. 6
  BY DEF FAILURE_BACKOFF_HOURS
<1>2. IsFiniteSet(1 .. 6)
  <2>1. 1 \in Int /\ 6 \in Int
    OBVIOUS
  <2>2. QED
    BY <2>1, FS_Interval
<1>3. short \in SUBSET (1 .. 6)
  BY <1>1
<1> HIDE DEF short
<1>4. Cardinality(short) \in Nat
  BY <1>2, <1>3, FS_Subset, FS_CardinalityType
<1>5. QED
  BY <1>4 DEF LongestStreak, short

-----------------------------------------------------------------------------
(* The queue.                                                               *)

\* A job that is inserted takes a free row, and no other.
LEMMA InsertedRow ==
    ASSUME Typed, NEW job \in WorkerRow, Insert(job)
    PROVE  \E j \in Jobs :
              /\ row[j].state = "none" /\ j # pulled
              /\ row' = [row EXCEPT ![j] = job]
BY DEF Insert, Rows

LEMMA WorkerJobTyped ==
    ASSUME NEW wait \in Nat, NEW k \in Nat
    PROVE  /\ WorkerJob(wait, k) \in WorkerRow
           /\ WorkerJob(wait, k).state = "created" /\ WorkerJob(wait, k).timer = wait
BY DEF WorkerJob, WorkerRow

LEMMA FreeTyped == Free \in WorkerRow /\ Free.state = "none"
BY DEF Free, WorkerRow

LEMMA Retimed ==
    ASSUME NEW r \in WorkerRow, NEW n \in Nat
    PROVE  /\ [r EXCEPT !.timer = n] \in WorkerRow
           /\ [r EXCEPT !.timer = n].state = r.state
           /\ [r EXCEPT !.timer = n].timer = n
           /\ n = r.timer => [r EXCEPT !.timer = n] = r
BY DEF WorkerRow

\* A worker's job that fails is not retried.
LEMMA FailedIsFree ==
    ASSUME NEW job \in WorkerRow PROVE Failed(job) = Free
BY DEF Failed, WorkerRow

\* Rows leave the queue: those that are gone were not needed by any handler.
LEMMA RowsLeave ==
    ASSUME Single, UNCHANGED <<step, streak, left, task, pulled>>,
           mine' \in [Workers -> Jobs \cup {NoJob}],
           row' \in [Jobs -> WorkerRow],
           \A w \in Workers : step[w] # "idle" =>
              mine'[w] = mine[w] /\ row'[mine[w]] = row[mine[w]],
           \A j \in Jobs : row'[j] = row[j] \/ row'[j].state = "none"
    PROVE  Single'
<1> USE DEF Single
<1>1. Typed' /\ OneHandler'
  BY DEF Typed, OneHandler
<1>2. HoldsItsRow'
  BY DEF HoldsItsRow, Needed
<1>3. OneWaits'
  BY DEF OneWaits
<1>4. SuccessorWaits'
  BY DEF SuccessorWaits, NothingWaits
<1>5. SweepIsRight'
  BY DEF SweepIsRight, AllIdle, Typed
<1>6. QED
  BY <1>1, <1>2, <1>3, <1>4, <1>5

\* Handlers leave: with no handler, nothing but the queue is left to look at.
LEMMA HandlersLeave ==
    ASSUME Single, AllIdle', row' \in [Jobs -> WorkerRow],
           step' \in [Workers -> {"idle"}],
           mine' \in [Workers -> Jobs \cup {NoJob}], streak' \in [Workers -> Nat],
           left' \in [Workers -> Nat],
           task' \in {"none", task}, task' = task => pulled' = pulled,
           \A j \in Jobs : row'[j] = row[j] \/ row'[j].state = "none"
    PROVE  Single'
<1> USE DEF Single
<1>1. Typed' /\ OneHandler'
  BY DEF Typed, OneHandler, AllIdle
<1>2. HoldsItsRow' /\ SuccessorWaits'
  BY DEF HoldsItsRow, SuccessorWaits, AllIdle
<1>3. OneWaits'
  BY DEF OneWaits
<1>4. SweepIsRight'
  BY DEF SweepIsRight, Typed
<1>5. QED
  BY <1>1, <1>2, <1>3, <1>4

\* The handler of a cycle queues its successor, or fails to, and is done.
LEMMA SuccessorQueued ==
    ASSUME Single, NEW w \in Workers, step[w] \in {"look", "call"},
           NEW delay \in Nat \ {0}, NEW k \in Nat, NEW length,
           Send(length, WorkerJob(delay, k)) \/ UNCHANGED queue,
           Goto(w, "done"), UNCHANGED <<mine, streak, left, task, pulled>>
    PROVE  Single'
<1> USE DEF Single
<1>1. /\ \A v \in Workers \ {w} : step[v] = "idle" /\ step'[v] = "idle"
      /\ step'[w] = "done" /\ step' \in [Workers -> {"idle", "look", "call", "done"}]
  BY DEF OneHandler, Goto, Typed
<1>2. /\ mine[w] \in Jobs /\ row[mine[w]].state = "active" /\ row[mine[w]].timer > 0
      /\ NothingWaits
  <2>1. mine[w] \in Jobs /\ row[mine[w]].state = "active" /\ row[mine[w]].timer > Needed(w)
    BY DEF HoldsItsRow
  <2>2. Needed(w) \in Nat /\ row[mine[w]].timer \in Nat
    BY <2>1, Numbers DEF Needed, Typed, WorkerRow
  <2>3. NothingWaits
    BY DEF SuccessorWaits
  <2>4. QED
    BY <2>1, <2>2, <2>3
<1>3. \/ row' = row
      \/ \E j \in Jobs : /\ row[j].state = "none" /\ j # pulled
                         /\ row' = [row EXCEPT ![j] = WorkerJob(delay, k)]
  BY InsertedRow, WorkerJobTyped DEF Send, queue
<1>4. /\ row' \in [Jobs -> WorkerRow] /\ row'[mine[w]] = row[mine[w]]
      /\ \A i, j \in Jobs : row'[i].state = "created" /\ row'[j].state = "created" => i = j
      /\ \A j \in Jobs : row'[j].state = "created" => row'[j].timer > 0 /\ j # pulled
  <2>1. CASE row' = row
    BY <1>2, <2>1 DEF NothingWaits, Typed
  <2>2. CASE row' # row
    <3>1. PICK j \in Jobs : /\ row[j].state = "none" /\ j # pulled
                            /\ row' = [row EXCEPT ![j] = WorkerJob(delay, k)]
      BY <1>3, <2>2
    <3>2. QED
      BY <1>2, <3>1, WorkerJobTyped DEF NothingWaits, Typed
  <2>3. QED
    BY <2>1, <2>2
<1>5. Typed' /\ OneHandler' /\ OneWaits'
  BY <1>1, <1>4 DEF Typed, OneHandler, OneWaits
<1>6. HoldsItsRow'
  BY <1>1, <1>2, <1>4 DEF HoldsItsRow, Needed
<1>7. SuccessorWaits'
  BY <1>1, <1>4 DEF SuccessorWaits
<1>8. SweepIsRight'
  BY <1>1, <1>4 DEF SweepIsRight, AllIdle, Typed
<1>9. QED
  BY <1>5, <1>6, <1>7, <1>8

-----------------------------------------------------------------------------
(* The steps.  What the provider may take is less than a job lasts: the     *)
(* expiry "has to outlast the whole fan-out" (PROMPT_JOB_OPTIONS).          *)

\* A job starts only when no other handler is at work.
LEMMA FetchSingle ==
    ASSUME Single, Patience < Expiry(WorkerJob(0, 0)),
           NEW j \in Jobs, NEW w \in Workers, Fetch(w, j)
    PROVE  Single'
<1> USE DEF Single
<1>1. row[j].state = "created" /\ row[j].timer = 0 /\ row[j] \in WorkerRow
  BY DEF Fetch, Typed, Waiting, WorkerRow
<1>2. AllIdle
  BY <1>1 DEF AllIdle, SuccessorWaits, NothingWaits, Typed
<1>3. task # "schedule" /\ (task = "expedite" /\ row[pulled].state = "created" => pulled = j)
  BY <1>1 DEF SweepIsRight, OneWaits, Typed
<1>4. CASE gate
  <2>1. /\ row' = [row EXCEPT ![j] = [@ EXCEPT !.state = "active", !.timer = 6]]
        /\ mine' = [mine EXCEPT ![w] = j]
        /\ streak' = [streak EXCEPT ![w] = row[j].streak]
        /\ step' = [step EXCEPT ![w] = "look"]
        /\ UNCHANGED <<left, task, pulled>>
    BY <1>1, <1>4 DEF Fetch, Goto, Expiry, WorkerRow, cycle, sweep, Typed
  <2>2. [row[j] EXCEPT !.state = "active", !.timer = 6] \in WorkerRow
    BY <1>1 DEF WorkerRow
  <2>3. /\ row' \in [Jobs -> WorkerRow] /\ row'[j].state = "active" /\ row'[j].timer = 6
        /\ \A i \in Jobs \ {j} : row'[i] = row[i]
    BY <1>1, <2>1, <2>2 DEF Typed, WorkerRow
  <2>4. row[j].streak \in Nat
    BY <1>1 DEF WorkerRow
  <2>5. /\ step'[w] = "look" /\ mine'[w] = j /\ \A v \in Workers \ {w} : step'[v] = "idle"
    BY <1>2, <2>1 DEF AllIdle, Typed
  <2>6. Typed' /\ OneHandler'
    BY <2>1, <2>3, <2>4, <2>5 DEF Typed, OneHandler
  <2>7. Patience < 6
    BY DEF Expiry, WorkerJob
  <2>8. HoldsItsRow'
    BY <2>3, <2>5, <2>7, Numbers DEF HoldsItsRow, Needed
  <2>9. NothingWaits' /\ OneWaits'
    BY <1>1, <2>3 DEF NothingWaits, OneWaits
  <2>10. SuccessorWaits' /\ SweepIsRight'
    BY <1>3, <2>1, <2>3, <2>9 DEF SuccessorWaits, SweepIsRight, NothingWaits, Typed
  <2>11. QED
    BY <2>6, <2>8, <2>9, <2>10
<1>5. CASE ~gate
  <2>1. row' = [row EXCEPT ![j] = Free] /\ UNCHANGED <<mine, streak, step, left, task, pulled>>
    BY <1>5 DEF Fetch, sweep
  <2>2. /\ row' \in [Jobs -> WorkerRow] /\ mine' \in [Workers -> Jobs \cup {NoJob}]
        /\ \A i \in Jobs : row'[i] = row[i] \/ row'[i].state = "none"
        /\ \A i \in Jobs \ {j} : row'[i] = row[i]
    BY <2>1, FreeTyped DEF Typed
  <2>3. \A v \in Workers : step[v] = "idle"
    BY <1>2 DEF AllIdle
  <2>4. QED
    BY <2>1, <2>2, <2>3, RowsLeave
<1>6. QED
  BY <1>4, <1>5

LEMMA CallSingle ==
    ASSUME Single, NEW w \in Workers, Call(w) PROVE Single'
<1> USE DEF Single
<1>1. /\ step[w] = "look" /\ step' = [step EXCEPT ![w] = "call"]
      /\ left' = [left EXCEPT ![w] = Patience]
      /\ UNCHANGED <<row, mine, streak, task, pulled>>
  BY DEF Call, Goto, queue, sweep
<1>2. /\ step'[w] = "call" /\ left'[w] = Patience
      /\ \A v \in Workers \ {w} : step[v] = "idle" /\ step'[v] = "idle"
  BY <1>1 DEF Typed, OneHandler
<1>3. Typed' /\ OneHandler' /\ OneWaits'
  BY <1>1, <1>2, Numbers DEF Typed, OneHandler, OneWaits
<1>4. HoldsItsRow'
  BY <1>1, <1>2 DEF HoldsItsRow, Needed
<1>5. SuccessorWaits' /\ SweepIsRight'
  BY <1>1, <1>2 DEF SuccessorWaits, NothingWaits, SweepIsRight, AllIdle
<1>6. QED
  BY <1>3, <1>4, <1>5

LEMMA HandleSingle ==
    ASSUME Single, NEW w \in Workers, Handle(w) PROVE Single'
<1>0. Typed /\ row \in [Jobs -> WorkerRow]
  BY DEF Single, Typed
<1>1. CASE Call(w)
  BY <1>1, CallSingle
<1>2. ASSUME NEW k \in Nat, step[w] \in {"look", "call"}, ScheduleNextRun(w, k),
             UNCHANGED <<mine, streak, left, task, pulled>>
      PROVE  Single'
  <2>1. failureBackoffHours(k) \in Nat \ {0}
    BY <1>2, BackoffIsTime
  <2>2. /\ \/ Send(failureBackoffHours(k), WorkerJob(failureBackoffHours(k), k))
           \/ UNCHANGED queue
        /\ Goto(w, "done")
    BY <1>2 DEF ScheduleNextRun
  <2>3. QED
    BY <1>2, <2>1, <2>2, SuccessorQueued
<1>3. CASE Pass(w)
  <2>1. step[w] = "look" /\ UNCHANGED <<mine, streak, left, task, pulled>>
    BY <1>3 DEF Pass, sweep
  <2>2. CASE enabled /\ ~entitled
    BY <1>3, <2>1, <2>2, SuccessorQueued, Numbers DEF Pass
  <2>3. CASE ~(enabled /\ ~entitled)
    BY <1>2, <1>3, <2>1, <2>3 DEF Pass
  <2>4. QED
    BY <2>2, <2>3
<1>4. CASE PassCeiling(w)
  BY <1>4, SuccessorQueued, Numbers DEF PassCeiling, sweep
<1>5. CASE Throw(w) \/ Complete(w)
  <2>1. /\ step[w] # "idle" /\ Leave({w}) /\ UNCHANGED <<task, pulled>>
        /\ \/ row' = [j \in Jobs |-> IF j = mine[w] THEN Failed(row[j]) ELSE row[j]]
           \/ row' = [j \in Jobs |-> IF j = mine[w] THEN Free ELSE row[j]]
    BY <1>5 DEF Throw, Complete, sweep
  <2>2. /\ row' \in [Jobs -> WorkerRow]
        /\ \A j \in Jobs : row'[j] = row[j] \/ row'[j].state = "none"
    BY <1>0, <2>1, FailedIsFree, FreeTyped
  <2>3. /\ \A v \in Workers : step'[v] = "idle"
        /\ step' \in [Workers -> {"idle"}]
        /\ mine' \in [Workers -> Jobs \cup {NoJob}] /\ streak' \in [Workers -> Nat]
        /\ left' \in [Workers -> Nat]
    BY <1>0, <2>1 DEF Leave, Single, OneHandler, Typed
  <2>4. QED
    BY <2>1, <2>2, <2>3, HandlersLeave DEF AllIdle, Single, Typed
<1>6. ASSUME NEW t \in Targets, Answer(w, t) PROVE Single'
  BY <1>0, <1>6, RowsLeave DEF Answer, queue, sweep, Single, Typed
<1>7. CASE FinishCycle(w)
  <2>1. /\ step[w] = "call" /\ UNCHANGED <<mine, streak, left, task, pulled>>
        /\ ScheduleNextRun(w, IF good[w] THEN 0 ELSE Lesser(streak[w] + 1, LongestStreak))
    BY <1>7 DEF FinishCycle, sweep
  <2>2. (IF good[w] THEN 0 ELSE Lesser(streak[w] + 1, LongestStreak)) \in Nat
    BY <1>0, StreakIsNumber DEF Typed, Lesser
  <2>3. QED
    BY <1>2, <2>1, <2>2
<1>8. QED
  BY <1>1, <1>3, <1>4, <1>5, <1>6, <1>7 DEF Handle

\* The row of a handler at work does not run out: it goes on for less long.
LEMMA ExpireSingle ==
    ASSUME Single, NEW j \in Jobs, Expire(j) PROVE Single'
<1> USE DEF Single
<1>1. /\ row[j].state = "active" /\ row[j].timer = 0 /\ row[j] \in WorkerRow
      /\ row' = [row EXCEPT ![j] = Free]
      /\ mine' = [w \in Workers |-> IF mine[w] = j THEN NoJob ELSE mine[w]]
      /\ UNCHANGED <<step, streak, left, task, pulled>>
  BY FailedIsFree DEF Expire, Typed, sweep
<1>2. \A w \in Workers : step[w] # "idle" => mine[w] # j /\ mine[w] \in Jobs
  <2> SUFFICES ASSUME NEW w \in Workers, step[w] # "idle"
               PROVE  mine[w] # j /\ mine[w] \in Jobs
    OBVIOUS
  <2>1. Needed(w) \in Nat
    BY Numbers DEF Needed, Typed
  <2>2. mine[w] \in Jobs /\ row[mine[w]].timer > Needed(w)
    BY DEF HoldsItsRow
  <2>3. QED
    BY <1>1, <2>1, <2>2
<1>3. /\ row' \in [Jobs -> WorkerRow] /\ mine' \in [Workers -> Jobs \cup {NoJob}]
      /\ \A i \in Jobs : row'[i] = row[i] \/ row'[i].state = "none"
      /\ \A w \in Workers : step[w] # "idle" =>
           mine'[w] = mine[w] /\ row'[mine[w]] = row[mine[w]]
  BY <1>1, <1>2, FreeTyped DEF Typed
<1>4. QED
  BY <1>1, <1>3, RowsLeave

\* Without an active row no handler is at work; without any, nothing waits.
LEMMA SweepSingle ==
    ASSUME Single, Sweep PROVE Single'
<1> USE DEF Single
<1>1. UNCHANGED <<row, step, mine, streak, left>>
  BY DEF Sweep, queue, cycle
<1>2. ToSchedule => AllIdle /\ \A j \in Jobs : row[j].state = "none"
  BY DEF ToSchedule, Neglected, Rows, AllIdle, HoldsItsRow, Typed, WorkerRow
<1>3. \A j \in ToExpedite : AllIdle /\ j \in Jobs
  BY DEF ToExpedite, Neglected, Rows, AllIdle, HoldsItsRow
<1>4. /\ task' \in {"none", "schedule", "expedite"}
      /\ task' = "schedule" => AllIdle /\ \A j \in Jobs : row[j].state = "none"
      /\ task' = "expedite" => AllIdle /\ pulled' \in Jobs
  BY <1>2, <1>3 DEF Sweep
<1>5. Typed' /\ OneHandler' /\ HoldsItsRow' /\ OneWaits' /\ SuccessorWaits'
  BY <1>1, <1>4
     DEF Typed, OneHandler, HoldsItsRow, Needed, OneWaits, SuccessorWaits, NothingWaits
<1>6. SweepIsRight'
  BY <1>1, <1>4 DEF SweepIsRight, AllIdle
<1>7. QED
  BY <1>5, <1>6

LEMMA ScheduleSingle ==
    ASSUME Single, Schedule PROVE Single'
<1> USE DEF Single
<1>1. /\ AllIdle /\ \A j \in Jobs : row[j].state = "none"
      /\ task' = "none" /\ UNCHANGED <<step, mine, streak, left>>
      /\ Send(Hour, WorkerJob(0, 0)) \/ UNCHANGED queue
  BY DEF Schedule, SweepIsRight, cycle
<1>2. row' \in [Jobs -> WorkerRow] /\ OneWaits'
  <2>1. CASE row' = row
    BY <2>1 DEF Typed, OneWaits
  <2>2. CASE row' # row
    <3>1. WorkerJob(0, 0) \in WorkerRow
      BY WorkerJobTyped
    <3>2. Insert(WorkerJob(0, 0))
      BY <1>1, <2>2 DEF Send, queue
    <3>3. PICK j \in Jobs : row' = [row EXCEPT ![j] = WorkerJob(0, 0)]
      BY <3>1, <3>2, InsertedRow
    <3>4. QED
      BY <1>1, <3>1, <3>3 DEF Typed, OneWaits
  <2>3. QED
    BY <2>1, <2>2
<1>3. Typed' /\ OneHandler' /\ HoldsItsRow' /\ SuccessorWaits' /\ SweepIsRight'
  BY <1>1, <1>2
     DEF Typed, OneHandler, HoldsItsRow, SuccessorWaits, SweepIsRight, AllIdle
<1>4. QED
  BY <1>2, <1>3

\* A row is pulled forward only while no handler waits for it.
LEMMA ExpediteSingle ==
    ASSUME Single, Expedite PROVE Single'
<1> USE DEF Single
<1>1. /\ pulled \in Jobs /\ task' = "none" /\ UNCHANGED <<step, mine, streak, left>>
      /\ \/ row' = row
         \/ row' = [row EXCEPT ![pulled].timer = IF row[pulled].state = "created" THEN 0 ELSE @]
  BY DEF Expedite, Typed, cycle
<1>2. row[pulled] \in WorkerRow
  BY <1>1 DEF Typed
<1>3. /\ row' \in [Jobs -> WorkerRow]
      /\ \A j \in Jobs : row'[j].state = row[j].state
      /\ \A j \in Jobs : row'[j] = row[j] \/ (j = pulled /\ row[pulled].state = "created")
  <2>1. CASE row' = row
    BY <2>1 DEF Typed
  <2>2. CASE row' # row
    <3> DEFINE n == IF row[pulled].state = "created" THEN 0 ELSE row[pulled].timer
    <3>1. row' = [row EXCEPT ![pulled] = [@ EXCEPT !.timer = n]]
      BY <1>1, <2>2
    <3>2. n \in Nat
      BY <1>2 DEF WorkerRow
    <3>3. row[pulled].state # "created" => n = row[pulled].timer
      OBVIOUS
    <3> HIDE DEF n
    <3>4. /\ row'[pulled] = [row[pulled] EXCEPT !.timer = n]
          /\ \A j \in Jobs \ {pulled} : row'[j] = row[j]
          /\ row' = [j \in Jobs |-> row'[j]]
      BY <1>1, <3>1 DEF Typed
    <3>5. /\ row'[pulled] \in WorkerRow /\ row'[pulled].state = row[pulled].state
          /\ row[pulled].state # "created" => row'[pulled] = row[pulled]
      BY <1>2, <3>2, <3>3, <3>4, Retimed
    <3>6. QED
      BY <1>1, <3>4, <3>5 DEF Typed
  <2>3. QED
    BY <2>1, <2>2
<1>4. (\E j \in Jobs : row'[j] # row[j]) => AllIdle
  BY <1>3 DEF SweepIsRight, Expedite
<1>5. Typed' /\ OneHandler' /\ OneWaits' /\ SweepIsRight'
  BY <1>1, <1>3 DEF Typed, OneHandler, OneWaits, SweepIsRight
<1>6. HoldsItsRow' /\ SuccessorWaits'
  BY <1>1, <1>3, <1>4
     DEF HoldsItsRow, Needed, SuccessorWaits, NothingWaits, AllIdle
<1>7. QED
  BY <1>5, <1>6

\* Time goes by for a row and for the provider its handler waits for.
LEMMA TickSingle ==
    ASSUME Single, Tick PROVE Single'
<1> USE DEF Single
<1>1. /\ row' = [j \in Jobs |-> [row[j] EXCEPT !.timer = Less(@)]]
      /\ left' = [w \in Workers |-> Less(left[w])]
      /\ task = "none" /\ UNCHANGED <<step, mine, streak, task, pulled>>
      /\ \A w \in Workers : step[w] = "idle" \/ (step[w] = "call" /\ left[w] > 0)
  BY DEF Tick, Settled
<1>2. \A j \in Jobs : row[j] \in WorkerRow
  BY DEF Typed
<1>3. \A j \in Jobs : /\ row'[j] \in WorkerRow /\ row'[j].state = row[j].state
                      /\ row'[j].timer = Less(row[j].timer)
  <2> SUFFICES ASSUME NEW j \in Jobs
               PROVE  /\ row'[j] \in WorkerRow /\ row'[j].state = row[j].state
                      /\ row'[j].timer = Less(row[j].timer)
    OBVIOUS
  <2>1. row'[j] = [row[j] EXCEPT !.timer = Less(row[j].timer)]
    BY <1>1
  <2>2. row[j] \in WorkerRow /\ Less(row[j].timer) \in Nat
    BY <1>2, Numbers DEF WorkerRow
  <2>3. QED
    BY <2>1, <2>2, Retimed
<1>4. Typed' /\ OneHandler' /\ OneWaits' /\ SweepIsRight'
  <2>1. row' = [j \in Jobs |-> row'[j]]
    BY <1>1
  <2>2. row' \in [Jobs -> WorkerRow]
    BY <1>3, <2>1
  <2>3. left' \in [Workers -> Nat]
    <3>1. \A w \in Workers : Less(left[w]) \in Nat
      BY Numbers DEF Typed
    <3>2. QED
      BY <1>1, <3>1
  <2>4. Typed'
    BY <1>1, <2>2, <2>3 DEF Typed
  <2>5. OneHandler' /\ SweepIsRight'
    BY <1>1 DEF OneHandler, SweepIsRight
  <2>6. OneWaits'
    BY <1>3 DEF OneWaits
  <2>7. QED
    BY <2>4, <2>5, <2>6
<1>5. SuccessorWaits'
  BY <1>1, <1>3 DEF SuccessorWaits, NothingWaits
<1>6. HoldsItsRow'
  <2> SUFFICES ASSUME NEW w \in Workers, step'[w] # "idle"
               PROVE  /\ mine'[w] \in Jobs /\ row'[mine'[w]].state = "active"
                      /\ row'[mine'[w]].timer > Needed(w)'
    BY DEF HoldsItsRow
  <2>1. /\ step[w] = "call" /\ left[w] > 0 /\ left[w] \in Nat
        /\ mine[w] \in Jobs /\ row[mine[w]].state = "active"
        /\ row[mine[w]].timer > left[w] /\ row[mine[w]].timer \in Nat
    BY <1>1, <1>2 DEF HoldsItsRow, Needed, Typed, WorkerRow
  <2>2. Needed(w)' = Less(left[w]) /\ row'[mine[w]].timer = Less(row[mine[w]].timer)
    BY <1>1, <1>3, <2>1 DEF Needed
  <2>3. QED
    BY <1>1, <1>3, <2>1, <2>2 DEF Less
<1>7. QED
  BY <1>4, <1>5, <1>6

LEMMA StopSingle ==
    ASSUME Single, UNCHANGED row, Stopped PROVE Single'
<1>1. /\ step' \in [Workers -> {"idle"}] /\ \A w \in Workers : step'[w] = "idle"
      /\ mine' \in [Workers -> Jobs \cup {NoJob}] /\ streak' \in [Workers -> Nat]
      /\ left' \in [Workers -> Nat] /\ row' \in [Jobs -> WorkerRow]
  BY DEF Stopped, Leave, Single, Typed
<1>2. /\ Typed' /\ OneHandler'
  BY <1>1 DEF Typed, OneHandler, Stopped
<1>3. QED
  BY <1>1, <1>2
     DEF Single, HoldsItsRow, OneWaits, SuccessorWaits, SweepIsRight, Stopped

LEMMA SingleStep ==
    ASSUME Single, [Next]_vars, ~asked', Patience < Expiry(WorkerJob(0, 0))
    PROVE  Single'
<1>1. ASSUME NEW j \in Jobs, NEW w \in Workers, Fetch(w, j) PROVE Single'
  BY <1>1, FetchSingle
<1>2. ASSUME NEW w \in Workers, Handle(w) PROVE Single'
  BY <1>2, HandleSingle
<1>3. ASSUME NEW j \in Jobs, Expire(j) PROVE Single'
  BY <1>3, ExpireSingle
<1>4. CASE Sweep \/ Schedule \/ Expedite \/ Tick
  BY <1>4, SweepSingle, ScheduleSingle, ExpediteSingle, TickSingle
<1>5. ~(SendScheduler \/ expeditePromptRuns \/ sendImmediatePromptJob)
  BY DEF SendScheduler, expeditePromptRuns, sendImmediatePromptJob, Asked
<1>6. CASE Redeploy \/ Crash
  BY <1>6, StopSingle DEF Redeploy, Crash, queue
<1>7. CASE SwitchPrompt \/ ChangePlan \/ UNCHANGED vars
  <2>1. UNCHANGED <<queue, cycle, sweep>>
    BY <1>7 DEF SwitchPrompt, ChangePlan, vars
  <2>2. QED
    BY <2>1, RowsLeave DEF queue, cycle, sweep, Single, Typed
<1>8. QED
  BY <1>1, <1>2, <1>3, <1>4, <1>5, <1>6, <1>7 DEF Next, Take, Web

LEMMA AskedIsFinal ==
    ASSUME [Next]_vars, ~asked' PROVE ~asked
BY DEF Next, Take, Fetch, Handle, Call, Pass, PassCeiling, Throw, Answer, FinishCycle,
   Complete, Expire, Sweep, Schedule, Expedite, Web, SendScheduler, expeditePromptRuns,
   sendImmediatePromptJob, SwitchPrompt, Asked, ChangePlan, Redeploy, Crash, Tick, bounds, vars

-----------------------------------------------------------------------------

\* At most one handler is at work, and so at most one calls.
LEMMA SingleCounts == IInv => OneCycleAtATime
<1> DEFINE calling == {w \in Workers : step[w] = "call"}
<1> SUFFICES ASSUME IInv, ~asked PROVE Cardinality(calling) <= 1
  BY DEF OneCycleAtATime
<1>1. \A v, w \in calling : v = w
  BY DEF IInv, Single, OneHandler
<1> HIDE DEF calling
<1>2. CASE calling = {}
  BY <1>2, FS_EmptySet
<1>3. ASSUME NEW w \in calling PROVE Cardinality(calling) <= 1
  <2>1. calling = {w}
    BY <1>1, <1>3
  <2>2. QED
    BY <2>1, FS_Singleton
<1>4. QED
  BY <1>2, <1>3

\* If the row of a job outlasts the providers of its cycle, a prompt is never run by
\* two cycles at once before the web application sends a job of its own: not
\* after expired jobs, restarts or failed sends, and not when the sweep decides
\* between the end of a cycle and the row of the next.
THEOREM OneCycleThm ==
    ASSUME Patience < Expiry(WorkerJob(0, 0))
    PROVE  Spec => []OneCycleAtATime
<1>1. Init => IInv
  <2> SUFFICES ASSUME Init PROVE Single
    BY DEF IInv
  <2>1. Typed
    BY FreeTyped DEF Init, Typed
  <2>2. QED
    BY <2>1, FreeTyped
       DEF Init, Single, OneHandler, HoldsItsRow, OneWaits, SuccessorWaits, SweepIsRight
<1>2. IInv /\ [Next]_vars => IInv'
  BY SingleStep, AskedIsFinal DEF IInv
<1>3. QED
  BY <1>1, <1>2, SingleCounts, PTL DEF Spec
=============================================================================
