--------------------------- MODULE PromptSchedule ---------------------------
(***************************************************************************)
(* One tracked prompt and the jobs that run it.  A job of process-prompt   *)
(* calls the targets that are due and queues its own successor: a cadence  *)
(* later, or sooner after a cycle in which everything failed.  The         *)
(* maintenance sweep starts a prompt that is overdue and has no job, or    *)
(* pulls its next job forward, and the web application sends jobs of its   *)
(* own.  Most sends go through a slot of time that pg-boss lets one job    *)
(* hold; when it is taken the send does nothing.                           *)
(*                                                                         *)
(* Time goes by in quarters of an hour, the shortest back-off; within one  *)
(* only the order of the steps is known.                                   *)
(***************************************************************************)
EXTENDS Naturals, Sequences, FiniteSets

CONSTANTS
    Targets,        \* the (model, provider, web search) triples of the plan
    Workers,        \* the handlers of the worker process
    Jobs,           \* bound: rows of pgboss.job that are not finished
    Cadence,        \* the interval of every target, in quarters
    Patience,       \* quarters that a provider may take
    RetryLimit,     \* of a job that the web application sends
    WebSends,       \* whether the web application sends jobs
    Countable,      \* bound: what the meter can show
    MaxFaults,      \* bound: crashes, failures, switches thrown, jobs of the web
    NoJob

Hour == 4
FAILURE_BACKOFF_HOURS == <<1, 2, 4, 8, 16, 32>>

ASSUME JobsAssumption == NoJob \notin Jobs
ASSUME CadenceAssumption == Cadence \in Nat \ {0}
\* Every slot lies in one cadence.
ASSUME SlotsAssumption ==
    /\ Cadence % Hour = 0
    /\ \A k \in DOMAIN FAILURE_BACKOFF_HOURS :
          FAILURE_BACKOFF_HOURS[k] < Cadence => Cadence % FAILURE_BACKOFF_HOURS[k] = 0
ASSUME BoundsAssumption ==
    {Patience, RetryLimit, Countable, MaxFaults} \subseteq Nat /\ WebSends \in BOOLEAN

VARIABLES
    clock,          \* the quarter of the cadence
    row,            \* pgboss.job
    taken,          \* singleton_on of the rows of this cadence, finished or not
    age,            \* quarters since the last recorded run of a target
    enabled,        \* prompts.enabled and brands.enabled
    entitled,       \* its plan has targets
    gate,           \* the switches in the environment of the worker
    step,           \* of a handler: "idle", "look", "call" or "done"
    mine,           \* the row it holds, until that expires
    streak,         \* consecutiveFailures of its job
    ask,            \* targets it has called and that have not answered
    good,           \* whether a run of its cycle succeeded
    left,           \* quarters its providers still have
    task, pulled,   \* what the sweep decided: a row to pull forward, or a new job
    swept,          \* whether it was there in this quarter
    faults,
    asked,          \* whether the web application has sent a job
    meter           \* history: calls of a target in this cadence

queue == <<row, taken>>
control == <<enabled, entitled, gate>>
cycle == <<step, mine, streak, ask, good, left>>
sweep == <<task, pulled, swept>>
bounds == <<faults, asked>>
vars == <<clock, queue, age, control, cycle, sweep, bounds, meter>>

Lesser(m, n) == IF m < n THEN m ELSE n
Less(n) == IF n = 0 THEN 0 ELSE n - 1

\* dueToleranceMs.
Tolerance == Lesser(2, Cadence \div 4)

\* Past the cadence nothing tells an old run from one outside the window of the
\* query, or from none.
Forgotten == Cadence + 1

Free == [state |-> "none", timer |-> 0, streak |-> 0, retries |-> 0, web |-> FALSE]
Waiting == {"created", "retry"}
Rows(states) == {j \in Jobs : row[j].state \in states}

Init ==
    /\ clock \in 0 .. Cadence - 1
    /\ row = [j \in Jobs |-> Free]
    /\ taken = {}
    /\ age = [t \in Targets |-> Forgotten]
    /\ enabled = TRUE /\ entitled = TRUE /\ gate = TRUE
    /\ step = [w \in Workers |-> "idle"]
    /\ mine = [w \in Workers |-> NoJob]
    /\ streak = [w \in Workers |-> 0]
    /\ ask = [w \in Workers |-> {}]
    /\ good = [w \in Workers |-> FALSE]
    /\ left = [w \in Workers |-> 0]
    /\ task = "none" /\ pulled = NoJob /\ swept = FALSE
    /\ faults = 0 /\ asked = FALSE
    /\ meter = [t \in Targets |-> 0]

Fault == faults < MaxFaults /\ faults' = faults + 1
Asked == WebSends /\ Fault /\ asked' = TRUE

-----------------------------------------------------------------------------
(* The queue.                                                               *)

\* singletonSeconds cuts time into slots of that length, and a slot is known by
\* its beginning alone: slots of two lengths that begin together are one.
Slot(length) == length * (clock \div length)

WorkerJob(wait, k) ==
    [state |-> "created", timer |-> wait, streak |-> k, retries |-> 0, web |-> FALSE]
WebJob ==
    [state |-> "created", timer |-> 0, streak |-> 0, retries |-> RetryLimit, web |-> TRUE]

\* The rows that are free are alike.
Insert(job) ==
    LET room == Rows({"none"}) \ {pulled} IN
    /\ room # {}
    /\ row' = [row EXCEPT ![CHOOSE j \in room : TRUE] = job]

\* A send into a taken slot returns null, which no caller looks at.
Send(length, job) ==
    IF Slot(length) \in taken THEN UNCHANGED queue
    ELSE Insert(job) /\ taken' = taken \cup {Slot(length)}

\* A bug to catch: every job has the fifteen minutes it once had.
ExpiryOnceHad(job) == 1

\* expireInSeconds: 90 minutes, and 15 in the web application.
Expiry(job) == IF job.web THEN 1 ELSE 6

Failed(job) ==
    IF job.retries = 0 THEN Free
    ELSE [job EXCEPT !.state = "retry", !.timer = 0, !.retries = @ - 1]

\* The handler of an expired job goes on.
Expire(j) ==
    /\ row[j].state = "active" /\ row[j].timer = 0
    /\ row' = [row EXCEPT ![j] = Failed(@)]
    /\ mine' = [w \in Workers |-> IF mine[w] = j THEN NoJob ELSE mine[w]]
    /\ UNCHANGED <<clock, taken, age, control, step, streak, ask, good, left,
                   sweep, bounds, meter>>

-----------------------------------------------------------------------------
(* The job process-prompt.                                                  *)

Goto(w, s) == step' = [step EXCEPT ![w] = s]

Leave(who) ==
    /\ step' = [w \in Workers |-> IF w \in who THEN "idle" ELSE step[w]]
    /\ mine' = [w \in Workers |-> IF w \in who THEN NoJob ELSE mine[w]]
    /\ streak' = [w \in Workers |-> IF w \in who THEN 0 ELSE streak[w]]
    /\ ask' = [w \in Workers |-> IF w \in who THEN {} ELSE ask[w]]
    /\ good' = [w \in Workers |-> good[w] /\ w \notin who]
    /\ left' = [w \in Workers |-> IF w \in who THEN 0 ELSE left[w]]

\* One idle handler is as good as another.  With a closed switch the job
\* completes and has no successor.
Fetch(w, j) ==
    /\ step[w] = "idle" /\ w = CHOOSE v \in Workers : step[v] = "idle"
    /\ row[j].state \in Waiting /\ row[j].timer = 0
    /\ IF gate
       THEN /\ row' = [row EXCEPT ![j].state = "active", ![j].timer = Expiry(row[j])]
            /\ mine' = [mine EXCEPT ![w] = j]
            /\ streak' = [streak EXCEPT ![w] = row[j].streak]
            /\ Goto(w, "look")
       ELSE /\ row' = [row EXCEPT ![j] = Free]
            /\ UNCHANGED <<mine, streak, step>>
    /\ UNCHANGED <<clock, taken, age, control, ask, good, left, sweep, bounds, meter>>

failureBackoffHours(k) ==
    IF k = 0 \/ k > Len(FAILURE_BACKOFF_HOURS) THEN Cadence
    ELSE Lesser(FAILURE_BACKOFF_HOURS[k], Cadence)

\* The send may fail; the error is swallowed.
ScheduleNextRun(w, k) ==
    LET delay == failureBackoffHours(k) IN
    /\ \/ Send(delay, WorkerJob(delay, k)) /\ UNCHANGED faults
       \/ Fault /\ UNCHANGED queue
    /\ Goto(w, "done")

selectDueTargets == {t \in Targets : age[t] >= Cadence - Tolerance}
Runnable == enabled /\ entitled /\ selectDueTargets # {}

Call(w) ==
    /\ step[w] = "look" /\ Runnable
    /\ ask' = [ask EXCEPT ![w] = selectDueTargets]
    /\ left' = [left EXCEPT ![w] = Patience]
    /\ meter' = [t \in Targets |->
                    IF t \in selectDueTargets THEN Lesser(meter[t] + 1, Countable)
                                              ELSE meter[t]]
    /\ Goto(w, "call")
    /\ UNCHANGED <<clock, queue, age, control, mine, streak, good, sweep, bounds>>

\* Disabled, or nothing is due; a plan without targets stops the prompt.
Pass(w) ==
    /\ step[w] = "look" /\ ~Runnable
    /\ IF enabled /\ ~entitled
       THEN Goto(w, "done") /\ UNCHANGED <<queue, faults>>
       ELSE ScheduleNextRun(w, 0)
    /\ UNCHANGED <<clock, age, control, mine, streak, ask, good, left, sweep, asked, meter>>

\* The organisation is over its daily ceiling.
PassCeiling(w) ==
    /\ step[w] = "look" /\ Runnable /\ Fault
    /\ Send(Cadence, WorkerJob(Cadence, 0))
    /\ Goto(w, "done")
    /\ UNCHANGED <<clock, age, control, mine, streak, ask, good, left, sweep, asked, meter>>

\* A query throws before anything is called.
Throw(w) ==
    /\ step[w] = "look" /\ Fault
    /\ row' = [j \in Jobs |-> IF j = mine[w] THEN Failed(row[j]) ELSE row[j]]
    /\ Leave({w})
    /\ UNCHANGED <<clock, taken, age, control, sweep, asked, meter>>

\* The call fails, or its run cannot be saved, or the run is saved and its
\* citations are not, which counts as a failure too.
Answer(w, t) ==
    /\ step[w] = "call" /\ t \in ask[w]
    /\ ask' = [ask EXCEPT ![w] = @ \ {t}]
    /\ \E saved, success \in BOOLEAN :
          /\ success => saved
          /\ age' = IF saved THEN [age EXCEPT ![t] = 0] ELSE age
          /\ good' = [good EXCEPT ![w] = @ \/ success]
    /\ UNCHANGED <<clock, queue, control, step, mine, streak, left, sweep, bounds, meter>>

\* A longer streak means no longer wait.
LongestStreak ==
    Cardinality({k \in DOMAIN FAILURE_BACKOFF_HOURS : FAILURE_BACKOFF_HOURS[k] < Cadence}) + 1

FinishCycle(w) ==
    /\ step[w] = "call" /\ ask[w] = {}
    /\ ScheduleNextRun(w, IF good[w] THEN 0
                          ELSE Lesser(streak[w] + 1, LongestStreak))
    /\ UNCHANGED <<clock, age, control, mine, streak, ask, good, left, sweep, asked, meter>>

Complete(w) ==
    /\ step[w] = "done"
    /\ row' = [j \in Jobs |-> IF j = mine[w] THEN Free ELSE row[j]]
    /\ Leave({w})
    /\ UNCHANGED <<clock, taken, age, control, sweep, bounds, meter>>

-----------------------------------------------------------------------------
(* The sweep schedule-maintenance.                                          *)

\* targetOverdueStatus, of any target.
Overdue == \E t \in Targets : age[t] > Cadence

shouldExpediteJob(j) ==
    /\ row[j].streak = 0
    /\ \A t \in Targets : age[t] >= Lesser(Cadence, Hour)

\* computeMaintenanceDecisions, for this prompt.
Neglected == enabled /\ entitled /\ Overdue /\ Rows({"active", "retry"}) = {}
ToExpedite == IF Neglected THEN {j \in Rows({"created"}) : shouldExpediteJob(j)} ELSE {}

\* A bug to catch: a prompt with nothing on record is left to the web application.
ToScheduleRecorded ==
    /\ Neglected /\ Rows({"created"}) = {}
    /\ \E t \in Targets : age[t] < Forgotten

ToSchedule == Neglected /\ Rows({"created"}) = {}

Sweep ==
    /\ gate /\ task = "none"
    /\ swept' = TRUE
    /\ \/ ToSchedule /\ task' = "schedule" /\ UNCHANGED pulled
       \/ \E j \in ToExpedite : task' = "expedite" /\ pulled' = j
       \/ ~ToSchedule /\ ToExpedite = {} /\ UNCHANGED <<task, pulled>>
    /\ UNCHANGED <<clock, queue, age, control, cycle, bounds, meter>>

Schedule ==
    /\ task = "schedule" /\ task' = "none"
    /\ \/ Send(Hour, WorkerJob(0, 0)) /\ UNCHANGED faults
       \/ Fault /\ UNCHANGED queue
    /\ UNCHANGED <<clock, age, control, cycle, pulled, swept, asked, meter>>

\* The row may have started, or be finished, since the sweep looked.
Expedite ==
    /\ task = "expedite" /\ task' = "none" /\ pulled' = NoJob
    /\ \/ /\ row' = [row EXCEPT ![pulled].timer = IF row[pulled].state = "created" THEN 0 ELSE @]
          /\ UNCHANGED faults
       \/ Fault /\ UNCHANGED row
    /\ UNCHANGED <<clock, taken, age, control, cycle, swept, asked, meter>>

-----------------------------------------------------------------------------
(* The web application, and the operator.                                   *)

createPromptJobScheduler == Send(Hour, WebJob)

\* A prompt is made, or enabled through the API; here also when it was enabled
\* all the time, so that one budget reaches it with jobs of before still queued.
SendScheduler ==
    /\ Asked
    /\ createPromptJobScheduler
    /\ enabled' = TRUE
    /\ UNCHANGED <<clock, age, entitled, gate, cycle, sweep, meter>>

\* Whatever streak the queued rows carry.
expeditePromptRuns ==
    /\ Asked
    /\ IF Rows({"created"}) = {} THEN createPromptJobScheduler
       ELSE /\ row' = [j \in Jobs |-> IF row[j].state = "created"
                                      THEN [row[j] EXCEPT !.timer = 0] ELSE row[j]]
            /\ UNCHANGED taken
    /\ UNCHANGED <<clock, age, control, cycle, sweep, meter>>

\* Without a slot.
sendImmediatePromptJob ==
    /\ Asked /\ enabled
    /\ Insert(WebJob) /\ UNCHANGED taken
    /\ UNCHANGED <<clock, age, control, cycle, sweep, meter>>

\* removePromptJobScheduler removes nothing; the page of prompts sends nothing
\* when it enables one.
SwitchPrompt ==
    /\ enabled' = ~enabled
    /\ IF enabled THEN Fault ELSE UNCHANGED faults
    /\ UNCHANGED <<clock, queue, age, entitled, gate, cycle, sweep, asked, meter>>

ChangePlan ==
    /\ entitled' = ~entitled
    /\ IF entitled THEN Fault ELSE UNCHANGED faults
    /\ UNCHANGED <<clock, queue, age, enabled, gate, cycle, sweep, asked, meter>>

\* The rows of a stopped process stay active until they expire.
Stopped ==
    /\ Leave(Workers)
    /\ task' = "none" /\ pulled' = NoJob

\* The switches change with the process.
Redeploy ==
    /\ gate' = ~gate
    /\ IF gate THEN Fault ELSE UNCHANGED faults
    /\ Stopped
    /\ UNCHANGED <<clock, queue, age, enabled, entitled, swept, asked, meter>>

Crash ==
    /\ Fault /\ Stopped
    /\ UNCHANGED <<clock, queue, age, control, swept, asked, meter>>

-----------------------------------------------------------------------------

\* A quarter is over when all that takes seconds is done: due jobs are fetched
\* and cycles wait for their providers only, and the sweep was there.
Settled ==
    /\ task = "none" /\ (swept \/ ~gate)
    /\ \A w \in Workers : step[w] = "idle" \/ (step[w] = "call" /\ left[w] > 0)
    /\ \A j \in Rows(Waiting \cup {"active"}) : row[j].timer > 0

Tick ==
    /\ Settled
    /\ clock' = (clock + 1) % Cadence
    /\ row' = [j \in Jobs |-> [row[j] EXCEPT !.timer = Less(@)]]
    /\ taken' = IF clock' = 0 THEN {} ELSE taken
    /\ age' = [t \in Targets |-> Lesser(age[t] + 1, Forgotten)]
    /\ left' = [w \in Workers |-> Less(left[w])]
    /\ swept' = FALSE
    /\ meter' = IF clock' = 0 THEN [t \in Targets |-> 0] ELSE meter
    /\ UNCHANGED <<control, step, mine, streak, ask, good, task, pulled, bounds>>

Take == \E j \in Jobs, w \in Workers : Fetch(w, j)
Handle(w) ==
    \/ Call(w) \/ Pass(w) \/ PassCeiling(w) \/ Throw(w)
    \/ \E t \in Targets : Answer(w, t)
    \/ FinishCycle(w) \/ Complete(w)
Web == SendScheduler \/ expeditePromptRuns \/ sendImmediatePromptJob \/ SwitchPrompt

Next ==
    \/ Take \/ \E w \in Workers : Handle(w)
    \/ \E j \in Jobs : Expire(j)
    \/ Sweep \/ Schedule \/ Expedite
    \/ Web \/ ChangePlan \/ Redeploy \/ Crash
    \/ Tick

Fairness ==
    /\ \A w \in Workers : WF_vars(Handle(w))
    /\ WF_vars(Take)
    /\ \A j \in Jobs : WF_vars(Expire(j))
    /\ WF_vars(Sweep) /\ WF_vars(Schedule \/ Expedite)
    /\ SF_vars(Tick)

Spec == Init /\ [][Next]_vars /\ Fairness

-----------------------------------------------------------------------------

\* A prompt is never run by two cycles at once, so that nothing is paid for
\* twice, for as long as the worker and its sweep are the only ones to send
\* jobs: not after a cycle whose job expired while its providers are slow, not
\* after a restart, and not when the sweep decides between the end of a cycle
\* and the row of the next (PROMPT_JOB_OPTIONS, getPendingJobMap).
OneCycleAtATime ==
    ~asked => Cardinality({w \in Workers : step[w] = "call"}) <= 1

On == enabled /\ entitled /\ gate

\* Whatever failed before, a prompt that stays enabled, entitled and switched on
\* calls each of its targets again and again, also when they never answer
\* (runMaintenanceCheck restarts it when nothing else does).
PromptsKeepRunning ==
    <>[]On => \A t \in Targets :
                 []<><<\E w \in Workers : Call(w) /\ t \in ask'[w]>>_vars

\* What scheduling-under-failure.test.ts:104-107 asks of a provider that only
\* fails: a day costs a prompt eight attempts at most, on the way to one a day.
\* The code does not keep this: after a restart by the sweep the back-off falls
\* into the slot of the sweep's own job, so that it is lost with the streak and
\* the sweep restarts the prompt every hour.
AttemptsPerDay == 8
OutageSettles == \A t \in Targets : meter[t] <= AttemptsPerDay
=============================================================================
