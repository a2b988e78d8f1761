# Verification of the Selena measurement runtime

Selena AI Visibility sells measurements: what an AI answers about a brand, and
where a business ranks on the map around its address. A measurement is a paid
call to a provider, made by a background worker, for a slot that a customer
bought and an operator approved. What must not go wrong is therefore always of
one kind: a call is made twice, a call is paid for and its answer lost, a budget
is exceeded, a slot waits for nobody, or a report calls a measurement finished
that is not. The code guards against it with leases, advisory locks, triggers
and a ledger, and these guards interact across processes. This directory models
them in TLA+, checks them with TLC and proves the central ones with TLAPS.

Contents: [1 The system](#1-the-system) · [2 Modules](#2-modules) ·
[3 How the model maps to the code](#3-how-the-model-maps-to-the-code) ·
[4 Runs](#4-runs) · [5 Findings](#5-findings) · [6 Proofs](#6-proofs) ·
[7 What is not modelled](#7-what-is-not-modelled) · [8 Plan](#8-plan)

To check everything by hand: `tlc -config X.cfg M` for each row of the table in
section 4, `tlapm M.tla` for the eight modules whose name ends in `Proofs`.

## 1 The system

The repository is a monorepo: `apps/web` (pages and API), `apps/worker`
(pg-boss workers), `packages/lib` (the domain and its PostgreSQL stores and
migrations), `packages/selena-visibility-contracts` (schemas and pure
decisions), and packages for billing, deployment, user interface and docs.
State lives in PostgreSQL. Some rules are TypeScript, some are PL/pgSQL
functions and triggers: a guard in one place is often the precondition of
another.

| component | state | operations | who it talks to |
|---|---|---|---|
| Provider spend ledger (`0062_provider_spend_reservation.sql`, `selena-provider-spend*.ts`) | budget row per scope, reservation row per request key | reserve, settle, release, set cap | every paid path calls it inside its own transaction |
| Local Maps dispatch outbox (`selena-local-dispatch-store.ts`, `local-dispatch-outbox.ts`) | one outbox row per attempt: status, lease | claim a batch, check, send, mark | reads attempts and cycle, sends pg-boss jobs |
| Local Maps attempt store (`selena-local-maps-attempt-store.ts`, `selena-local-retry-coordinator.ts`, triggers of `0075`) | cycle, observations, attempts, receipts | materialise, acquire, finalise, mark unknown, plan a retry, cancel what is pending | spend ledger, outbox |
| Local Maps live runner (`selena-local-maps-live-runner.ts`, `selena-local-measure.ts`, `local-index.ts`) | a process's job, its switches | run one attempt: acquire, look, look again, call, finalise, persist the doubt | attempt store, provider |
| Billing reconciliation (`selena-local-billing-reconciliation.ts`) | the same tables | close a stranded cycle as charged | attempt store, spend ledger |
| Canary review, reschedule, owner approval (`selena-local-pilot-orchestrator.ts`, `selena-local-maps-owner.ts`) | cycles, canary reviews, receipts per key | review, create pilot, reschedule, approve, each once per key | materialises the cycle the runtime executes |
| Reports, QC, publication (`selena-local-report-store.ts`) | report versions, QC decisions, deliveries | draft, decide, publish, deliver, acknowledge | reads concluded cycles, moves their status |
| Order desk (`selena-admin-orders.ts`, `selena-dispatch.ts`, `selena-visibility-repositories.ts`) | orders, cycles, QC records | approve and issue permits, enqueue, stop, sign off or reject, deliver | queue `selena-measure`, free requests |
| Run executor and permits (`selena-run-executor.ts`, `selena-measure.ts`) | permits, runs, cost events | reserve, claim, guard, call, complete, settle | spend ledger, provider adapters, order and cycle |
| Free request dispatch (`selena-order-request-submit.ts`, `0066_free_auto_dispatch_claim.sql`) | request status (also the lease), one row per slot of the day | lease, claim a slot, draft, approve, enqueue, read back, settle, release | order desk, operator's inbox |
| Weekly digest (`selena-weekly-digest-store.ts`, `jobs/selena-weekly-digest.ts`, `0077`, `0078`) | digests, deliveries, attempts, recipients | save, claim under a lease, send, record, schedule a retry; bind and unbind a chat | Telegram, pg-boss |
| Journals (`measure-journal.ts`, `brightdata-snapshot-journal.ts`) | daily claims, snapshot events | claim, recover, hold, reconcile | run executor |
| Prompt scheduling (`process-prompt.ts`, `schedule-maintenance.ts`, `job-scheduler.ts`, `expedite-prompts.ts`, `run-policy/`) | queued jobs with their failure streak, the time of the last run per target | run what is due, reschedule with back-off, repair, pull forward | pg-boss slots and expiry, providers |

`PROJECT.json` lists every part, those too small or too remote from concurrency
to be modelled included, each with its sources.

### The four paths on which money is spent or a customer is told something

**Orders.** An operator (or, for a pilot seat, the request form itself) approves an
order: one transaction makes the cycle and a *permit* per paid question. Each
permit becomes a job. The job reserves the estimate in the spend ledger, consumes
the permit, passes the guards, calls the provider once, completes the run (which
counts the cycle and may hand it to QC or trip a breaker) and settles. Meanwhile
desks stop the order, sign it off, reject it or deliver it.

**Local Maps.** Described next; around it stand the people who review the canary,
approve the pilot, and draft, publish and read its report.

**Digests.** A sweep saves the week's digest for the chat that is bound, a worker
claims it under a lease, sends, records, and schedules its own retry.

**Tracked prompts.** A job calls the targets of a prompt that are due and queues the next job, a
cadence later, or sooner after a cycle in which everything failed. A sweep every five minutes starts
a prompt that is overdue and has no job, or pulls its job forward.

### The Local Maps runtime, the core of this project

An owner approves a cycle (a *canary* of one centre point or a *pilot* of nine).
Approval writes, in one transaction, an observation per point, a first attempt
for each measured point, a spend reservation and an outbox row for each attempt.
A dispatcher in a worker process polls the outbox, claims rows under a lease,
and for each asks once more whether it may go, sends a pg-boss job and marks the
row. The job acquires its attempt (`CLAIMED` to `SUBMITTED`, committed *before*
the provider is called), calls once, and finalises: receipt, settlement,
observation, possibly a retry, possibly the end of the cycle. Whatever fails
after the submission becomes *unknown*, never a second call. Stopping a cycle
(charge above the reservation, refused retry, closed switch, unknown outcome)
gives back what was not called.

The hard behaviours are listed in `PROJECT.json` under `hazards`, each at its
line. In groups:

* **Two desks.** QC decisions carry the time their transaction began, which is not
  the order they commit in; stop, breaker, completion and review each update order
  and cycle by conditions of their own; requests are repeated under their keys.
* **Leases that are a status.** The free request's lease is the column in which the
  inbox, QC and the operator's stop write too; the digest's lease is a timestamp
  that a slow worker must recognise as its own.
* **Duplication.** A send that failed may have succeeded; a slow round loses its
  lease; jobs are duplicated, and the acquisition must let one through.
* **Order.** Finalisations, retries, cancellations and doubts of different slots
  reach the cycle in any order, and the last one says what the cycle is.
* **Partial failure.** A trigger rejects the receipt after the call is paid; the
  acknowledgement of a commit is lost; a doubt is rejected by another trigger.
* **Stale state.** Switches are environment variables, one copy per process.
* **Money.** Attempt, budget state and ledger row are written by different
  statements; the cap moves; a charge may exceed what was reserved or be known
  only as an estimate.
* **Progress.** pg-boss retries nothing, and no sweeper reclaims an attempt.
* **Jobs that queue themselves.** A prompt lives by its next job. It must not die with one that fails, and not
  double when a job expires before its cycle ends; singleton slots drop sends in silence.

## 2 Modules

    SpendBook                 what a reservation weighs (pure operators)
      |-- SpendBookProofs     sums over the rows of a ledger; used by both proofs below
      |-- SpendLedger         reserve/settle/release, statement by statement
      |     |-- MCSpendLedger           small instance
      |     '-- SpendLedgerProofs       theorems
      |-- LocalMapsState      tables, processes, constants, TypeOK, Init
      |     |-- LocalDispatchOutbox     actions of a dispatcher
      |     |-- LocalAttemptStore       transactions on attempts
      |     '-- LocalMapsRuntime        both, the jobs, the environment; properties
      |           |-- MCLocalMaps       small instances
      |           '-- LocalMapsRuntimeProofs   theorems: the inductive invariant, PaidCall, budget
      '-- OrderStore          the transactions on order, cycle, permits, runs, QC records
            '-- OrderPipeline           desks, queue and run executor; properties
                  |-- MCOrders          small instance
                  '-- OrderPipelineProofs   theorems, both refinements
    PaidCall                  abstract: one paid provider call
                                implemented by LocalMapsRuntime and OrderPipeline
    OrderLife                 abstract: the life of an order
                                implemented by OrderPipeline
    LocalMapsDesk             canary review, pilot, report; receipts
      |-- MCLocalDesk         small instance
      '-- LocalMapsDeskProofs  theorems
    FreeDispatch              a free request starts its own order
      |-- MCFreeDispatch      small instance
      '-- FreeDispatchProofs  theorems
    DigestDelivery            one week's digest on its way to a chat
      |-- MCDigest            small instance
      '-- DigestDeliveryProofs  theorems
    PromptSchedule            a tracked prompt, its jobs and the sweep
      |-- MCPrompts           small instance
      '-- PromptScheduleProofs  theorems

`LocalMapsDesk` takes what `LocalMapsRuntime` does to an approved pilot as one step
with the verdicts the runtime can leave (`Measure`), and `FreeDispatch` what
`OrderPipeline` does to a started order as `OrderMoves` and `QcRejects`.

Two granularities of a transaction, on purpose. `SpendLedger` opens the transaction: each
statement of `sv_reserve_provider_spend` is a step, because the question is
whether the advisory lock makes the count and the insert one decision.
`LocalMapsRuntime` closes it: every transaction that changes an attempt takes the
row of its cycle `FOR UPDATE` in `sv_local_pilot_attempt_guard` (0075:382), so a
transaction is one action, its failure an action without effect, and the
reservations inside it use `Committed` of `SpendBook`, the same weight the ledger
counts with. The other modules open a transaction where a look or a time taken
early is used late: a QC decision has its `created_at` from its beginning
(`stamp` in `OrderPipeline`, `ahead` and `overtaken` in `LocalMapsDesk`), and the owner's
review looks for an earlier acceptance before the canary's row is locked (`saw`).

## 3 How the model maps to the code

`PROJECT.json` `map` names, for each definition, the file, lines and symbol it
translates. The choices that need a word:

**SpendLedger.** READ COMMITTED: a statement of transaction `c` sees the
committed rows overlaid with its own (`View`). `ReserveLock` is the advisory
lock (re-entrant, kept to the end), `ReserveExisting` the idempotent answer,
`ReserveReadCap`, `ReserveOverCap`/`ReserveGranted`, `ReserveInsert` the four
statements. `Settle` and `Release` are one conditional `UPDATE`; one that waits
for a row looks again when it gets it. `CommitTransaction` and `Abort` end a
transaction; an owner moves the cap without the lock (`SetCap`). `highCap` and `ceiling` are history:
the highest cap ever, and the highest since a reservation took the lock.

**Money in the runtime.** The unit is the worst case of one attempt, which is
what a reservation holds; a charge is 0, 1, or 2 (an incident). `Caps` are what
the spend scope leaves to this cycle.

**Processes.** `gate[w]` is a process's copy of the execution switches; it
changes only when an idle process is redeployed (a graceful stop lets the job
finish; a stop that does not wait is a `Crash`). The web process has its own
switches and, when they are closed, refuses to materialise; to reconcile it wants them closed
(`selena-local-billing-reconciliation.ts:71`). A refusal changes nothing and is not modelled. `wpc` is where a job stands: fetched
(`acquire`), `submitted`, `called`, `finalize`, `unknown`. An acquisition may commit without
being acknowledged: the runner throws, and the attempt stays `SUBMITTED`
(`AcquireUnacknowledged`). The runner looks at the
committed snapshot twice: the first refusal drops the job silently
(`SnapshotDropped`), the second stores a doubt (`DispatchedLate`).

**Dispatchers.** A round is `loop`, `check`, `send`, `mark`; its claim token is the
name of the process, which runs one round at a time. The owner's one-shot task
dispatches too (runbook, step 8), so two dispatchers are real.

**pg-boss** is external: a set of waiting jobs. A send whose singleton key is
waiting is absorbed; a job is fetched by one worker and never retried
(`local-index.ts:25`). **The provider** is external: a set of answers, the result
schema of `local-maps-live.ts`. `LOCKED_REQUEST_INVALID` is not in that schema.

**Transactions of the store** build new tables in the order of the code's
statements (`Claimed`, `Cancelled`, `Observed`, `Answered`) and write them at once.
This order is visible: `FinalizeIncident` cancels pending work *after* its own
attempt left `SUBMITTED` and *before* its observation is written, which is how a
called slot comes to be cancelled (section 5, *Also worth knowing*).

**Triggers of 0075** appear as the guard of the action they let through and as
the action that fails: `Acceptable` and `FinalizeRejected` are
`sv_local_pilot_observation_guard`, `UnknownRejected` is
`sv_local_budget_incident_guard`.

**Orders.** `OrderStore` has an operator per committed transaction of the
repositories, `OrderPipeline` the steps between them: `FetchJob` (reservation and claim
time), `ClaimPermit`, the guards with what they knew when they looked (`halted`),
`CallProvider`, `ProviderAnswers` or `ProviderFails`, `Complete`, `SettleSpend`. An adapter
that throws may do so with the message of a rejected request, which trips the breaker (`Failures`). A
failing or unacknowledged `complete` leads to the catch block, which completes
again as `FAILED`. A job is fetched once, but several jobs of a permit can exist, because a
desk's enqueueing may be repeated. The permit's expiry is looked at by the claim
time and not by the claim. A QC decision opens with a time (`OpenReview`) and
commits later (`CommitReview`), and the latest record is the one with the latest
time. The approval's and the stop's unlocked look before their transaction is left
out: the transaction decides again on an order that never returns to a status it left.

**Local Maps desk.** A handler opens a transaction for a request (`Begin`), and either
commits effect and receipt together (`Receipted` is a conjunct of every operation), or
withdraws (`Withdrawn`: a replay, a conflict of bodies, any refusal, a lost connection).
It waits for the advisory lock of the key and then for the row of the cycle and keeps
both, so all it reads there may be read at the commit: that is why one action per operation is
enough. Requests stay possible after they were answered, which is a retry after a
lost answer. Instead of timestamps, `overtaken[h]` is the set of versions that got a
decision from a transaction that began after the one of `h`: a decision of `h` is then not the
latest one. A `STOPPED` verdict is the reconciliation's; a pilot that waits for
reconciliation or is left running by closed switches stays at `QUEUED` here.

**Free requests.** `spc` walks through `dispatchFreeRequest` statement by statement. The
lease is `request = "AUTO_DISPATCHING"` with a fresh `updated_at` (`stale` otherwise).
Claim and release of a slot are one action each: the SQL functions hold the advisory
lock of the claims, and the counts read under it are of committed rows. Any query may
throw (`Abandon`), and what throws inside the `try` is caught (`StartFails`).

**Digests.** Claim, call and record are three steps of a worker; `attempts` of the row is
also the identity of a claim, because `claimed_at` changes with it. Retries are jobs
of their own in `retries`, named by the attempt they follow. `dropped` is a history
variable: a job of this delivery died or came before its time, after which the code promises
nothing until another sweep claims the delivery (`Claim`), which clears it.

**Prompts.** Time is a counter of quarters of an hour, the shortest back-off, cyclic over the
cadence; `age` is the time since a recorded run, and one more than a cadence is as good as never
(`Forgotten`), because nothing tells them apart. `Tick` waits until what takes seconds is done
(`Settled`): due jobs are fetched, the sweep was there, and a cycle waits for its providers only.
pg-boss is external and matters here: a send with `singletonSeconds` takes the slot `Slot(length)`,
which is known by its beginning and stays taken when its job is finished (`taken`); an active row
expires after `Expiry`, is retried or fails, and its handler goes on without a row; a stopped
process leaves its rows active until then. `mine` is the row a handler still holds. A job without
`expireInSeconds` of its own would have the queue's fifteen minutes; the jobs of the web application
have them. The sweep looks, decides, and acts in two steps (`Sweep`, then `Schedule` or `Expedite`).
Runs of one target are one answer: saved or not, and successful or not, because a run whose
citations fail is on record and counts as failed. The bound `MaxFaults` is one budget of crashes,
failed queries and sends, the daily ceiling, switches thrown off, and jobs the web application asks
for. The web process reads its switches from an environment of its own, which is open here.

**Failures** of the other modules are switched on by the constant `Disturbances`, so that each run
says what may go wrong in it:

| disturbance | what it permits |
|---|---|
| `CRASH` | a process dies, with its job and its round |
| `DATABASE` | a transaction fails, or commits and its acknowledgement is lost |
| `QUEUE` | a send fails, with or without effect |
| `SLOW` | a lease or a claim runs out on whoever works under it |
| `LATE` | (Local Maps) a job looks at its lease when it has run out |
| `REDEPLOY` | an idle process restarts with the switches flipped |
| `WINDOW` | the measurement window ends |
| `LOST_ACK` | (orders) a completion commits and its acknowledgement is lost |
| `EXPIRY` | (orders) the permits' `expires_at` passes |
| `FLAG` | (free requests) the server restarts with automatic dispatch off |
| `CLOCK` | (digests) the queue starts a retry before the database says it is due |

Operators commented "a bug to catch" are not part of the specification. They are
plausible errors of the code (a dropped filter, a missing lock, a wrong order);
replacing the definition each stands beside makes TLC violate the property named
in `PROJECT.json` under `mutants`, which shows that the property is about that code.

## 4 Runs

| run | question | bounds | distinct states |
|---|---|---|---|
| SpendLedger | caps, also lowered ones, keys and finished rows under interleaved statements | 2 transactions, 3 keys (one twice as dear), caps 1 and 2, charges up to 2 | 73,762 |
| PilotConcurrent | consistency of tables, verdicts and money, and the budget, while two workers race | 2 points, 2 attempts, 2 workers, caps 2 and 3; DATABASE, REDEPLOY, WINDOW; all answers | 285,150 |
| CycleCrash | one owner and one call under crashes and duplicate jobs; implements `PaidCall` | 1 point: a canary with its one attempt, or a pilot with 2; 2 processes that both dispatch, cap 2; CRASH, DATABASE, QUEUE, SLOW, LATE; 5 answers | 1,292,631 |
| PilotLiveness | no claimed attempt falls between outbox, queue and workers; every slot is concluded | 2 points, 1 attempt, 2 workers, 1 dispatcher; QUEUE, SLOW, REDEPLOY; found or failing | 122,886 |
| Orders | order, cycle, runs, permits and ledger agree; implements `PaidCall` per permit and `OrderLife` | 2 permits (1 with the breaker), 2 workers, 2 desks, 2 reviews, 1 waiting job per permit, cap 2; CRASH, DATABASE, LOST_ACK, REDEPLOY, EXPIRY | 1,089,320 |
| FreeDispatch | one dispatcher per request, slots within the caps, a truthful inbox | 2 requests of one project, 2 submissions, 2 days, 1 slot per project and day; CRASH, DATABASE, FLAG | 1,467,187 |
| Digest | the row says what the log says; deliveries end, also those taken over | 2 chats, 2 workers, 5 attempts, 2 sweeps; CRASH, DATABASE, SLOW, CLOCK | 94,666 |
| LocalDesk | requests take effect once, one live pilot, only approved reports are seen | 2 handlers, 19 requests: 1 canary, 2 pilots, 2 drafts, contradicting decisions, 2 keys for what matters | 1,275,310 |
| Prompts | one cycle at a time; a prompt that stays on is called for ever | 1 target, cadence of an hour, 2 handlers, 6 rows, slow providers, 1 retry, 1 fault or job of the web | 1,234,549 |
| LostDoubt, RejectedRequest, OutageCost | where the code departs from its documents | see section 5 | counterexamples |

**Why the bounds are enough to be interesting.** Two points are the least with
which one slot can stop or recount a cycle while another is at work, two workers
the least with which a job can be duplicated and a transaction overtaken. Two
attempts, of the three that the code allows, let a retry exist while a first attempt of the other slot is still
pending, and the last attempt differ from one that may be retried. A canary
has one attempt per point and never retries. `Caps` of 2 and 3 make the reservation of a retry fit or not, and the owner
moves between them at any time. `MCReplies` has one answer of every kind the
code tells apart: found at the reserved price, above it (incident), at an
estimate; retryable with a charge, free, and above the reservation at an
estimate; an authentication failure; an unknown outcome. The theorems of section
6 remove the bounds. Symmetry is used only in runs without liveness.
`CHECK_DEADLOCK FALSE`: a cycle that is concluded has nothing left to do, and
its workers wait.

For orders, two permits are the least with which one run can be the last and another late, two
workers the least with which a job can be duplicated, two reviews the least that can
commit in the other order than they began; `SpendCap` 2 holds both estimates, but not the second after
a dear first answer. For free requests, two submissions race for one request or for the day's
last slot, two days let a slot be kept, given back and taken on another day. `MaxCopies`,
`MaxReviews`, `MaxDays` and `MaxSweeps` are bounds of the instances, not of the code.
For the desk, two handlers are two transactions open at once, and any number of them
can follow; the requests are chosen so that each operation has one that contradicts
it: accept against reject, owner against route, reschedule against approve, a rejection of either draft
before and after the other one is published, two deliveries, two readings.

For prompts, a cadence of an hour is the shortest that holds every kind of slot: a quarter, half an
hour, and the hour of sweep and web application, which is the cadence itself. A cadence shorter than
the expiry of a job lets the next cycle come due while an old row is still active. One fault at any
moment, each followed by every timing of sweep, handlers, answers and expiry, is what the code is
asked to recover from; six unfinished rows are never all needed. OutageCost has the real day of 96
quarters, the real ramp and no fault but the provider's.

In PilotLiveness the second slot is the row an ended round leaves under its lease, and two workers can hold
duplicates of one job. It has no answer that blocks the cycle, because then two workers can meet the LostDoubt
finding, and no retries; PilotConcurrent and CycleCrash have the retries, CycleCrash the second dispatcher. Its five answers
(`MCEndings`) are one for every way in which a called attempt ends; PilotConcurrent has all eight, and the cap that moves.

**What the properties say.** `SpendBounded`: what the scope has committed stays within the highest cap it
ever had, but for overruns. `GrantsFitTheCap`: a reservation about to be inserted fits, with all its transaction sees, under a cap
in force since it took the lock, so a lowered cap binds the next reservation and not the next transaction. `PendingMeansLive`: a slot is pending exactly while
an attempt of it is claimed or submitted. `AttemptsInSequence`: a retry exists
only after a retryable failure with its receipt. `QuietWhenClosed`: no claimed
attempt outlives the stop of its cycle. `BooksAgree`: attempt, budget and ledger
agree, with two named exceptions (a charge known as an estimate, a cycle
reconciled by hand). `SpendWithinCap`: what the cycle has spent and promised stays within a cap its
owner set, but for what answers cost above their reservations. `JobOwnsAttempt`: one owner. `AttemptsArePaidCalls`: each attempt refines `PaidCall`.
`VerdictIsSettled`, `UnknownIsHeld`, `EvidenceIsPaidFor`, `IncidentBlocks`: what
operator and customer are told. `OutcomesAreFinal`, `StopIsFinal`: what no step
may do. `NothingLost`: while nobody is killed, a claimed attempt is in the
outbox, the queue or a process. `SlotsConclude`: every slot ends.
`OrderFollowsCycle`, `ProgressIsCounted`, `BooksMatchRuns`: rows that separate
transactions write tell one story. `PermitsArePaidCalls`, `OrderKeepsItsLife`: the two
refinements. `OneDispatcher`, `FreeOrdersHoldSlots`, `InboxTellsTruth`: lease, slots and
inbox of free requests. `BooksTellTheRow`, `VerdictIsFinal`, `DigestsSettle`: the delivery against its log.
`ReceiptsMatchRows`, `OneLivePilot`, `PublishedWasApproved`, `StatusTellsTheDesk`: what
the desk did, against what it was asked. `OneCycleAtATime`, `PromptsKeepRunning`: nothing of a prompt is
paid for twice, and nothing that fails stops it. The former is about the worker's own jobs: a job of the web application
expires after 15 minutes and is retried, against the comment at `process-prompt.ts:46-66`, and a second cycle
beside a slow one is then what the code does.

**Refinements.** `PaidCall` is money promised, called at most once, given back only if never
called, settled once. `LocalMapsRuntime` implements it with the ledger row and the
calls of each attempt, `OrderPipeline` with those of each permit: the same promise kept in two ways,
there by the committed submission, here by the consumed permit and by never giving a
reservation back. `OrderLife` is what an operator may rely on: approved once, never measured
after review, published only with an answer, delivered only while the latest record approves,
never revived. Two things it has to allow show in `Publish` and `Measure`: an approval that began
before a rejection already on file publishes the order unsigned, and a job that passed its guard
still calls after a cancellation.

**Fairness.** In the runtime: weak fairness of a dispatcher's round, of a worker's fetch and of its
job: the worker polls on a timer and pg-boss serves waiting jobs for as long as the
process runs. Weak fairness of `LeaseExpires`: it is the clock. Strong fairness of
`SendJob` and `CheckRow`: the queue may fail and a lease may run out before its row's turn, but not every single time; with
weak fairness the failing step disables the one it competes with, and TLC shows a queue that fails
for ever, of which the code promises nothing. `SlotsConclude` is
checked without CRASH, DATABASE and WINDOW, because the code leaves a
submitted attempt of a killed worker where it is (section 5). Its premise is that the switches
finally stay open: with a switch that closes, the slot is cancelled, which also
concludes it, but a dispatcher whose switch stays closed sends nothing.
In `DigestDelivery`: weak fairness of a worker's next step (`Deliver`) and of its fetch, because
pg-boss serves waiting jobs while the process runs, and of `DelayPasses`, the clock. No
sweep, no connection and no lease is assumed to come; `DigestsSettle` excuses a delivery whose chat
was unbound or whose job died or came early, because nothing takes those up before the next sweep; one that a later
sweep has claimed is judged again.
In `PromptSchedule`: weak fairness of what a handler does next, of fetching, of expiry (pg-boss's own sweep), and
of the maintenance sweep, which cron starts; strong fairness of `Tick`, because time passes however often
the sweep comes within a quarter. No answer, no success and no send is assumed: `PromptsKeepRunning` holds for
providers that only fail.
The other specifications state safety only.

## 5 Findings

Three places where the program disagrees with its own documents, each the shortest
trace of a violation run.

* **LostDoubt** (`0075:426`). Decision D-002: a call without a durable proof of
  completion enters `UNKNOWN_RECONCILIATION`. Two slots are called; the first is
  charged above its reservation and blocks the cycle; the second call fails;
  `markSubmittedUnknown` updates the cycle, the budget incident guard rejects the
  update and rolls the attempt back with it. It stays `SUBMITTED` and its
  observation `PENDING` for ever, with fair workers and no failure of the
  infrastructure.
* **RejectedRequest** (`selena-order-request-submit.ts:141`). The comment at 133-134 says that a
  stopped order's request keeps the status that says why it stopped. The order is looked at
  before the lease is taken, and the lease is taken whatever the status is: a QC rejection between
  the two is overwritten by `AUTO_DISPATCHING`, and later by what the launch reports. With the
  dispatch switched off, a resubmission overwrites it too, with `AUTO_FAILED`.
* **OutageCost** (`process-prompt.ts:96`). `scheduling-under-failure.test.ts:104-107` says that a provider that stays broken
  costs at most eight attempts on the first day and then what a working one costs. The test simulates the back-off without
  pg-boss. When the sweep starts a prompt in the first quarter of an hour, its job takes the slot of that hour; the cycle
  fails, and the back-off of a quarter is sent into a slot with the same beginning: `send` returns null,
  nobody looks, and successor
  and streak are lost. The next sweep that finds the slot free is the first one of the next hour, again in its first
  quarter: the prompt is called every hour for as long as the outage lasts.

*Also worth knowing.* Behaviours the models show that no document rules out, or that a document
describes only loosely; the properties are stated so that they allow them.

* A finalisation that blocks its cycle finds its own observation still pending, and its attempt no longer
  `SUBMITTED`, and cancels a slot that was called and charged
  (`selena-local-retry-coordinator.ts:159`).
* A lowered cap refuses a retry and thereby cancels first attempts that still wait
  (`selena-local-retry-coordinator.ts:63`).
* The runbook reads `QC_REQUIRED` as "all nine measured"; the recount
  (`selena-local-maps-attempt-store.ts:987`) does not count slots cancelled by a process whose switches
  were closed. The desk is safe from it: a draft with cancelled points is refused, so
  such a pilot has no report (`PublishedWasApproved` with the verdict `QC_REQUIRED` and holes).
* A rescheduled pilot has a lock of its own, and the owner's approval asks for the canary's
  lock: it is never approved by that path. The runbook says so at 239-242.
* The rejection of a second draft fails a cycle whose first version is published: the customer can
  still read that version, but no longer acknowledge it.
* Publication gates read the latest record of an order, "so a later rejection revokes an earlier approval"
  (`selena-visibility-repositories.ts:2054-2056`); the latest record is the one whose transaction began last (280). A
  rejection that begins before an approval and commits after it is only recorded on the `READY` order, and the order is
  delivered, although neither serial order of the two would leave it approved. `OrderLife` allows it.
* An `APPROVED` that began before an `ACCEPT_PARTIAL` and commits after it is not the latest decision;
  the publication is refused until somebody approves again under another key.
* The operator's route may accept a canary under a new key after the owner rejected it.
* After the first delivery of a report is read, the cycle is `COMPLETED` and a second one is refused.
* A worker that dies after the claim leaves its run `RUNNING` and its order `QUEUED` until an operator stops it.
* A completion whose acknowledgement is lost settles at the estimate although the cost is stored.
* The stop works on a delivered order too and cancels it.
* A digest whose worker dies on the fifth attempt stays `SENDING`; one whose worker dies between record and
  schedule stays `RETRY_SCHEDULED` until a sweep of the same week is started by hand.
* A free dispatch that lasts longer than its lease of 120 seconds can be overtaken, and then give
  back the slot of an order its successor made. FreeDispatch is checked without `SLOW` for that reason:
  nothing in the code extends the lease.
* A prompt enabled on its page waits for the sweep; only the API sends a job. Disabling one removes no job.

## 6 Proofs

TLC shows a property on a small instance; the theorems hold for every value of the constants: any grid,
any number of permits, requests, processes, handlers, keys and attempts, any caps, any subset of the
answers and of the disturbances. They assume what the modules declare:

| module | assumed of its constants |
|---|---|
| `SpendLedger` | finitely many keys; estimates, charges and caps are numbers; the null values are none of the real ones |
| `LocalMapsState` | finitely many points, the centre is one, one to three attempts (the limit of the code), dispatchers are processes, caps are numbers, answers are schema-valid, null values |
| `OrderStore`, `OrderPipeline` | finitely many permits and at least one, an answer ends its run with a cost or none, caps and bounds are numbers |
| `FreeDispatch`, `DigestDelivery` | caps and bounds are numbers, at least one day and one attempt |
| `LocalMapsDesk` | a request has the shape its route admits |
| `PromptSchedule` | a cadence of whole hours that every slot divides, numbers, the null row |

Five theorems have a hypothesis of their own, each where the code gives no guarantee without it:

* `DispatchedByOne`, `FreeOrdersSlotted` and `InboxTrue`: no `SLOW`. A free dispatch that outlives its lease can be
  overtaken (section 5), and nothing in the code extends the lease.
* `NothingIsLost`: no `CRASH`, `DATABASE` and `WINDOW`. A worker that dies, a transaction that fails under a
  fetched job, or a window that ends leaves a claimed attempt to the operator (D-008). `QUEUE`, `SLOW`,
  `LATE` and `REDEPLOY` stay allowed. The run of `NothingLost` is that of `SlotsConclude`, without them too.
* `OneCycleThm`: the providers of a cycle answer or give up before the row of its job expires,
  `Patience < Expiry(WorkerJob(0, 0))`. The code chooses the expiry for that (`process-prompt.ts:49`: it has to outlast
  the whole fan-out), and the slowest adapter gives up after an hour (`cloro.ts:48`), a row after an hour and a half. TLC
  finds `OneCycleAtATime` violated as soon as `Patience` equals the expiry, so the hypothesis cannot be weaker.

In each module below no property is inductive alone; the named conjuncts of its `IInv` are what must be known besides. Every
`IInv`, or each of its parts, was checked by TLC before it was proved.

**SpendBookProofs.** What is committed is a sum over the rows of the ledger, a fold that is defined by recursion on the
subsets of a finite set. The library states induction over subsets with an operator as parameter; here it is
stated over a *set* of subsets (`SubsetInduction`: a set that contains the empty set, and a set whenever it contains it without
one element, contains every subset), which follows from strict inclusion being well founded. The laws the budgets need come
from it: a sum is what the recursion says (`SumIsRecursive`), a number, adds up, grows with its summands by what they grow
(`SumGrows`), counts (`SumCounts`), and has the value of its one summand (`SumOfOne`). Of a book: what is
committed is `Promised`, the part that reservations announced, and `Overrun`, the part that answers cost above (`CommittedSplits`).

**SpendLedgerProofs.** `TypeCorrect`, `KeysClaimedOnce`, `FinishedRowsFinal`, `SpendIsBounded` and `GrantsFit`. The second and third come
from one invariant: a reservation runs its statements under the advisory
lock (`ReadingLocked`), and so does whoever has written a row the table lacks
(`InsertLocked`); open transactions never write the same row (`RowsDisjoint`); a
transaction writes only missing or reserved rows and leaves reserved only what
was missing (`WritesOpenRows`); a reservation past its first look has found no row
(`MissingFound`).

`SpendIsBounded` adds `PromisesCovered`. The sum that the code compares with the cap includes overruns, which no reservation can
prevent, so the invariant speaks of what was promised, which only a reservation adds to. The table is within the highest cap so
far; so is what the holder of the lock sees; what it sees with the row it was granted fits the cap it read; and each cap a transaction has
read was in force since it took the lock (`CapsCounted`), which gives `GrantsFit` too. Whoever commits without the lock has only settled or given back, and promises no
more than the table does (`UnlockedSeesLess`): that is why a settlement may commit between the sum and the insert of a
reservation without a lock of its own.

**LocalMapsRuntimeProofs.** `TypeCorrect`, ten invariants that hold together, two action properties, the refinement of
`PaidCall`, `NothingIsLost` and `SpendFitsCap`. Types: one lemma per table operator, then one per action. The shape
of `Claimed`, `Cancelled`, `Observed` and `Answered` is stated once and cited.

The invariants come from one, because none is inductive alone: that a call is unique needs to
know who owns a submitted attempt, that a cancelled slot is final needs to know
that a pending slot has a live attempt, and so on. `IInv` is `TypeOK` with

* *tables*: the properties `AttemptsInSequence`, `PendingMeansLive`,
  `QuietWhenClosed`, `BooksAgree`, `IncidentBlocks`, `UnknownIsHeld`,
  `VerdictIsSettled`, strengthened by `CreatedIsEmpty` (before approval there is
  nothing), `StoppedIsClosed` (a cycle with the emergency stop has a
  closed status), `StoppedIsUnknown` (only reconciliation writes `STOPPED`, when
  every attempt is of unknown outcome), `UnknownIsSeen` (an attempt of
  unknown outcome shows in its observation);
* *processes*: `JobOwnsAttempt`, `CalledWasSubmitted` (a called attempt is past
  `CLAIMED`), `DoubtedWasSubmitted`, and that no attempt has two calls;
* `EvidenceIsPaidFor`.

The argument. A transaction rewrites six tables by nested operators, and proving
each conjunct for each action directly would repeat the same unfolding some two
hundred times. Instead each transaction is first shown to have a *shape*: facts
about single rows, such as "one attempt leaves `SUBMITTED` and its slot is concluded"
(`ConcludesSlot`), "claimed attempts are given back and their slots cancelled",
"the next attempt of a failed one is claimed" (`RetriesSlot`), together with what the
books (`BooksFollow`), the answer (`AnswerFollows`) and the cycle (`CycleFollows`) do.
Then each conjunct is shown to survive each shape. `Keeps` collects the invariant in
the next state and the two action properties, so one case analysis over `Next` serves
their theorems.

`AttemptsPaid` (the runtime implements `PaidCall`) needs nothing more: `MoneyMoves` says of one attempt what its
ledger row and its calls do in a step, and each of its cases is a step of `PaidCall` or a stutter. `IInv` supplies what the
abstract guards ask, that a reserved row was called at most once and that a row given back was not called.

`NothingIsLost` has an invariant of its own beside `IInv`, `Carried`. That each claimed attempt is in the outbox, the queue or a
process is not inductive: a dispatcher that marks its row takes it out of the outbox, and must by then have
handed it on. So `Carried` adds that a dispatcher about to mark has a row whose attempt is in the queue or in a process, or was taken
further by the job already, that an open outbox row and a row in a dispatcher's hand belong to an attempt that exists, that
an idle process holds no job, and that the window is open. `RowFollows` and `HandsFollow`
say what a step does to one row and to a process's hand; each action is shown to satisfy them.

`SpendFitsCap` goes as in the ledger, with `PromisesFit` for the table. Here a reservation is made in the transaction that
settles or charges another attempt, and must be counted against the books as that transaction has already written
them (`RetryFitsIn`); every other step only takes reservations away (`JobReserves`, `LeavingFits`), and a settled row keeps its
charge (`ChargesFinal`).

`AtMostOneCall`, which `CalledOnce` proves, is no longer a property of a run: the run checks
`AttemptsArePaidCalls`, which says more. The `TypeOK` of the runtime and that of `SpendLedger` are not either: they are proved, and part of `IInv`.

**OrderPipelineProofs.** `TypeCorrect`, `OrderFollows`, `ProgressCounted`, `BooksMatch`, `PermitsPaid` and `OrderLives`.
Permit, run, ledger, cycle and order are written by different transactions, so the invariant says what a worker
between two of them knows: the claim is won once (`OneClaimant`); the worker's budget is reserved,
its run is open until its completion commits, it has called as often as its step
says, and what it will settle is the stored cost or the estimate (`WorkInHand`); a run that never
started was not called (`CallsMatchRuns`); nothing precedes the approval (`NothingBefore`). `Counting` relates the
count of ended runs to the runs themselves, which is what makes the *last* completion close the cycle, whichever it is.
The failure handler that completes again after its completion did commit is the case the invariant is shaped
by: it must find that its run ended, and change neither count nor cost. `BooksMatch` does not say that every run is
settled: a worker that dies, a failure that is not recorded or a settlement that gives up leaves a reservation behind. `PermitsPaid` and `OrderLives` then map each step to a
step of `PaidCall` and `OrderLife` or to a stutter. `StampsInPast`: no open decision
began later than now, so one that opens is later than all before it.

**FreeDispatchProofs.** `TypeCorrect` for all disturbances, and the three theorems above. `OneHolder`: a request without an
order has at most one handler past its lease, and the lease is its own and fresh. `SeenNoOrder`: who claims, drafts or releases
looked and saw no order, and there still is none; the draft is written with its slot. `SettlesTruth`: what a handler is about to
tell the inbox is true and stays true, whatever the desk does to the order meanwhile. `NothingWhenOff`: after a
restart with the flag off the only handlers left have nothing to tell but that nothing started. `FiniteDays` lets the caps be
counted.

**DigestDeliveryProofs.** `TypeCorrect`, `BooksTellTheRowThm`, `VerdictIsFinalThm`. `JobsInHand`: the number a worker took with
its claim is one of the row's attempts, and the row may have moved past it; a record is written
only if it has not, which is why a slow worker neither overwrites a verdict nor books an attempt twice. `OneChat`: two
links are never bound.

**LocalMapsDeskProofs.** `TypeCorrect`, `ReceiptsMatchRowsThm`, `OneLivePilotThm`, `PublishedWasApprovedThm`,
`StatusTellsTheDeskThm`. Every claim about a report leans on what the requests before it did to other tables, so
`TablesTrue` is the story of a pilot. Every pilot but the last was replaced and is stopped, and an approval names the last
(`LastLives`, `ApprovedIsLast`), which is what a reschedule must respect and the
owner's unlocked look could break. A draft is made of a
measured pilot and such a pilot is never stopped again (`DraftsAreMeasured`); a rejection fails it for good (`RejectedFails`); beyond
QC an invalid point was accepted (`PartialIsAccepted`); only what is published left QC and is delivered (`PublishedLeftQc`,
`DeliveredIsPublished`). `RowsCounted` is the count of rows against receipts that makes a repeated request visible. What an open
transaction has in hand stays within what the tables say (`OpenTyped`).

**PromptScheduleProofs.** `OneCycleThm`. Nothing in the code counts the cycles of a prompt. That there is one at a time follows
from what holds until the web application sends a job: one handler works (`OneHandler`), its row is active and lasts
longer than its cycle can (`HoldsItsRow`), one row at most waits (`OneWaits`), none while a cycle
calls, and after it only the successor, which is not due (`SuccessorWaits`), and what the sweep has looked at stays true until it
acts (`SweepIsRight`). The last is the race that matters: the sweep decides that a prompt has no job
while a handler may be about to fetch one, or to queue the next.

**Only model-checked.**

* `SlotsConclude`, `DigestsSettle`, `PromptsKeepRunning`, `CalledIsConcluded`: liveness, outside the prover's reach.
* The properties of LostDoubt, RejectedRequest and OutageCost, which the code violates.

## 7 What is not modelled

* *The making of a canary.* `createLocalCanaryCycle` and the lock it issues; a review that stays
  `PENDING`, which changes no status.
* *Order evidence.* The records and source snapshots a run stores, incidents, audit rows; the claims of the
  journals, which the executor sees as an adapter's answer.
* *The content of a report.* Whether all points, some or not all are measured is what decides.
* *Expiry of receipts.* After seven days a key may be used again; nothing deletes them in `src/`.
* *Locks inside a transaction.* An acquisition locks the attempt and then the
  cycle, a cancellation the cycle and then the attempts: PostgreSQL may find a
  deadlock and kill one. The kill is a `DATABASE` failure here; the locks
  themselves are not steps. The same holds of a completion (cycle, then order) against a
  stop or a QC decision (order, then cycle).
* *Clocks.* A lease expires at any time under `SLOW`; without it, only when nobody works
  under it. Skew between worker and database is thereby covered, durations are not.
* *What the provider is asked and how its answer is parsed*, ranks, coordinates,
  digests, audit rows, alerts: no property depends on them. FOUND and
  ABSENT_WITHIN_DEPTH are one answer.
* *Recovery of a stranded attempt.* The code has none (D-008); a `SUBMITTED` attempt of
  a dead worker stays, and CycleCrash checks that it is never called twice.
* *Several prompts and several cadences.* The targets of a prompt have one interval here; prompts meet
  only in the daily ceiling of their
  organisation, which is a choice. What a run says, citations and aggregates are not modelled.
* *The rest of the repository*: see `components`. Parts with persistent state
  and concurrency are in the plan; pages, parsing, mail, billing integration
  and styling are not.

## 8 Plan

In order of what could hurt most. Done so far: steps 1 to 9.

1. `SpendLedger` and its proofs.
2. `LocalMapsRuntime` with outbox, store, jobs, disturbances.
3. The inductive invariant of the runtime, proved.
4. `PaidCall`, implemented by the runtime; `OrderLife`.
5. `OrderStore` and `OrderPipeline`: permits, runs, redelivered jobs, desks; both refinements.
6. `DigestDelivery` and `FreeDispatch`.
7. `LocalMapsDesk`: review, pilot, report, receipts.
8. `PromptSchedule`: self-rescheduling jobs, slots, expiry and the maintenance sweep; liveness.
9. Proofs of every safety property and refinement of the passing runs, the budgets included.
10. The journals as an adapter of `OrderPipeline`: one provider task per claim, held results.
11. `AttemptLocks`: the row locks of acquisition, cancellation, completion and stop as steps; deadlock.
