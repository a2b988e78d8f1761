------------------------ MODULE OrderPipelineProofs -------------------------
(***************************************************************************)
(* Theorems about the measurement of an order for any number of permits,   *)
(* workers, desks and answers.  Four rows are written by transactions of   *)
(* their own: the permit and the run by the claim, the ledger before and   *)
(* after it, the cycle and the order by whoever ends them.  The inductive  *)
(* invariant says what a worker between two of them knows for certain.     *)
(***************************************************************************)
EXTENDS OrderPipeline, FiniteSetTheorems, TLAPS

\* The runs that ended.
Ended == {p \in Permits : run[p] \in Finished}

\* Before the approval there is nothing, and a run starts with an issued permit.
NothingBefore ==
    /\ order = "PAID_REVIEW_REQUIRED" => cycle = "NONE"
    /\ cycle = "NONE" => \A p \in Permits : permit[p] = "none"

\* A claim is won once: a permit has one worker past its claim at most.
Claimed == {"guards", "called", "complete", "failing", "settle"}
OneClaimant ==
    \A w, v \in Workers :
        wpc[w] \in Claimed /\ wpc[v] \in Claimed /\ cur[w] = cur[v] => w = v

\* A job holds a permit whose budget is reserved.  From the claim to the completion
\* its run is open; the failure handler may find that its completion did commit.
\* What a settlement will charge is the estimate or the stored cost.
WorkInHand ==
    \A w \in Workers :
        LET p == cur[w] IN
        /\ wpc[w] # "idle" => p \in Permits /\ ledger[p] # "NONE"
        /\ wpc[w] \in {"guards", "called", "complete"} => run[p] = "RUNNING"
        /\ wpc[w] = "guards" => calls[p] = 0
        /\ wpc[w] \in {"called", "complete"} => calls[p] = 1
        /\ wpc[w] = "complete" => said[w] \in Outcomes \cup Failures
        /\ wpc[w] = "failing" => run[p] # "NONE" /\ said[w] \in Failures
        /\ wpc[w] = "settle" =>
              /\ run[p] \in Finished /\ said[w] \in Outcomes \cup Failures
              /\ said[w].cost = NoCost \/ said[w].cost = cost[p]

\* A provider is called for a run that started, and once.
CallsMatchRuns ==
    \A p \in Permits :
        /\ run[p] = "NONE" => calls[p] = 0
        /\ calls[p] \in {0, 1}

\* A decision that is open began before now.
StampsInPast == \A d \in Desks : stamp[d] <= began

IInv == /\ TypeOK /\ NothingBefore
        /\ OneClaimant /\ WorkInHand /\ CallsMatchRuns /\ StampsInPast
        /\ OrderFollowsCycle /\ ProgressIsCounted /\ BooksMatchRuns

-----------------------------------------------------------------------------
(* Counting the runs that ended.                                            *)

LEMMA Counting ==
    /\ Cardinality(Permits) \in Nat \ {0}
    /\ IsFiniteSet(Ended) /\ Cardinality(Ended) \in 0 .. Cardinality(Permits)
    /\ Cardinality(Ended) = Cardinality(Permits) <=> Ended = Permits
<1>1. IsFiniteSet(Permits) /\ Permits # {} /\ Ended \in SUBSET Permits
  BY PermitsAssumption DEF Ended
<1>2. Cardinality(Permits) \in Nat /\ Cardinality(Permits) # 0
  BY <1>1, FS_CardinalityType, FS_EmptySet
<1>3. /\ IsFiniteSet(Ended) /\ Cardinality(Ended) <= Cardinality(Permits)
      /\ Cardinality(Permits) = Cardinality(Ended) => Permits = Ended
  BY <1>1, FS_Subset
<1>4. Cardinality(Ended) \in Nat
  BY <1>3, FS_CardinalityType
<1>5. QED
  BY <1>2, <1>3, <1>4

\* Nothing ended when no run started.
LEMMA NoneEnded == (\A p \in Permits : run[p] = "NONE") => Cardinality(Ended) = 0
BY FS_EmptySet DEF Ended, Finished

\* One more run ended.
LEMMA OneMoreEnded ==
    ASSUME NEW p \in Permits, run[p] \notin Finished, run'[p] \in Finished,
           \A q \in Permits : q # p => run'[q] = run[q]
    PROVE  Cardinality(Ended') = Cardinality(Ended) + 1
<1>1. Ended' = Ended \cup {p} /\ p \notin Ended
  BY DEF Ended
<1>2. QED
  BY <1>1, Counting, FS_AddElement

-----------------------------------------------------------------------------
(* What one step does to the rows, whoever takes it.                        *)

\* A run ends in the completion of a job whose outcome is known.
RunEnds(p, outcome) ==
    /\ run[p] = "RUNNING"
    /\ outcome \in Outcomes \cup Failures
    /\ outcome.status = "SUCCEEDED" => calls[p] = 1
    /\ CompleteRun(p, outcome)

RunSettles(p, amount) ==
    /\ run[p] \in Finished
    /\ amount \in Nat /\ amount \in {Estimate, cost[p]}
    /\ Settle(p, amount)

DeskStores ==
    \/ CreatePermits \/ StopOrder \/ Deliver
    \/ began < MaxReviews /\ began' = began + 1 /\ UNCHANGED <<measured, books, latest>>
    \/ \E d \in Desks : ApproveQc(stamp[d]) \/ RejectQc(stamp[d])

WorkerStores ==
    \E p \in Permits :
        \/ Reserve(p) \/ (ClaimRun(p) /\ ledger[p] # "NONE")
        \/ \E outcome \in Outcomes \cup Failures : RunEnds(p, outcome)
        \/ \E amount \in Nat : RunSettles(p, amount)

LEMMA SaidOutcome ==
    ASSUME NEW o \in Outcomes \cup Failures
    PROVE  o.status \in Finished /\ o.cost \in Nat \cup {NoCost} /\ Spent(o) \in Nat
BY OutcomesAssumption DEF Failure, Failures, Finished, Spent, Estimate

\* A worker that completes ends its run, or finds it ended by itself.
LEMMA Completing ==
    ASSUME IInv, NEW w \in Workers, wpc[w] \in {"complete", "failing"},
           CompleteRun(cur[w], said[w])
    PROVE  \/ UNCHANGED store
           \/ RunEnds(cur[w], said[w]) /\ cur[w] \in Permits
<1>1. cur[w] \in Permits /\ run[cur[w]] # "NONE" /\ said[w] \in Outcomes \cup Failures
  BY DEF IInv, WorkInHand
<1>2. CASE run[cur[w]] \in Finished
  BY <1>2 DEF CompleteRun
<1>3. CASE run[cur[w]] = "RUNNING"
  <2>1. said[w].status = "SUCCEEDED" => calls[cur[w]] = 1
    BY DEF IInv, WorkInHand, Failure, Failures
  <2>2. QED
    BY <1>1, <1>3, <2>1 DEF RunEnds
<1>4. QED
  BY <1>1, <1>2, <1>3 DEF IInv, TypeOK

LEMMA JobStores ==
    ASSUME IInv, NEW w \in Workers, Job(w)
    PROVE  WorkerStores \/ UNCHANGED store
<1>1. CASE ClaimPermit(w)
  BY <1>1 DEF ClaimPermit, WorkerStores, IInv, WorkInHand
<1>2. CASE Complete(w) \/ CompleteThrows(w) \/ FailureUnrecorded(w)
  <2>1. \/ UNCHANGED store
        \/ wpc[w] \in {"complete", "failing"} /\ CompleteRun(cur[w], said[w])
    BY <1>2 DEF Complete, CompleteThrows, FailureUnrecorded
  <2>2. QED
    BY <2>1, Completing DEF WorkerStores, RunEnds
<1>3. CASE SettleSpend(w)
  <2>1. /\ cur[w] \in Permits /\ run[cur[w]] \in Finished
        /\ said[w] \in Outcomes \cup Failures
        /\ said[w].cost = NoCost \/ said[w].cost = cost[cur[w]]
    BY <1>3 DEF SettleSpend, IInv, WorkInHand
  <2>2. Spent(said[w]) \in Nat /\ Spent(said[w]) \in {Estimate, cost[cur[w]]}
    BY <2>1, SaidOutcome DEF Spent
  <2>3. RunSettles(cur[w], Spent(said[w]))
    BY <1>3, <2>1, <2>2 DEF SettleSpend, RunSettles
  <2>4. QED
    BY <2>1, <2>2, <2>3 DEF WorkerStores
<1>4. QED
  BY <1>1, <1>2, <1>3
     DEF Job, ClaimSkipped, GuardsRefuse, CallProvider, ProviderAnswers, ProviderFails,
         SettleGivesUp

LEMMA StoreStep ==
    IInv /\ [Next]_vars => DeskStores \/ WorkerStores \/ UNCHANGED store
<1> SUFFICES ASSUME IInv, [Next]_vars
             PROVE  DeskStores \/ WorkerStores \/ UNCHANGED store
  OBVIOUS
<1>1. ASSUME ApproveOrder \/ StopSelenaOrder \/ DeliverOrder PROVE DeskStores
  BY <1>1 DEF ApproveOrder, StopSelenaOrder, DeliverOrder, DeskStores
<1>2. ASSUME NEW d \in Desks, Desk(d) PROVE DeskStores \/ UNCHANGED store
  BY <1>2 DEF Desk, OpenReview, CommitReview, SignRefused, DeskStores
<1>3. ASSUME NEW p \in Permits, EnqueueRun(p) \/ JobDropped(p) PROVE UNCHANGED store
  BY <1>3 DEF EnqueueRun, JobDropped
<1>4. ASSUME NEW w \in Workers, NEW p \in Permits, FetchJob(w, p) PROVE WorkerStores
  BY <1>4 DEF FetchJob, WorkerStores
<1>5. ASSUME NEW w \in Workers, Job(w) PROVE WorkerStores \/ UNCHANGED store
  BY <1>5, JobStores
<1>6. ASSUME NEW w \in Workers, Crash(w) PROVE UNCHANGED store
  BY <1>6 DEF Crash
<1>7. ASSUME PermitsExpire \/ UNCHANGED vars PROVE UNCHANGED store
  BY <1>7 DEF PermitsExpire, vars
<1>8. QED
  BY <1>1, <1>2, <1>3, <1>4, <1>5, <1>6, <1>7 DEF Next

\* The last run hands the cycle to QC, an error of the breaker stops it, and a cycle
\* that was stopped meanwhile stays stopped.
LEMMA EndOfRun ==
    ASSUME IInv, NEW p \in Permits, NEW outcome, RunEnds(p, outcome)
    PROVE  /\ completed < Cardinality(Permits) /\ completed' = completed + 1
           /\ Cardinality(Ended') = Cardinality(Ended) + 1
           /\ \/ cycle = "STOPPED" /\ UNCHANGED <<cycle, order>>
              \/ /\ cycle \in {"QUEUED", "RUNNING"} /\ order = "QUEUED"
                 /\ \/ cycle' = "STOPPED" /\ order' = "CANCELLED"
                    \/ /\ cycle' = "QC_REQUIRED" /\ order' = "QC_REQUIRED"
                       /\ completed' = Cardinality(Permits)
                    \/ /\ cycle' = "RUNNING" /\ order' = order
                       /\ completed' < Cardinality(Permits)
<1>1. run[p] \notin Finished /\ outcome.status \in Finished
  BY SaidOutcome DEF RunEnds, Finished
<1>2. /\ run' = [run EXCEPT ![p] = outcome.status] /\ completed' = completed + 1
      /\ cycle' = CycleAfter(p, outcome) /\ order' = OrderAfter(CycleAfter(p, outcome))
  BY <1>1 DEF RunEnds, CompleteRun
<1>3. Cardinality(Ended') = Cardinality(Ended) + 1
  BY <1>1, <1>2, OneMoreEnded DEF IInv, TypeOK
<1>4. completed = Cardinality(Ended) /\ completed < Cardinality(Permits)
  <2>1. completed = Cardinality(Ended)
    BY DEF IInv, ProgressIsCounted, Ended
  <2>2. Ended # Permits
    BY <1>1 DEF Ended
  <2>3. QED
    BY <2>1, <2>2, Counting
<1>5. cycle \in {"QUEUED", "RUNNING", "STOPPED"}
  <2>1. cycle \notin {"QC_REQUIRED", "READY"}
    BY <1>4, Counting DEF IInv, ProgressIsCounted
  <2>2. permit[p] = "consumed"
    BY DEF IInv, BooksMatchRuns, RunEnds
  <2>3. QED
    BY <2>1, <2>2 DEF IInv, NothingBefore, TypeOK, CycleStatus
<1>6. CASE cycle = "STOPPED"
  <2>1. cycle' = "STOPPED" /\ order' = order
    BY <1>2, <1>6 DEF CycleAfter, OrderAfter
  <2>2. QED
    BY <1>2, <1>3, <1>4, <1>6, <2>1
<1>7. CASE cycle \in {"QUEUED", "RUNNING"}
  <2>1. order = "QUEUED"
    BY <1>7 DEF IInv, OrderFollowsCycle
  <2>2. \/ cycle' = "STOPPED"
        \/ cycle' = "QC_REQUIRED" /\ completed + 1 >= Cardinality(Permits)
        \/ cycle' = "RUNNING" /\ ~(completed + 1 >= Cardinality(Permits))
    BY <1>2, <1>7 DEF CycleAfter
  <2>3. order' = OrderAfter(cycle')
    BY <1>2
  <2>4. /\ cycle' = "STOPPED" => order' = "CANCELLED"
        /\ cycle' = "QC_REQUIRED" => order' = "QC_REQUIRED"
        /\ cycle' = "RUNNING" => order' = order
    BY <1>7, <2>1, <2>3 DEF OrderAfter
  <2>5. completed \in Nat /\ Cardinality(Permits) \in Nat
    BY <1>4, Counting
  <2>6. QED
    BY <1>2, <1>3, <1>4, <1>7, <2>1, <2>2, <2>4, <2>5
<1>8. QED
  BY <1>5, <1>6, <1>7

-----------------------------------------------------------------------------
(* Order, cycle, runs and books.                                            *)

LEMMA NothingStep == IInv /\ [Next]_vars => NothingBefore'
<1> SUFFICES ASSUME IInv, [Next]_vars PROVE NothingBefore'
  OBVIOUS
<1> USE DEF IInv, NothingBefore
<1>1. CASE DeskStores
  BY <1>1 DEF DeskStores, CreatePermits, StopOrder, Deliver, ApproveQc, Approvable,
              RejectQc, measured, TypeOK, OrderFollowsCycle
<1>2. ASSUME NEW p \in Permits, Reserve(p) PROVE NothingBefore'
  BY <1>2 DEF Reserve, measured
<1>3. ASSUME NEW p \in Permits, ClaimRun(p) PROVE NothingBefore'
  BY <1>3 DEF ClaimRun
<1>4. ASSUME NEW p \in Permits, NEW outcome, RunEnds(p, outcome) PROVE NothingBefore'
  BY <1>4, EndOfRun
<1>5. ASSUME NEW p \in Permits, NEW amount, RunSettles(p, amount) PROVE NothingBefore'
  BY <1>5 DEF RunSettles, Settle, measured
<1>6. CASE UNCHANGED store
  BY <1>6 DEF store, measured
<1>7. QED
  BY <1>1, <1>2, <1>3, <1>4, <1>5, <1>6, StoreStep DEF WorkerStores

LEMMA OrderStep == IInv /\ [Next]_vars => OrderFollowsCycle'
<1> SUFFICES ASSUME IInv, [Next]_vars PROVE OrderFollowsCycle'
  OBVIOUS
<1> USE DEF IInv, OrderFollowsCycle
<1>1. CASE DeskStores
  BY <1>1 DEF DeskStores, CreatePermits, StopOrder, Deliver, ApproveQc, Approvable,
              RejectQc, measured, TypeOK, CycleStatus, OrderStatus, NothingBefore
<1>2. ASSUME NEW p \in Permits, Reserve(p) PROVE OrderFollowsCycle'
  BY <1>2 DEF Reserve, measured
<1>3. ASSUME NEW p \in Permits, ClaimRun(p) PROVE OrderFollowsCycle'
  BY <1>3 DEF ClaimRun
<1>4. ASSUME NEW p \in Permits, NEW outcome, RunEnds(p, outcome)
      PROVE  OrderFollowsCycle'
  BY <1>4, EndOfRun
<1>5. ASSUME NEW p \in Permits, NEW amount, RunSettles(p, amount)
      PROVE  OrderFollowsCycle'
  BY <1>5 DEF RunSettles, Settle, measured
<1>6. CASE UNCHANGED store
  BY <1>6 DEF store, measured
<1>7. QED
  BY <1>1, <1>2, <1>3, <1>4, <1>5, <1>6, StoreStep DEF WorkerStores

\* ProgressIsCounted with its set named.
LEMMA Progress ==
    ProgressIsCounted <=>
        /\ completed = Cardinality(Ended)
        /\ cycle \in {"QC_REQUIRED", "READY"} => completed = Cardinality(Permits)
        /\ cycle \in {"QUEUED", "RUNNING"} => completed < Cardinality(Permits)
BY DEF ProgressIsCounted, Ended

LEMMA ProgressStep == IInv /\ [Next]_vars => ProgressIsCounted'
<1> SUFFICES ASSUME IInv, [Next]_vars
             PROVE  /\ completed' = Cardinality(Ended')
                    /\ cycle' \in {"QC_REQUIRED", "READY"} => completed' = Cardinality(Permits)
                    /\ cycle' \in {"QUEUED", "RUNNING"} => completed' < Cardinality(Permits)
  BY DEF ProgressIsCounted, Ended
<1>0. /\ completed = Cardinality(Ended)
      /\ cycle \in {"QC_REQUIRED", "READY"} => completed = Cardinality(Permits)
      /\ cycle \in {"QUEUED", "RUNNING"} => completed < Cardinality(Permits)
  BY Progress DEF IInv
<1>1. CASE CreatePermits
  <2>1. \A p \in Permits : run[p] = "NONE"
    BY <1>1 DEF CreatePermits, IInv, NothingBefore, BooksMatchRuns
  <2>2. completed = 0 /\ UNCHANGED <<completed, run>>
    BY <1>0, <1>1, <2>1, NoneEnded DEF CreatePermits
  <2>3. Ended' = Ended /\ cycle' = "QUEUED"
    BY <1>1, <2>2 DEF CreatePermits, Ended
  <2>4. 0 < Cardinality(Permits)
    BY Counting
  <2>5. completed' = Cardinality(Ended') /\ completed' < Cardinality(Permits)
    BY <1>0, <2>2, <2>3, <2>4
  <2>6. QED
    BY <2>3, <2>5
<1>2. CASE DeskStores /\ ~CreatePermits
  <2>1. UNCHANGED <<completed, run>>
    BY <1>2 DEF DeskStores, StopOrder, Deliver, ApproveQc, RejectQc, measured
  <2>2. \/ cycle' = cycle \/ cycle' = "STOPPED" \/ cycle = "QC_REQUIRED"
    BY <1>2 DEF DeskStores, StopOrder, Deliver, ApproveQc, RejectQc, measured
  <2>3. cycle' = cycle \/ cycle' \in {"STOPPED", "READY"}
    BY <1>2 DEF DeskStores, StopOrder, Deliver, ApproveQc, RejectQc, measured
  <2>4. Ended' = Ended
    BY <2>1 DEF Ended
  <2>5. QED
    BY <1>0, <2>1, <2>2, <2>3, <2>4
<1>3. ASSUME NEW p \in Permits, ClaimRun(p)
      PROVE  /\ completed' = Cardinality(Ended')
             /\ UNCHANGED <<completed, cycle>>
  <2>1. run[p] = "NONE" /\ run' = [run EXCEPT ![p] = "RUNNING"]
    BY <1>3 DEF ClaimRun, IInv, BooksMatchRuns
  <2>2. \A q \in Permits : run'[q] \in Finished <=> run[q] \in Finished
    BY <2>1 DEF Finished, IInv, TypeOK
  <2>3. Ended' = Ended
    BY <2>2 DEF Ended
  <2>4. QED
    BY <1>0, <1>3, <2>3 DEF ClaimRun
<1>4. ASSUME NEW p \in Permits, NEW outcome, RunEnds(p, outcome)
      PROVE  /\ completed' = Cardinality(Ended')
             /\ cycle' \in {"QC_REQUIRED", "READY"} => completed' = Cardinality(Permits)
             /\ cycle' \in {"QUEUED", "RUNNING"} => completed' < Cardinality(Permits)
  BY <1>0, <1>4, EndOfRun
<1>5. CASE UNCHANGED measured
  <2>1. Ended' = Ended /\ UNCHANGED <<completed, cycle>>
    BY <1>5 DEF Ended, measured
  <2>2. QED
    BY <1>0, <2>1
<1>6. ASSUME NEW p \in Permits,
             Reserve(p) \/ \E amount \in Nat : RunSettles(p, amount)
      PROVE  UNCHANGED measured
  BY <1>6 DEF Reserve, RunSettles, Settle
<1>7. QED
  BY <1>0, <1>1, <1>2, <1>3, <1>4, <1>5, <1>6, StoreStep DEF WorkerStores, store

\* What BooksMatchRuns says of a permit, without the calls, which other steps make.
Match(p) ==
    /\ run[p] # "NONE" <=> permit[p] = "consumed"
    /\ run[p] # "NONE" => ledger[p] # "NONE"
    /\ ledger[p] = "SETTLED" =>
          run[p] \in Finished /\ charged[p] \in {Estimate, cost[p]}

LEMMA MatchStep == IInv /\ [Next]_vars => \A p \in Permits : Match(p)'
<1> SUFFICES ASSUME IInv, [Next]_vars, NEW p \in Permits PROVE Match(p)'
  OBVIOUS
<1>0. Match(p) /\ TypeOK
  BY DEF IInv, BooksMatchRuns, Match
<1> USE <1>0 DEF Match
<1>1. CASE DeskStores
  <2>1. CASE CreatePermits
    <3>1. permit[p] = "none"
      BY <2>1 DEF CreatePermits, IInv, NothingBefore
    <3>2. QED
      BY <2>1, <3>1 DEF CreatePermits, books
  <2>2. CASE ~CreatePermits
    BY <1>1, <2>2 DEF DeskStores, StopOrder, Deliver, ApproveQc, RejectQc, measured, books
  <2>3. QED
    BY <2>1, <2>2
<1>2. ASSUME NEW q \in Permits, Reserve(q) PROVE Match(p)'
  BY <1>2 DEF Reserve, measured, TypeOK
<1>3. ASSUME NEW q \in Permits, ClaimRun(q), ledger[q] # "NONE" PROVE Match(p)'
  <2>1. CASE p = q
    <3>1. run[p] = "NONE" /\ ledger[p] # "SETTLED"
      BY <1>3, <2>1 DEF ClaimRun, Finished
    <3>2. run'[p] = "RUNNING" /\ permit'[p] = "consumed" /\ ledger' = ledger
      BY <1>3, <2>1 DEF ClaimRun, books, TypeOK
    <3>3. QED
      BY <1>3, <2>1, <3>1, <3>2
  <2>2. CASE p # q
    <3>1. run'[p] = run[p] /\ permit'[p] = permit[p] /\ UNCHANGED <<cost, books>>
      BY <1>3, <2>2 DEF ClaimRun, TypeOK
    <3>2. QED
      BY <3>1 DEF books
  <2>3. QED
    BY <2>1, <2>2
<1>4. ASSUME NEW q \in Permits, NEW outcome \in Outcomes \cup Failures,
             RunEnds(q, outcome)
      PROVE  Match(p)'
  <2>1. run[q] \notin Finished /\ outcome.status \in Finished
    BY <1>4, SaidOutcome DEF RunEnds, Finished
  <2>2. QED
    BY <1>4, <2>1 DEF RunEnds, CompleteRun, books, TypeOK, Finished
<1>5. ASSUME NEW q \in Permits, NEW amount \in Nat, RunSettles(q, amount)
      PROVE  Match(p)'
  <2>1. run[q] # "NONE"
    BY <1>5 DEF RunSettles, Finished
  <2>2. QED
    BY <1>5, <2>1 DEF RunSettles, Settle, measured, TypeOK
<1>6. CASE UNCHANGED store
  BY <1>6 DEF store, measured, books
<1>7. QED
  BY <1>1, <1>2, <1>3, <1>4, <1>5, <1>6, StoreStep DEF WorkerStores

-----------------------------------------------------------------------------
(* The workers.                                                             *)

\* Two workers past their claims have two permits.
LEMMA OthersElsewhere ==
    ASSUME IInv, NEW w \in Workers, NEW v \in Workers, w # v,
           wpc[w] \in Claimed, wpc[v] \in Claimed
    PROVE  cur[w] # cur[v]
BY DEF IInv, OneClaimant

\* The completion of a run as the worker that holds it and the others see it.
LEMMA RunEndSeen ==
    ASSUME IInv, NEW p \in Permits, NEW outcome, RunEnds(p, outcome)
    PROVE  /\ run'[p] = outcome.status /\ run'[p] \in Finished /\ cost'[p] = outcome.cost
           /\ \A q \in Permits : q # p => run'[q] = run[q] /\ cost'[q] = cost[q]
           /\ UNCHANGED ledger
<1>1. run[p] \notin Finished /\ outcome.status \in Finished
  BY SaidOutcome DEF RunEnds, Finished
<1>2. QED
  BY <1>1 DEF RunEnds, CompleteRun, books, IInv, TypeOK

\* What the invariant says of a worker that holds a job.
Holds(w) ==
    LET p == cur[w] IN
    /\ wpc[w] # "idle" => p \in Permits /\ ledger[p] # "NONE"
    /\ wpc[w] \in {"guards", "called", "complete"} => run[p] = "RUNNING"
    /\ wpc[w] = "guards" => calls[p] = 0
    /\ wpc[w] \in {"called", "complete"} => calls[p] = 1
    /\ wpc[w] = "complete" => said[w] \in Outcomes \cup Failures
    /\ wpc[w] = "failing" => run[p] # "NONE" /\ said[w] \in Failures
    /\ wpc[w] = "settle" =>
          /\ run[p] \in Finished /\ said[w] \in Outcomes \cup Failures
          /\ said[w].cost = NoCost \/ said[w].cost = cost[p]

\* A worker whose own variables and whose permit's rows stand holds what it held.
LEMMA HoldsStill ==
    ASSUME NEW v \in Workers, Holds(v),
           wpc'[v] = wpc[v], cur'[v] = cur[v], said'[v] = said[v],
           wpc[v] # "idle" /\ ledger[cur[v]] # "NONE" => ledger'[cur[v]] # "NONE",
           wpc[v] \in Claimed => /\ run'[cur[v]] = run[cur[v]]
                                 /\ cost'[cur[v]] = cost[cur[v]]
                                 /\ calls'[cur[v]] = calls[cur[v]]
    PROVE  Holds(v)'
BY DEF Holds, Claimed

LEMMA Resting ==
    ASSUME IInv, NEW w \in Workers, Leave(w)
    PROVE  /\ Holds(w)'
           /\ \A v \in Workers : v # w => /\ wpc'[v] = wpc[v] /\ cur'[v] = cur[v]
                                          /\ said'[v] = said[v]
           /\ calls' = calls /\ OneClaimant'
BY DEF Leave, Run, Holds, IInv, TypeOK, OneClaimant, Claimed

LEMMA Running ==
    ASSUME IInv, NEW w \in Workers, NEW step \in WorkerStep, Run(w, step), UNCHANGED cur,
           wpc[w] \in Claimed \/ step \notin Claimed,
           \A v \in Workers : v # w => said'[v] = said[v]
    PROVE  /\ wpc'[w] = step /\ cur'[w] = cur[w]
           /\ \A v \in Workers : v # w => /\ wpc'[v] = wpc[v] /\ cur'[v] = cur[v]
                                          /\ said'[v] = said[v]
           /\ OneClaimant'
BY DEF Run, IInv, TypeOK, OneClaimant

\* The end of a run disturbs no other worker.
LEMMA OthersHold ==
    ASSUME IInv, NEW w \in Workers, wpc[w] \in {"complete", "failing"},
           CompleteRun(cur[w], said[w]) \/ UNCHANGED store,
           NEW v \in Workers, v # w, calls' = calls,
           wpc'[v] = wpc[v], cur'[v] = cur[v], said'[v] = said[v]
    PROVE  Holds(v)'
<1>1. Holds(v)
  BY DEF IInv, WorkInHand, Holds
<1>2. CASE UNCHANGED store
  BY <1>1, <1>2, HoldsStill DEF store, measured, books
<1>3. CASE RunEnds(cur[w], said[w]) /\ cur[w] \in Permits
  <2>1. wpc[v] \in Claimed => cur[v] # cur[w]
    BY OthersElsewhere DEF Claimed
  <2>2. wpc[v] \in Claimed => cur[v] \in Permits
    BY <1>1 DEF Holds, Claimed
  <2>3. QED
    BY <1>1, <1>3, <2>1, <2>2, RunEndSeen, HoldsStill
<1>4. QED
  BY <1>2, <1>3, Completing

\* A step of one worker keeps the claims apart and what every worker holds.
LEMMA ClaimStep ==
    ASSUME IInv, NEW w \in Workers, ClaimPermit(w)
    PROVE  OneClaimant' /\ \A v \in Workers : Holds(v)'
<1>1. /\ cur[w] \in Permits /\ ledger[cur[w]] # "NONE"
      /\ permit[cur[w]] = "issued" /\ run[cur[w]] = "NONE" /\ calls[cur[w]] = 0
  BY DEF ClaimPermit, ClaimRun, IInv, WorkInHand, BooksMatchRuns, CallsMatchRuns
<1>2. \A v \in Workers : wpc[v] \in Claimed => cur[v] # cur[w]
  BY <1>1 DEF IInv, WorkInHand, Claimed, Finished
<1>3. /\ wpc' = [wpc EXCEPT ![w] = "guards"] /\ UNCHANGED <<cur, said, calls, ledger, cost>>
      /\ run' = [run EXCEPT ![cur[w]] = "RUNNING"]
  BY DEF ClaimPermit, ClaimRun, Run, books
<1>4. OneClaimant'
  BY <1>2, <1>3 DEF OneClaimant, IInv, TypeOK, Claimed
<1>5. Holds(w)'
  BY <1>1, <1>3 DEF Holds, IInv, TypeOK
<1>6. ASSUME NEW v \in Workers, v # w PROVE Holds(v)'
  <2>1. Holds(v) /\ wpc'[v] = wpc[v]
    BY <1>3, <1>6 DEF IInv, TypeOK, WorkInHand, Holds
  <2>2. wpc[v] \in Claimed => run'[cur[v]] = run[cur[v]]
    BY <1>2, <1>3, <2>1 DEF Holds, Claimed, IInv, TypeOK
  <2>3. QED
    BY <1>3, <2>1, <2>2, HoldsStill
<1>7. QED
  BY <1>4, <1>5, <1>6

\* Steps that leave the rows alone.
LEMMA QuietStep ==
    ASSUME IInv, NEW w \in Workers,
           \/ GuardsRefuse(w) \/ CallProvider(w) \/ ProviderFails(w)
           \/ \E outcome \in Outcomes : ProviderAnswers(w, outcome)
    PROVE  OneClaimant' /\ \A v \in Workers : Holds(v)'
<1>1. \A v \in Workers : Holds(v)
  BY DEF IInv, WorkInHand, Holds
<1>2. PICK step \in {"failing", "called", "complete"} : Run(w, step)
  BY DEF GuardsRefuse, CallProvider, ProviderFails, ProviderAnswers
<1>3. /\ UNCHANGED <<store, cur>> /\ wpc[w] \in {"guards", "called"}
      /\ \A v \in Workers : v # w => said'[v] = said[v]
      /\ \A q \in Permits : q # cur[w] => calls'[q] = calls[q]
  BY DEF GuardsRefuse, CallProvider, ProviderFails, ProviderAnswers, IInv, TypeOK
<1>4. /\ wpc'[w] = step /\ cur'[w] = cur[w] /\ OneClaimant'
      /\ \A v \in Workers : v # w => /\ wpc'[v] = wpc[v] /\ cur'[v] = cur[v]
                                     /\ said'[v] = said[v]
  BY <1>2, <1>3, Running DEF WorkerStep, Claimed
<1>5. UNCHANGED <<run, cost, ledger>>
  BY <1>3 DEF store, measured, books
<1>6. Holds(w)'
  <2>1. cur[w] \in Permits /\ run[cur[w]] = "RUNNING" /\ ledger[cur[w]] # "NONE"
    BY <1>1, <1>3 DEF Holds
  <2>2. CASE GuardsRefuse(w) \/ ProviderFails(w)
    BY <1>2, <1>4, <1>5, <2>1, <2>2
       DEF GuardsRefuse, ProviderFails, Failures, Run, Holds, IInv, TypeOK
  <2>3. CASE CallProvider(w)
    BY <1>1, <1>4, <1>5, <2>1, <2>3 DEF CallProvider, Run, Holds, IInv, TypeOK
  <2>4. ASSUME NEW outcome \in Outcomes, ProviderAnswers(w, outcome) PROVE Holds(w)'
    BY <1>1, <1>4, <1>5, <2>1, <2>4 DEF ProviderAnswers, Run, Holds, IInv, TypeOK
  <2>5. QED
    BY <2>2, <2>3, <2>4
<1>7. ASSUME NEW v \in Workers, v # w PROVE Holds(v)'
  <2>1. wpc[v] \in Claimed => cur[v] # cur[w] /\ cur[v] \in Permits
    BY <1>1, <1>3, <1>7, OthersElsewhere DEF Claimed, Holds
  <2>2. QED
    BY <1>1, <1>3, <1>4, <1>5, <1>7, <2>1, HoldsStill
<1>8. QED
  BY <1>4, <1>6, <1>7

\* The completion, and what a lost one or a lost acknowledgement leaves.
LEMMA EndStep ==
    ASSUME IInv, NEW w \in Workers,
           Complete(w) \/ CompleteThrows(w) \/ FailureUnrecorded(w)
    PROVE  OneClaimant' /\ \A v \in Workers : Holds(v)'
<1>1. /\ wpc[w] \in {"complete", "failing"}
      /\ CompleteRun(cur[w], said[w]) \/ UNCHANGED store
  BY DEF Complete, CompleteThrows, FailureUnrecorded
<1>2. /\ Holds(w) /\ cur[w] \in Permits /\ ledger[cur[w]] # "NONE"
      /\ run[cur[w]] # "NONE" /\ said[w] \in Outcomes \cup Failures
  BY <1>1 DEF IInv, WorkInHand, Holds
<1>3. /\ OneClaimant' /\ calls' = calls
      /\ \A v \in Workers : v # w => /\ wpc'[v] = wpc[v] /\ cur'[v] = cur[v]
                                     /\ said'[v] = said[v]
  <2>1. CASE Complete(w)
    BY <1>1, <2>1, Running DEF Complete, WorkerStep, Claimed
  <2>2. CASE CompleteThrows(w)
    <3>1. \A v \in Workers : v # w => said'[v] = said[v]
      BY <2>2 DEF CompleteThrows, IInv, TypeOK
    <3>2. QED
      BY <1>1, <2>2, <3>1, Running DEF CompleteThrows, WorkerStep, Claimed
  <2>3. CASE FailureUnrecorded(w)
    BY <2>3, Resting DEF FailureUnrecorded
  <2>4. QED
    BY <2>1, <2>2, <2>3
<1>4. ASSUME NEW v \in Workers, v # w PROVE Holds(v)'
  BY <1>1, <1>3, <1>4, OthersHold
<1>5. Holds(w)'
  <2>1. CASE FailureUnrecorded(w)
    BY <2>1, Resting DEF FailureUnrecorded
  <2>2. CASE CompleteThrows(w)
    <3>1. /\ wpc'[w] = "failing" /\ said'[w] = Failure /\ cur'[w] = cur[w]
      BY <2>2 DEF CompleteThrows, Run, IInv, TypeOK
    <3>2. UNCHANGED store \/ RunEnds(cur[w], said[w])
      BY <1>1, Completing
    <3>3. run'[cur[w]] # "NONE" /\ ledger'[cur[w]] # "NONE"
      BY <1>2, <3>2, RunEndSeen DEF store, measured, books, Finished
    <3>4. QED
      BY <1>2, <3>1, <3>3 DEF Holds, Failures
  <2>3. CASE Complete(w)
    <3>1. wpc'[w] = "settle" /\ said'[w] = said[w] /\ cur'[w] = cur[w]
      BY <2>3 DEF Complete, Run, IInv, TypeOK
    <3>2. CASE RunEnds(cur[w], said[w])
      BY <1>2, <3>1, <3>2, RunEndSeen DEF Holds
    <3>3. CASE run[cur[w]] \in Finished
      <4>1. UNCHANGED store
        BY <2>3, <3>3 DEF Complete, CompleteRun
      <4>2. said[w].cost = NoCost
        BY <1>1, <1>2, <3>3 DEF Holds, Failure, Failures, Finished
      <4>3. QED
        BY <1>2, <3>1, <3>3, <4>1, <4>2 DEF Holds, store, measured, books
    <3>4. run[cur[w]] \notin Finished => RunEnds(cur[w], said[w])
      <4>1. ASSUME run[cur[w]] \notin Finished PROVE run[cur[w]] = "RUNNING"
        BY <1>2, <4>1 DEF IInv, TypeOK
      <4>2. said[w].status = "SUCCEEDED" => calls[cur[w]] = 1
        BY <1>1, <1>2 DEF Holds, Failure, Failures
      <4>3. QED
        BY <1>2, <2>3, <4>1, <4>2 DEF RunEnds, Complete
    <3>5. QED
      BY <3>2, <3>3, <3>4
  <2>4. QED
    BY <2>1, <2>2, <2>3
<1>6. QED
  BY <1>3, <1>4, <1>5

LEMMA JobKeepsWork ==
    ASSUME IInv, NEW w \in Workers, Job(w) \/ Crash(w)
    PROVE  OneClaimant' /\ \A v \in Workers : Holds(v)'
<1>0. \A v \in Workers : Holds(v)
  BY DEF IInv, WorkInHand, Holds
<1>1. CASE ClaimSkipped(w) \/ SettleGivesUp(w) \/ Crash(w)
  <2>1. Leave(w) /\ UNCHANGED store
    BY <1>1 DEF ClaimSkipped, SettleGivesUp, Crash
  <2>2. QED
    BY <1>0, <2>1, Resting, HoldsStill DEF store, measured, books
<1>2. CASE SettleSpend(w)
  <2>1. Leave(w) /\ Settle(cur[w], Spent(said[w])) /\ cur[w] \in Permits
    BY <1>0, <1>2 DEF SettleSpend, Holds
  <2>2. UNCHANGED <<run, cost>> /\ \A q \in Permits : ledger[q] # "NONE" => ledger'[q] # "NONE"
    BY <2>1 DEF Settle, measured, IInv, TypeOK
  <2>3. ASSUME NEW v \in Workers, v # w PROVE Holds(v)'
    <3>1. wpc[v] # "idle" => cur[v] \in Permits
      BY <1>0 DEF Holds
    <3>2. QED
      BY <1>0, <2>1, <2>2, <2>3, <3>1, Resting, HoldsStill
  <2>4. QED
    BY <2>1, <2>3, Resting
<1>3. QED
  BY <1>1, <1>2, ClaimStep, QuietStep, EndStep DEF Job

LEMMA FetchKeepsWork ==
    ASSUME IInv, NEW w \in Workers, NEW p \in Permits, FetchJob(w, p)
    PROVE  OneClaimant' /\ \A v \in Workers : Holds(v)'
<1>1. /\ wpc' = [wpc EXCEPT ![w] = "claim"] /\ cur' = [cur EXCEPT ![w] = p]
      /\ UNCHANGED <<said, calls, run, cost>> /\ wpc[w] = "idle"
  BY DEF FetchJob, Run, Reserve, measured
<1>2. ledger'[p] # "NONE" /\ \A q \in Permits : ledger[q] # "NONE" => ledger'[q] # "NONE"
  BY DEF FetchJob, Reserve, IInv, TypeOK
<1>3. OneClaimant'
  BY <1>1 DEF IInv, TypeOK, OneClaimant, Claimed
<1>4. Holds(w)'
  BY <1>1, <1>2 DEF Holds, IInv, TypeOK
<1>5. ASSUME NEW v \in Workers, v # w PROVE Holds(v)'
  <2>1. Holds(v) /\ wpc'[v] = wpc[v] /\ cur'[v] = cur[v]
    BY <1>1, <1>5 DEF IInv, TypeOK, WorkInHand, Holds
  <2>2. wpc[v] # "idle" => cur[v] \in Permits
    BY <2>1 DEF Holds
  <2>3. QED
    BY <1>1, <1>2, <2>1, <2>2, HoldsStill
<1>6. QED
  BY <1>3, <1>4, <1>5

\* Desks and the queue leave the workers and what they rely on alone.
LEMMA DesksKeepWork ==
    ASSUME IInv, UNCHANGED <<working, calls>>, DeskStores \/ UNCHANGED store
    PROVE  OneClaimant' /\ \A v \in Workers : Holds(v)'
<1>1. UNCHANGED <<run, cost, ledger, wpc, cur, said, calls>>
  BY DEF DeskStores, CreatePermits, StopOrder, Deliver, ApproveQc, RejectQc, store,
         measured, books, working
<1>2. QED
  BY <1>1, HoldsStill DEF IInv, WorkInHand, Holds, OneClaimant

LEMMA WorkStep == IInv /\ [Next]_vars => OneClaimant' /\ WorkInHand'
<1> SUFFICES ASSUME IInv, [Next]_vars
             PROVE  OneClaimant' /\ \A v \in Workers : Holds(v)'
  BY DEF WorkInHand, Holds
<1>1. ASSUME ApproveOrder \/ StopSelenaOrder \/ DeliverOrder \/ \E d \in Desks : Desk(d)
      PROVE  UNCHANGED <<working, calls>> /\ (DeskStores \/ UNCHANGED store)
  BY <1>1 DEF ApproveOrder, StopSelenaOrder, DeliverOrder, Desk, OpenReview, CommitReview,
              SignRefused, Close, untouchedByDesk, DeskStores
<1>2. ASSUME \/ \E p \in Permits : EnqueueRun(p) \/ JobDropped(p)
             \/ PermitsExpire \/ UNCHANGED vars
      PROVE  UNCHANGED <<working, calls, store>>
  BY <1>2 DEF EnqueueRun, JobDropped, PermitsExpire, vars
<1>3. QED
  BY <1>1, <1>2, DesksKeepWork, JobKeepsWork, FetchKeepsWork DEF Next

-----------------------------------------------------------------------------
(* Calls and stamps.                                                        *)

\* Only a worker past its guards calls the provider, and it writes no row then.
LEMMA WhoCalls ==
    IInv /\ [Next]_vars =>
        \/ calls' = calls
        \/ \E w \in Workers : CallProvider(w) /\ UNCHANGED store
BY DEF Next, ApproveOrder, StopSelenaOrder, DeliverOrder, Desk, OpenReview, CommitReview,
       SignRefused, Close, untouchedByDesk, EnqueueRun, JobDropped, FetchJob, Job, Crash,
       ClaimPermit, ClaimSkipped, GuardsRefuse, CallProvider, ProviderAnswers,
       ProviderFails, Complete, CompleteThrows, FailureUnrecorded, SettleSpend,
       SettleGivesUp, Leave, PermitsExpire, vars

\* A run that started stays started, and one that succeeds was called for.
LEMMA RunsGoOn ==
    ASSUME IInv, [Next]_vars, NEW p \in Permits
    PROVE  /\ run'[p] = "NONE" => run[p] = "NONE"
           /\ run'[p] = "SUCCEEDED" => run[p] = "SUCCEEDED" \/ calls[p] = 1
<1> USE DEF IInv, TypeOK
<1>1. CASE DeskStores \/ UNCHANGED store
  BY <1>1 DEF DeskStores, CreatePermits, StopOrder, Deliver, ApproveQc, RejectQc, store,
              measured
<1>2. ASSUME NEW q \in Permits,
             \/ Reserve(q) \/ ClaimRun(q) \/ \E amount \in Nat : RunSettles(q, amount)
      PROVE  run'[p] = run[p] \/ run'[p] = "RUNNING"
  BY <1>2 DEF Reserve, ClaimRun, RunSettles, Settle, measured
<1>3. ASSUME NEW q \in Permits, NEW outcome, RunEnds(q, outcome)
      PROVE  /\ run'[p] = "NONE" => run[p] = "NONE"
             /\ run'[p] = "SUCCEEDED" => run[p] = "SUCCEEDED" \/ calls[p] = 1
  BY <1>3, RunEndSeen DEF RunEnds, Finished
<1>4. QED
  BY <1>1, <1>2, <1>3, StoreStep DEF WorkerStores

LEMMA CallsStep ==
    ASSUME IInv, [Next]_vars, NEW p \in Permits
    PROVE  /\ run'[p] = "NONE" => calls'[p] = 0
           /\ calls'[p] \in {0, 1}
           /\ run'[p] = "SUCCEEDED" => calls'[p] = 1
<1>0. /\ run[p] = "NONE" => calls[p] = 0
      /\ calls[p] \in {0, 1}
      /\ run[p] = "SUCCEEDED" => calls[p] = 1
  BY DEF IInv, CallsMatchRuns, BooksMatchRuns
<1>1. CASE calls' = calls
  BY <1>0, <1>1, RunsGoOn
<1>2. ASSUME NEW w \in Workers, CallProvider(w), UNCHANGED store
      PROVE  /\ run'[p] = "NONE" => calls'[p] = 0
             /\ calls'[p] \in {0, 1}
             /\ run'[p] = "SUCCEEDED" => calls'[p] = 1
  <2>1. calls[cur[w]] = 0 /\ run[cur[w]] = "RUNNING" /\ cur[w] \in Permits
    BY <1>2 DEF CallProvider, IInv, WorkInHand
  <2>2. run' = run /\ calls' = [calls EXCEPT ![cur[w]] = @ + 1]
    BY <1>2 DEF CallProvider, store, measured
  <2>3. QED
    BY <1>0, <2>1, <2>2 DEF IInv, TypeOK
<1>3. QED
  BY <1>1, <1>2, WhoCalls

LEMMA StampsStep == IInv /\ [Next]_vars => StampsInPast'
<1> SUFFICES ASSUME IInv, [Next]_vars PROVE StampsInPast'
  OBVIOUS
<1> USE DEF IInv, TypeOK, StampsInPast
<1>1. ASSUME NEW d \in Desks, Desk(d) PROVE StampsInPast'
  BY <1>1, BoundsAssumption
     DEF Desk, OpenReview, CommitReview, SignRefused, Close, ApproveQc, RejectQc, store, review
<1>2. ASSUME UNCHANGED <<stamp, began>> PROVE StampsInPast'
  BY <1>2
<1>3. CASE ApproveOrder \/ StopSelenaOrder \/ DeliverOrder
  BY <1>2, <1>3 DEF ApproveOrder, StopSelenaOrder, DeliverOrder, CreatePermits, StopOrder,
                    Deliver, desks, review
<1>4. CASE \/ \E p \in Permits : EnqueueRun(p) \/ JobDropped(p)
           \/ PermitsExpire \/ UNCHANGED vars
  BY <1>2, <1>4 DEF EnqueueRun, JobDropped, PermitsExpire, vars, store, desks, review
<1>5. ASSUME NEW w \in Workers, Job(w) \/ Crash(w) \/ \E p \in Permits : FetchJob(w, p)
      PROVE  UNCHANGED <<stamp, began>>
  <2>1. UNCHANGED desks
    BY <1>5 DEF Job, Crash, FetchJob, ClaimPermit, ClaimSkipped, GuardsRefuse, CallProvider,
                ProviderAnswers, ProviderFails, Complete, CompleteThrows, FailureUnrecorded,
                SettleSpend, SettleGivesUp, Leave, Run
  <2>2. UNCHANGED review
    BY <1>5 DEF Job, Crash, FetchJob, ClaimPermit, ClaimSkipped, GuardsRefuse, CallProvider,
                ProviderAnswers, ProviderFails, Complete, CompleteThrows, FailureUnrecorded,
                SettleSpend, SettleGivesUp, CompleteRun, ClaimRun, Reserve, Settle, store
  <2>3. QED
    BY <2>1, <2>2 DEF desks, review
<1>6. QED
  BY <1>1, <1>2, <1>3, <1>4, <1>5 DEF Next

-----------------------------------------------------------------------------
(* Types.                                                                   *)

\* The rows keep their types.
StoreTyped ==
    /\ order \in OrderStatus /\ cycle \in CycleStatus
    /\ completed \in 0 .. Cardinality(Permits)
    /\ permit \in [Permits -> {"none", "issued", "consumed"}]
    /\ run \in [Permits -> {"NONE", "RUNNING"} \cup Finished]
    /\ cost \in [Permits -> Nat \cup {NoCost}]
    /\ ledger \in [Permits -> {"NONE", "RESERVED", "SETTLED"}]
    /\ charged \in [Permits -> Nat]
    /\ latest.decision \in {"none", "approved", "rejected"}
    /\ latest.created \in 0 .. began /\ began \in 0 .. MaxReviews

LEMMA StoreTypeStep == IInv /\ [Next]_vars => StoreTyped'
<1> SUFFICES ASSUME IInv, [Next]_vars PROVE StoreTyped'
  OBVIOUS
<1>0. StoreTyped
  BY DEF IInv, TypeOK, StoreTyped
<1> USE <1>0, BoundsAssumption DEF StoreTyped
<1>1. CASE DeskStores
  <2>1. CASE \E d \in Desks : ApproveQc(stamp[d]) \/ RejectQc(stamp[d])
    <3>1. PICK d \in Desks : ApproveQc(stamp[d]) \/ RejectQc(stamp[d])
      BY <2>1
    <3>2. stamp[d] \in 0 .. began
      BY DEF IInv, TypeOK, StampsInPast
    <3>3. /\ latest'.decision \in {"none", "approved", "rejected"}
          /\ latest'.created \in 0 .. began /\ began' = began
      BY <3>1, <3>2 DEF ApproveQc, RejectQc, Recorded
    <3>4. QED
      BY <3>1, <3>3 DEF ApproveQc, RejectQc, books, OrderStatus, CycleStatus
  <2>2. CASE CreatePermits \/ StopOrder \/ Deliver
    BY <2>2 DEF CreatePermits, StopOrder, Deliver, OrderStatus, CycleStatus, books, review
  <2>3. CASE began < MaxReviews /\ began' = began + 1 /\ UNCHANGED <<measured, books, latest>>
    <3>1. began' \in 0 .. MaxReviews /\ latest'.created \in 0 .. began'
      BY <2>3
    <3>2. QED
      BY <2>3, <3>1 DEF measured, books
  <2>4. QED
    BY <1>1, <2>1, <2>2, <2>3 DEF DeskStores
<1>2. ASSUME NEW p \in Permits, Reserve(p) PROVE StoreTyped'
  BY <1>2 DEF Reserve, measured, review
<1>3. ASSUME NEW p \in Permits, ClaimRun(p) PROVE StoreTyped'
  BY <1>3 DEF ClaimRun, books, review
<1>4. ASSUME NEW p \in Permits, NEW outcome \in Outcomes \cup Failures,
             RunEnds(p, outcome)
      PROVE  StoreTyped'
  <2>1. /\ outcome.status \in Finished /\ outcome.cost \in Nat \cup {NoCost}
        /\ run[p] \notin Finished
    BY <1>4, SaidOutcome DEF RunEnds, Finished
  <2>2. cycle' \in CycleStatus /\ order' \in OrderStatus
    BY <1>4, EndOfRun DEF CycleStatus, OrderStatus
  <2>3. completed' \in 0 .. Cardinality(Permits)
    BY <1>4, EndOfRun, Counting
  <2>4. QED
    BY <1>4, <2>1, <2>2, <2>3 DEF RunEnds, CompleteRun, books, review
<1>5. ASSUME NEW p \in Permits, NEW amount \in Nat, RunSettles(p, amount)
      PROVE  StoreTyped'
  BY <1>5 DEF RunSettles, Settle, measured, review
<1>6. CASE UNCHANGED store
  BY <1>6 DEF store, measured, books, review
<1>7. QED
  BY <1>1, <1>2, <1>3, <1>4, <1>5, <1>6, StoreStep DEF WorkerStores

\* So do the queue, the workers, the desks and the calls.
RestTyped ==
    /\ jobs \in [Permits -> 0 .. MaxCopies]
    /\ expired \in BOOLEAN
    /\ wpc \in [Workers -> WorkerStep] /\ cur \in [Workers -> Permits \cup {NoPermit}]
    /\ halted \in [Workers -> BOOLEAN]
    /\ said \in [Workers -> Outcomes \cup Failures \cup {NoOutcome}]
    /\ dpc \in [Desks -> DeskStep] /\ stamp \in [Desks -> 0 .. MaxReviews]
    /\ calls \in [Permits -> Nat]

LEMMA RestTypeStep == IInv /\ [Next]_vars => RestTyped'
<1> SUFFICES ASSUME IInv, [Next]_vars PROVE RestTyped'
  OBVIOUS
<1>0. RestTyped /\ began \in 0 .. MaxReviews
  BY DEF IInv, TypeOK, RestTyped
<1> USE <1>0, BoundsAssumption DEF RestTyped
<1>1. CASE ApproveOrder \/ StopSelenaOrder \/ DeliverOrder
  BY <1>1 DEF ApproveOrder, StopSelenaOrder, DeliverOrder, untouchedByDesk, working, desks
<1>2. ASSUME NEW d \in Desks, Desk(d) PROVE RestTyped'
  BY <1>2 DEF Desk, OpenReview, CommitReview, SignRefused, Close, untouchedByDesk, working,
              DeskStep
<1>3. ASSUME NEW p \in Permits, EnqueueRun(p) \/ JobDropped(p) PROVE RestTyped'
  BY <1>3 DEF EnqueueRun, JobDropped, working, desks
<1>4. ASSUME NEW w \in Workers, NEW p \in Permits, FetchJob(w, p) PROVE RestTyped'
  <2>1. jobs' \in [Permits -> 0 .. MaxCopies]
    BY <1>4 DEF FetchJob
  <2>2. halted' \in [Workers -> BOOLEAN]
    BY <1>4 DEF FetchJob
  <2>3. QED
    BY <1>4, <2>1, <2>2 DEF FetchJob, Run, WorkerStep, desks
<1>5. ASSUME NEW w \in Workers, Leave(w) PROVE RestTyped'
  BY <1>5 DEF Leave, Run, WorkerStep, desks
<1>6. ASSUME NEW w \in Workers, Job(w), ~Leave(w) PROVE RestTyped'
  <2>1. CASE ClaimPermit(w)
    BY <2>1 DEF ClaimPermit, Run, WorkerStep, desks
  <2>2. CASE GuardsRefuse(w) \/ ProviderFails(w)
    BY <2>2 DEF GuardsRefuse, ProviderFails, Failures, Run, WorkerStep, desks
  <2>3. CASE CallProvider(w)
    <3>1. calls' \in [Permits -> Nat]
      <4>1. cur[w] \in Permits /\ calls[cur[w]] + 1 \in Nat
        BY <2>3 DEF CallProvider, IInv, WorkInHand
      <4>2. QED
        BY <2>3, <4>1 DEF CallProvider
    <3>2. QED
      BY <2>3, <3>1 DEF CallProvider, Run, WorkerStep, desks
  <2>4. ASSUME NEW outcome \in Outcomes, ProviderAnswers(w, outcome) PROVE RestTyped'
    BY <2>4 DEF ProviderAnswers, Run, WorkerStep, desks
  <2>5. CASE Complete(w) \/ CompleteThrows(w)
    BY <2>5 DEF Complete, CompleteThrows, Failures, Run, WorkerStep, desks
  <2>6. QED
    BY <1>6, <2>1, <2>2, <2>3, <2>4, <2>5
       DEF Job, ClaimSkipped, FailureUnrecorded, SettleSpend, SettleGivesUp
<1>7. CASE PermitsExpire \/ UNCHANGED vars
  BY <1>7 DEF PermitsExpire, vars, working, desks
<1>8. QED
  BY <1>1, <1>2, <1>3, <1>4, <1>5, <1>6, <1>7 DEF Next, Crash

-----------------------------------------------------------------------------
(* The theorems.                                                            *)

LEMMA Invariant == Spec => []IInv
<1>1. Init => IInv
  <2> SUFFICES ASSUME Init PROVE IInv
    OBVIOUS
  <2> USE DEF Init, StoreInit, NoRecord
  <2>1. ProgressIsCounted
    BY NoneEnded, Progress
  <2>2. TypeOK
    <3>1. StoreTyped
      <4>1. 0 \in 0 .. Cardinality(Permits) /\ 0 \in 0 .. MaxReviews
        BY Counting, BoundsAssumption
      <4>2. QED
        BY <4>1 DEF StoreTyped, OrderStatus, CycleStatus
    <3>2. RestTyped
      <4>1. 0 \in 0 .. MaxCopies /\ 0 \in 0 .. MaxReviews
        BY BoundsAssumption
      <4>2. QED
        BY <4>1 DEF RestTyped, WorkerStep, DeskStep
    <3>3. QED
      BY <3>1, <3>2 DEF TypeOK, StoreTyped, RestTyped
  <2>3. NothingBefore /\ OneClaimant /\ WorkInHand /\ CallsMatchRuns /\ StampsInPast
    BY DEF NothingBefore, OneClaimant, Claimed, WorkInHand, CallsMatchRuns, StampsInPast
  <2>4. OrderFollowsCycle /\ BooksMatchRuns
    BY DEF OrderFollowsCycle, BooksMatchRuns
  <2>5. QED
    BY <2>1, <2>2, <2>3, <2>4 DEF IInv
<1>2. IInv /\ [Next]_vars => IInv'
  <2> SUFFICES ASSUME IInv, [Next]_vars PROVE IInv'
    OBVIOUS
  <2>1. TypeOK'
    BY StoreTypeStep, RestTypeStep DEF StoreTyped, RestTyped, TypeOK
  <2>2. CallsMatchRuns'
    BY CallsStep DEF CallsMatchRuns
  <2>3. BooksMatchRuns'
    BY MatchStep, CallsStep DEF Match, BooksMatchRuns
  <2>4. QED
    BY <2>1, <2>2, <2>3, NothingStep, WorkStep, StampsStep, OrderStep, ProgressStep
       DEF IInv
<1>3. QED
  BY <1>1, <1>2, PTL DEF Spec

\* Every row and every variable of a worker or a desk keeps its type; the counter of
\* completed runs never passes the number of permits.
THEOREM TypeCorrect == Spec => []TypeOK
<1>1. IInv => TypeOK
  BY DEF IInv
<1>2. QED
  BY <1>1, Invariant, PTL

\* The order row and the cycle row tell the same story after every transaction of
\* the desks, completeRun and the QC records.
THEOREM OrderFollows == Spec => []OrderFollowsCycle
<1>1. IInv => OrderFollowsCycle
  BY DEF IInv
<1>2. QED
  BY <1>1, Invariant, PTL

\* completed_runs counts every run that ended once, whatever job ends it, and the
\* review waits for the last one.
THEOREM ProgressCounted == Spec => []ProgressIsCounted
<1>1. IInv => ProgressIsCounted
  BY DEF IInv
<1>2. QED
  BY <1>1, Invariant, PTL

\* The permit, the run, the ledger row and the calls of a paid question agree: a run
\* has its permit spent and a ledger row, and is settled only after its end, at
\* its stored cost or the estimate.  A reservation may outlive its run.
THEOREM BooksMatch == Spec => []BooksMatchRuns
<1>1. IInv => BooksMatchRuns
  BY DEF IInv
<1>2. QED
  BY <1>1, Invariant, PTL

-----------------------------------------------------------------------------
(* The refinement of PaidCall, one permit at a time.                        *)

LEMMA PaidStep ==
    ASSUME IInv, [Next]_vars, NEW p \in Permits
    PROVE  Paid(p)!Step
<1> USE DEF Paid!Step, Paid!Next, Paid!Promise, Paid!Call, Paid!Settle, Paid!GiveBack
<1>0. ledger \in [Permits -> {"NONE", "RESERVED", "SETTLED"}] /\ calls \in [Permits -> Nat]
  BY DEF IInv, TypeOK
<1>1. ASSUME NEW w \in Workers, CallProvider(w), UNCHANGED store PROVE Paid(p)!Step
  <2>1. /\ cur[w] \in Permits /\ calls[cur[w]] = 0
        /\ run[cur[w]] = "RUNNING" /\ ledger[cur[w]] # "NONE"
    BY <1>1 DEF CallProvider, IInv, WorkInHand
  <2>2. ledger[cur[w]] = "RESERVED"
    BY <1>0, <2>1 DEF IInv, BooksMatchRuns, Finished
  <2>3. ledger' = ledger /\ calls' = [calls EXCEPT ![cur[w]] = @ + 1]
    BY <1>1 DEF CallProvider, store, books
  <2>4. QED
    BY <1>0, <2>1, <2>2, <2>3
<1>2. CASE calls' = calls
  <2>1. ASSUME NEW q \in Permits, Reserve(q) PROVE Paid(p)!Step
    BY <1>0, <1>2, <2>1 DEF Reserve
  <2>2. ASSUME NEW q \in Permits, NEW amount \in Nat, RunSettles(q, amount)
        PROVE  Paid(p)!Step
    BY <1>0, <1>2, <2>2 DEF RunSettles, Settle
  <2>3. CASE ledger' = ledger
    BY <1>2, <2>3
  <2>4. ASSUME NEW q \in Permits,
               ClaimRun(q) \/ \E outcome : RunEnds(q, outcome)
        PROVE  ledger' = ledger
    BY <2>4, RunEndSeen DEF ClaimRun, books
  <2>5. DeskStores \/ UNCHANGED store => ledger' = ledger
    BY DEF DeskStores, CreatePermits, StopOrder, Deliver, ApproveQc, RejectQc, store, books
  <2>6. QED
    BY <2>1, <2>2, <2>3, <2>4, <2>5, StoreStep DEF WorkerStores
<1>3. QED
  BY <1>1, <1>2, WhoCalls

\* Every permit is one paid call: money is promised before the provider is called,
\* it is called once at most, and the promise is kept.
THEOREM PermitsPaid == Spec => PermitsArePaidCalls
<1>1. Init => \A p \in Permits : Paid(p)!Init
  BY DEF Init, StoreInit, Paid!Init
<1>2. IInv /\ [Next]_vars => [\A p \in Permits : Paid(p)!Step]_vars
  BY PaidStep
<1>3. QED
  BY <1>1, <1>2, Invariant, PTL DEF Spec, PermitsArePaidCalls

-----------------------------------------------------------------------------
(* The refinement of OrderLife.                                             *)

LifeVars == <<order, calls, latest.decision = "approved">>

LEMMA LifeInit == Init => Life!Init
BY DEF Init, StoreInit, NoRecord, Life!Init

LEMMA LifeStep == IInv /\ [Next]_vars => [Life!Next]_LifeVars
<1> SUFFICES ASSUME IInv, [Next]_vars PROVE [Life!Next]_LifeVars
  OBVIOUS
<1> USE DEF LifeVars, Life!Next
<1>1. ASSUME NEW w \in Workers, CallProvider(w), UNCHANGED store PROVE Life!Next
  <2>1. /\ cur[w] \in Permits /\ calls[cur[w]] = 0 /\ run[cur[w]] = "RUNNING"
        /\ permit[cur[w]] = "consumed"
    BY <1>1 DEF CallProvider, IInv, WorkInHand, BooksMatchRuns
  <2>2. completed < Cardinality(Permits)
    <3>1. Ended # Permits
      BY <2>1 DEF Ended, Finished
    <3>2. QED
      BY <3>1, Counting, Progress DEF IInv
  <2>3. cycle \in {"QUEUED", "RUNNING", "STOPPED"}
    BY <2>1, <2>2, Counting
       DEF IInv, ProgressIsCounted, NothingBefore, TypeOK, CycleStatus
  <2>4. order \in {"QUEUED", "CANCELLED"}
    BY <2>3 DEF IInv, OrderFollowsCycle
  <2>5. calls' = [calls EXCEPT ![cur[w]] = 1] /\ UNCHANGED <<order, latest>>
    BY <1>1, <2>1 DEF CallProvider, store, measured, review, IInv, TypeOK
  <2>6. QED
    BY <2>1, <2>4, <2>5 DEF Life!Measure
<1>2. CASE calls' = calls
  <2>1. CASE CreatePermits
    BY <1>2, <2>1 DEF CreatePermits, review, Life!Approve
  <2>2. CASE StopOrder
    BY <1>2, <2>2 DEF StopOrder, review, Life!Cancel
  <2>3. CASE Deliver
    BY <1>2, <2>3 DEF Deliver, review, Life!Deliver
  <2>4. ASSUME NEW created, ApproveQc(created) PROVE [Life!Next]_LifeVars
    <3>1. order' = "READY" /\ (latest'.decision = "approved" \/ latest' = latest)
      BY <2>4 DEF ApproveQc, Recorded
    <3>2. CASE order = "QC_REQUIRED"
      <4>1. PICK p \in Permits : run[p] = "SUCCEEDED"
        BY <2>4, <3>2 DEF ApproveQc, Approvable, IInv, OrderFollowsCycle
      <4>2. calls[p] > 0
        BY <4>1 DEF IInv, BooksMatchRuns
      <4>3. QED
        BY <1>2, <3>1, <3>2, <4>2 DEF Life!Publish
    <3>3. CASE order = "READY"
      BY <1>2, <3>1, <3>3 DEF Life!SignAgain
    <3>4. QED
      BY <2>4, <3>2, <3>3 DEF ApproveQc, Approvable
  <2>5. ASSUME NEW created, RejectQc(created) PROVE [Life!Next]_LifeVars
    <3>1. latest'.decision = "rejected" \/ latest' = latest
      BY <2>5 DEF RejectQc, Recorded
    <3>2. CASE order' = order
      BY <1>2, <3>1, <3>2 DEF Life!Reject
    <3>3. CASE order' # order
      BY <1>2, <2>5, <3>1, <3>3 DEF RejectQc, Life!Cancel
    <3>4. QED
      BY <3>2, <3>3
  <2>6. ASSUME NEW p \in Permits, NEW outcome, RunEnds(p, outcome)
        PROVE  [Life!Next]_LifeVars
    <3>1. latest' = latest
      BY <2>6, RunEndSeen DEF RunEnds, CompleteRun, store, review
    <3>2. QED
      BY <1>2, <2>6, <3>1, EndOfRun DEF Life!Review, Life!Cancel
  <2>7. CASE UNCHANGED <<order, latest>>
    BY <1>2, <2>7
  <2>8. ASSUME NEW p \in Permits,
               \/ Reserve(p) \/ ClaimRun(p) \/ \E amount \in Nat : RunSettles(p, amount)
        PROVE  UNCHANGED <<order, latest>>
    BY <2>8 DEF Reserve, ClaimRun, RunSettles, Settle, measured, review
  <2>9. UNCHANGED <<measured, books, latest>> \/ UNCHANGED store
          => UNCHANGED <<order, latest>>
    BY DEF store, measured, review
  <2>10. QED
    BY <2>1, <2>2, <2>3, <2>4, <2>5, <2>6, <2>7, <2>8, <2>9, StoreStep
       DEF WorkerStores, DeskStores
<1>3. QED
  BY <1>1, <1>2, WhoCalls

\* The order lives the life an operator is told of: never revived, published only
\* with an answer, delivered only under a signature.
THEOREM OrderLives == Spec => OrderKeepsItsLife
<1>1. QED
  BY LifeInit, LifeStep, Invariant, PTL DEF Spec, OrderKeepsItsLife, Life!Spec, LifeVars
=============================================================================
