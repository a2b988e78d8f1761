------------------------- MODULE FreeDispatchProofs -------------------------
(***************************************************************************)
(* Theorems about the measurement that a free request starts, for any      *)
(* number of requests, submissions, days and caps.  What the lease of a    *)
(* request is good for needs that no handler outlives it: those theorems   *)
(* say so in their hypothesis.                                             *)
(***************************************************************************)
EXTENDS FreeDispatch, FiniteSetTheorems, TLAPS

\* A handler has its request in hand.
HasRequest == \A s \in Submissions : spc[s] # "idle" => cur[s] \in Requests

\* The server was started again with the flag off: no dispatch is under way, and
\* what is left to write is that nothing started.
NothingWhenOff ==
    ~enabled => \A s \in Submissions : /\ spc[s] \in {"idle", "before", "settle"}
                                       /\ spc[s] = "settle" => launch[s] = "NOT_STARTED"

\* From the lease to the status that is written at the end.
Holding(s, r) == cur[s] = r /\ spc[s] \in Dispatching \cup {"settle"}

\* A request without an order has one handler past the lease, and the lease is its.
OneHolder ==
    enabled =>
      \A s \in Submissions : \A r \in Requests :
        Holding(s, r) /\ order[r] = "NONE" =>
            /\ request[r] = "AUTO_DISPATCHING" /\ ~stale[r]
            /\ \A t \in Submissions : Holding(t, r) => t = s

\* A handler that claims, drafts or releases has seen no order, and there is none;
\* it drafts with the slot it claimed.
SeenNoOrder ==
    \A s \in Submissions :
        /\ spc[s] \in {"claim", "draft", "release"} => order[cur[s]] = "NONE"
        /\ spc[s] = "draft" => slot[cur[s]] # 0

\* The order was approved, and if it still waits its jobs are in the queue.
Underway(r) ==
    /\ order[r] \notin {"NONE", "PAID_REVIEW_REQUIRED"}
    /\ order[r] = "QUEUED" => runs[r] = "AUDITED"

\* What a handler is about to write of its request is true, and stays true.
SettlesTruth ==
    \A s \in Submissions : spc[s] \in {"release", "settle"} =>
        /\ launch[s] \in {"NOT_STARTED", "AWAITING_OPERATOR", "QUEUED"}
        /\ launch[s] = "NOT_STARTED" /\ enabled => order[cur[s]] = "NONE"
        /\ launch[s] = "AWAITING_OPERATOR" => order[cur[s]] # "NONE"
        /\ launch[s] = "QUEUED" => Underway(cur[s])

\* The slots of a day.
Taken(day) == {r \in Requests : slot[r] = day}
InProject(S, p) == {q \in S : Project[q] = p}

FiniteDays == \A day \in 1 .. MaxDays : IsFiniteSet(Taken(day))

IInv == /\ TypeOK /\ HasRequest /\ NothingWhenOff
        /\ OneHolder /\ SeenNoOrder /\ SettlesTruth
        /\ FiniteDays /\ FreeOrdersHoldSlots /\ InboxTellsTruth

-----------------------------------------------------------------------------
(* Types, and what a handler has in hand.                                   *)

LEMMA LaunchType ==
    ASSUME NEW status, NEW queued
    PROVE  LaunchOf(status, queued) \in {"NOT_STARTED", "AWAITING_OPERATOR", "QUEUED",
                                         "STOPPED"}
BY DEF LaunchOf

LEMMA StatusType == ASSUME NEW state PROVE StatusFor(state) \in RequestStatus
BY DEF StatusFor, RequestStatus

\* The handlers keep their types, whatever a report says.
HandlersTyped ==
    /\ spc \in [Submissions -> Step]
    /\ cur \in [Submissions -> Requests \cup {NoRequest}]
    /\ launch \in [Submissions -> Launch]

LEMMA ReportTyped ==
    ASSUME HandlersTyped, NEW s \in Submissions, NEW state \in Launch, Report(s, state)
    PROVE  HandlersTyped'
BY DEF HandlersTyped, Report, Answered, Goto, Step, Launch

LEMMA TypeStep == TypeOK /\ [Next]_vars => TypeOK'
<1> SUFFICES ASSUME TypeOK, [Next]_vars PROVE TypeOK'
  OBVIOUS
<1>0. HandlersTyped
  BY DEF TypeOK, HandlersTyped
<1>1. ASSUME UNCHANGED records, HandlersTyped' PROVE TypeOK'
  BY <1>1 DEF TypeOK, HandlersTyped, records
<1>2. ASSUME NEW s \in Submissions, NEW r \in Requests, Submit(s, r) PROVE TypeOK'
  BY <1>2 DEF TypeOK, Submit, Step, RequestStatus
<1>3. ASSUME NEW s \in Submissions, Dispatch(s) PROVE TypeOK'
  <2>1. CASE DispatchDisabled(s) \/ ReadOther(s) \/ ClaimRefused(s)
    <3>1. PICK state \in Launch : Report(s, state)
      BY <2>1, LaunchType DEF DispatchDisabled, ReadOther, ClaimRefused, Launch
    <3>2. QED
      BY <1>0, <1>1, <2>1, <3>1, ReportTyped DEF DispatchDisabled, ReadOther, ClaimRefused
  <2>2. CASE ReadBack(s)
    <3>1. CASE order[cur[s]] = "NONE"
      <4>1. HandlersTyped'
        BY <1>0, <2>2, <3>1 DEF ReadBack, HandlersTyped, Goto, Step, Launch
      <4>2. QED
        BY <1>1, <2>2, <4>1 DEF ReadBack
    <3>2. CASE order[cur[s]] # "NONE"
      <4>1. PICK state \in Launch : Report(s, state)
        BY <2>2, <3>2, LaunchType DEF ReadBack, Launch
      <4>2. QED
        BY <1>0, <1>1, <2>2, <4>1, ReportTyped DEF ReadBack
    <3>3. QED
      BY <3>1, <3>2
  <2>3. CASE LookBefore(s) \/ LeaseTaken(s) \/ LookForOrder(s) \/ StartFails(s)
    <3>1. HandlersTyped'
      BY <1>0, <2>3 DEF LookBefore, LeaseTaken, LookForOrder, StartFails, HandlersTyped, Goto,
                        Answered, Step, Launch
    <3>2. QED
      BY <1>1, <2>3, <3>1 DEF LookBefore, LeaseTaken, LookForOrder, StartFails
  <2>4. CASE TakeDispatchLease(s)
    BY <2>4 DEF TypeOK, TakeDispatchLease, Goto, Step, RequestStatus
  <2>5. CASE ClaimSlot(s) \/ ReleaseSlot(s)
    <3>1. today \in 0 .. MaxDays /\ 0 \in 0 .. MaxDays
      BY MaxDaysAssumption DEF TypeOK
    <3>2. slot' \in [Requests -> 0 .. MaxDays]
      BY <2>5, <3>1 DEF TypeOK, ClaimSlot, ReleaseSlot
    <3>3. QED
      BY <2>5, <3>2 DEF TypeOK, ClaimSlot, ReleaseSlot, Goto, Step
  <2>6. CASE DraftOrder(s) \/ ApproveOrder(s)
    <3>1. order' \in [Requests -> OrderStatus] /\ approved' \in [Requests -> BOOLEAN]
      BY <2>6 DEF TypeOK, DraftOrder, ApproveOrder, OrderStatus
    <3>2. QED
      BY <2>6, <3>1 DEF TypeOK, DraftOrder, ApproveOrder, Goto, Step
  <2>7. CASE EnqueueRuns(s)
    BY <2>7 DEF TypeOK, EnqueueRuns, Enqueued, Goto, Step
  <2>8. CASE SettleRequestStatus(s)
    BY <2>8, StatusType DEF TypeOK, SettleRequestStatus, Answered, Step, Launch
  <2>9. QED
    BY <1>3, <2>1, <2>2, <2>3, <2>4, <2>5, <2>6, <2>7, <2>8 DEF Dispatch
<1>4. ASSUME NEW s \in Submissions, Abandon(s) PROVE TypeOK'
  <2>1. HandlersTyped'
    BY <1>0, <1>4 DEF Abandon, Answered, HandlersTyped, Step, Launch
  <2>2. QED
    BY <1>1, <1>4, <2>1 DEF Abandon
<1>5. ASSUME NEW r \in Requests,
             LeaseExpires(r) \/ OperatorHelps(r) \/ OrderMoves(r) \/ QcRejects(r)
      PROVE  TypeOK'
  <2>1. CASE LeaseExpires(r)
    BY <1>5, <2>1 DEF TypeOK, LeaseExpires, handlers
  <2>2. CASE OperatorHelps(r)
    BY <1>5, <2>2 DEF TypeOK, OperatorHelps, Enqueued, OrderStatus, handlers
  <2>3. CASE OrderMoves(r)
    BY <1>5, <2>3 DEF TypeOK, OrderMoves, OrderStatus, handlers
  <2>4. CASE QcRejects(r)
    BY <1>5, <2>4 DEF TypeOK, QcRejects, OrderStatus, RequestStatus, handlers
  <2>5. QED
    BY <1>5, <2>1, <2>2, <2>3, <2>4
<1>6. CASE NextDay \/ SwitchOff \/ UNCHANGED vars
  <2>1. today' \in 1 .. MaxDays /\ enabled' \in BOOLEAN
    <3>1. CASE NextDay
      BY <3>1, MaxDaysAssumption DEF TypeOK, NextDay
    <3>2. CASE SwitchOff \/ UNCHANGED vars
      BY <3>2 DEF TypeOK, SwitchOff, vars, records
    <3>3. QED
      BY <1>6, <3>1, <3>2
  <2>2. UNCHANGED <<request, stale, slot, order, approved, runs, spc, cur, launch>>
    BY <1>6 DEF NextDay, SwitchOff, vars, records, handlers
  <2>3. QED
    BY <2>1, <2>2 DEF TypeOK
<1>7. QED
  BY <1>2, <1>3, <1>4, <1>5, <1>6 DEF Next

\* A handler goes to its next step or answers its form.
Moves(s) ==
    /\ \E step \in Step \ {"idle"} : spc' = [spc EXCEPT ![s] = step]
    /\ cur' = cur
    /\ launch' = launch \/ \E state \in Launch : launch' = [launch EXCEPT ![s] = state]

LEMMA ReportMoves ==
    ASSUME NEW s, NEW state \in Launch, Report(s, state)
    PROVE  Moves(s) \/ Answered(s)
BY DEF Report, Moves, Goto, Step

LEMMA HandlerMoves ==
    ASSUME NEW s \in Submissions, Dispatch(s) \/ Abandon(s)
    PROVE  spc[s] # "idle" /\ enabled' = enabled /\ (Moves(s) \/ Answered(s))
<1>1. CASE DispatchDisabled(s) \/ ReadOther(s) \/ ClaimRefused(s)
  BY <1>1, ReportMoves, LaunchType
     DEF DispatchDisabled, ReadOther, ClaimRefused, records, Launch
<1>2. CASE ReadBack(s)
  <2>1. CASE order[cur[s]] = "NONE"
    BY <1>2, <2>1 DEF ReadBack, Goto, Moves, Step, Launch, records
  <2>2. CASE order[cur[s]] # "NONE"
    BY <1>2, <2>2, ReportMoves, LaunchType DEF ReadBack, Launch, records
  <2>3. QED
    BY <2>1, <2>2
<1>3. CASE LookBefore(s) \/ TakeDispatchLease(s) \/ LeaseTaken(s) \/ LookForOrder(s)
  BY <1>3 DEF LookBefore, TakeDispatchLease, LeaseTaken, LookForOrder, Goto, Moves, Step,
              records
<1>4. CASE ClaimSlot(s) \/ DraftOrder(s) \/ ApproveOrder(s) \/ EnqueueRuns(s)
           \/ StartFails(s) \/ ReleaseSlot(s)
  BY <1>4 DEF ClaimSlot, DraftOrder, ApproveOrder, EnqueueRuns, StartFails, ReleaseSlot,
              Goto, Moves, Step, records
<1>5. CASE SettleRequestStatus(s) \/ Abandon(s)
  BY <1>5 DEF SettleRequestStatus, Abandon, records
<1>6. QED
  BY <1>1, <1>2, <1>3, <1>4, <1>5 DEF Dispatch

\* The other handlers stay where they are.
LEMMA HandlerStep ==
    ASSUME TypeOK, NEW s \in Submissions, Dispatch(s) \/ Abandon(s)
    PROVE  /\ spc[s] # "idle"
           /\ spc'[s] # "idle" => cur'[s] = cur[s]
           /\ \A t \in Submissions : t # s => /\ spc'[t] = spc[t] /\ cur'[t] = cur[t]
                                              /\ launch'[t] = launch[t]
           /\ enabled' = enabled
<1>1. CASE Moves(s)
  BY <1>1, HandlerMoves DEF TypeOK, Moves
<1>2. CASE Answered(s)
  BY <1>2, HandlerMoves DEF TypeOK, Answered
<1>3. QED
  BY <1>1, <1>2, HandlerMoves

\* A form that is submitted starts a handler of its own.
LEMMA SubmitStep ==
    ASSUME TypeOK, NEW s \in Submissions, NEW r \in Requests, Submit(s, r)
    PROVE  /\ spc[s] = "idle" /\ spc'[s] = "before" /\ cur'[s] = r
           /\ \A t \in Submissions : t # s => spc'[t] = spc[t] /\ cur'[t] = cur[t]
           /\ UNCHANGED <<stale, slot, order, approved, runs, today, enabled, launch>>
           /\ \A q \in Requests : request'[q] # request[q] =>
                                  request[q] = "NONE" /\ request'[q] = "NEW"
<1>1. /\ spc' = [spc EXCEPT ![s] = "before"] /\ cur' = [cur EXCEPT ![s] = r]
      /\ request' = [request EXCEPT ![r] = IF @ = "NONE" THEN "NEW" ELSE @]
      /\ spc[s] = "idle"
      /\ UNCHANGED <<stale, slot, order, approved, runs, today, enabled, launch>>
  BY DEF Submit
<1>2. spc'[s] = "before" /\ cur'[s] = r
  BY <1>1 DEF TypeOK
<1>3. \A t \in Submissions : t # s => spc'[t] = spc[t] /\ cur'[t] = cur[t]
  BY <1>1 DEF TypeOK
<1>4. ASSUME NEW q \in Requests
      PROVE  request'[q] # request[q] => request[q] = "NONE" /\ request'[q] = "NEW"
  BY <1>1 DEF TypeOK
<1>5. QED
  BY <1>1, <1>2, <1>3, <1>4

\* What goes on around the handlers.
Around(r) == LeaseExpires(r) \/ OperatorHelps(r) \/ OrderMoves(r) \/ QcRejects(r)

LEMMA AroundStep ==
    ASSUME NextDay \/ SwitchOff \/ UNCHANGED vars \/ \E r \in Requests : Around(r)
    PROVE  UNCHANGED <<slot, handlers>>
BY DEF NextDay, SwitchOff, Around, LeaseExpires, OperatorHelps, OrderMoves, QcRejects, vars,
       records

LEMMA NextSteps ==
    [Next]_vars => \/ \E s \in Submissions, r \in Requests : Submit(s, r)
                   \/ \E s \in Submissions : Dispatch(s) \/ Abandon(s)
                   \/ \E r \in Requests : Around(r)
                   \/ NextDay \/ SwitchOff \/ UNCHANGED vars
BY DEF Next, Around

LEMMA HasRequestStep == TypeOK /\ HasRequest /\ [Next]_vars => HasRequest'
BY NextSteps, HandlerStep, SubmitStep, AroundStep DEF HasRequest, handlers

LEMMA OffStep == TypeOK /\ NothingWhenOff /\ [Next]_vars => NothingWhenOff'
<1> SUFFICES ASSUME TypeOK, NothingWhenOff, [Next]_vars PROVE NothingWhenOff'
  OBVIOUS
<1> USE DEF NothingWhenOff
<1>1. ASSUME NEW s \in Submissions, NEW r \in Requests, Submit(s, r) PROVE NothingWhenOff'
  BY <1>1, SubmitStep
<1>2. ASSUME NEW s \in Submissions, Dispatch(s) \/ Abandon(s) PROVE NothingWhenOff'
  <2>1. ~enabled /\ spc'[s] # "idle" => spc'[s] = "settle" /\ launch'[s] = "NOT_STARTED"
    BY <1>2 DEF Dispatch, Abandon, TypeOK, DispatchDisabled, LookBefore, TakeDispatchLease,
       LeaseTaken, ReadOther, LookForOrder, ClaimSlot, ClaimRefused, DraftOrder,
       ApproveOrder, EnqueueRuns, StartFails, ReadBack, ReleaseSlot, SettleRequestStatus,
       Report, Goto, Answered
  <2>2. QED
    BY <1>2, <2>1, HandlerStep
<1>3. CASE SwitchOff
  BY <1>3 DEF SwitchOff, handlers
<1>4. CASE NextDay \/ UNCHANGED vars \/ \E r \in Requests : Around(r)
  BY <1>4 DEF NextDay, Around, LeaseExpires, OperatorHelps, OrderMoves, QcRejects, vars,
              records, handlers
<1>5. QED
  BY <1>1, <1>2, <1>3, <1>4, NextSteps

-----------------------------------------------------------------------------
(* The order.                                                               *)

\* An order comes from a draft, is approved once and ends; its jobs stay sent.
LEMMA OrderGoesOn ==
    ASSUME TypeOK, [Next]_vars, NEW r \in Requests
    PROVE  /\ order[r] = "NONE" /\ order'[r] # "NONE" =>
                 /\ order'[r] = "PAID_REVIEW_REQUIRED"
                 /\ \E s \in Submissions : DraftOrder(s) /\ cur[s] = r
           /\ order[r] # "NONE" => order'[r] # "NONE"
           /\ order[r] = "CANCELLED" => order'[r] = "CANCELLED"
           /\ Underway(r) => Underway(r)'
<1> USE DEF TypeOK, Underway
<1>1. ASSUME NEW s \in Submissions, DraftOrder(s)
      PROVE  /\ order[r] # "NONE" => order'[r] = order[r]
             /\ order'[r] # order[r] => cur[s] = r /\ order'[r] = "PAID_REVIEW_REQUIRED"
             /\ UNCHANGED runs
  BY <1>1 DEF DraftOrder
<1>2. ASSUME NEW s \in Submissions, ApproveOrder(s)
      PROVE  /\ order'[r] # order[r] => /\ order[r] = "PAID_REVIEW_REQUIRED"
                                        /\ order'[r] = "QUEUED"
             /\ UNCHANGED runs
  BY <1>2 DEF ApproveOrder
<1>3. ASSUME NEW s \in Submissions, EnqueueRuns(s)
      PROVE  UNCHANGED order /\ (runs[r] = "AUDITED" => runs'[r] = "AUDITED")
  BY <1>3 DEF EnqueueRuns, Enqueued
<1>4. ASSUME NEW q \in Requests, OperatorHelps(q)
      PROVE  /\ order'[r] # order[r] => /\ order[r] = "PAID_REVIEW_REQUIRED"
                                        /\ order'[r] = "QUEUED"
             /\ runs[r] = "AUDITED" => runs'[r] = "AUDITED"
  BY <1>4 DEF OperatorHelps, Enqueued
<1>5. ASSUME NEW q \in Requests, OrderMoves(q) \/ QcRejects(q)
      PROVE  /\ order'[r] # order[r] =>
                  /\ order[r] \notin {"NONE", "CANCELLED"}
                  /\ order'[r] \in {"QC_REQUIRED", "READY", "DELIVERED", "CANCELLED"}
             /\ UNCHANGED runs
  BY <1>5 DEF OrderMoves, QcRejects
<1>6. ASSUME NEW s \in Submissions, Dispatch(s) \/ Abandon(s),
             ~DraftOrder(s), ~ApproveOrder(s), ~EnqueueRuns(s)
      PROVE  UNCHANGED <<order, runs>>
  BY <1>6 DEF Dispatch, Abandon, DispatchDisabled, LookBefore, TakeDispatchLease,
       LeaseTaken, ReadOther, LookForOrder, ClaimSlot, ClaimRefused, StartFails, ReadBack,
       ReleaseSlot, SettleRequestStatus, records
<1>7. ASSUME \/ \E s \in Submissions, q \in Requests : Submit(s, q)
             \/ \E q \in Requests : LeaseExpires(q)
             \/ NextDay \/ SwitchOff \/ UNCHANGED vars
      PROVE  UNCHANGED <<order, runs>>
  BY <1>7 DEF Submit, LeaseExpires, NextDay, SwitchOff, vars, records
<1>8. QED
  BY <1>1, <1>2, <1>3, <1>4, <1>5, <1>6, <1>7, NextSteps DEF Around

LEMMA StaysOff == [Next]_vars => (enabled' => enabled)
BY DEF Next, Submit, Dispatch, Abandon, DispatchDisabled, LookBefore, TakeDispatchLease,
       LeaseTaken, ReadOther, LookForOrder, ClaimSlot, ClaimRefused, DraftOrder,
       ApproveOrder, EnqueueRuns, StartFails, ReadBack, ReleaseSlot, SettleRequestStatus,
       LeaseExpires, OperatorHelps, OrderMoves, QcRejects, NextDay, SwitchOff, vars, records

-----------------------------------------------------------------------------
(* The lease.                                                               *)

\* Who writes the status of a request.
LEMMA RequestChanges ==
    ASSUME TypeOK, [Next]_vars, NEW r \in Requests,
           request'[r] # request[r] \/ stale'[r] # stale[r]
    PROVE  \/ request[r] = "NONE" /\ request'[r] = "NEW" /\ order' = order
           \/ \E s \in Submissions :
                 /\ cur[s] = r /\ order' = order
                 /\ TakeDispatchLease(s) \/ SettleRequestStatus(s)
           \/ LeaseExpires(r) \/ QcRejects(r)
<1> USE DEF TypeOK
<1>1. ASSUME NEW s \in Submissions, NEW q \in Requests, Submit(s, q)
      PROVE  request[r] = "NONE" /\ request'[r] = "NEW" /\ order' = order
  BY <1>1, SubmitStep
<1>2. ASSUME NEW s \in Submissions, TakeDispatchLease(s) \/ SettleRequestStatus(s)
      PROVE  cur[s] = r /\ order' = order
  BY <1>2 DEF TakeDispatchLease, SettleRequestStatus
<1>3. ASSUME NEW q \in Requests, LeaseExpires(q) \/ QcRejects(q) PROVE q = r
  BY <1>3 DEF LeaseExpires, QcRejects
<1>4. ASSUME \/ \E q \in Requests : OperatorHelps(q) \/ OrderMoves(q)
             \/ NextDay \/ SwitchOff \/ UNCHANGED vars
      PROVE  FALSE
  BY <1>4 DEF OperatorHelps, OrderMoves, NextDay, SwitchOff, vars, records
<1>5. ASSUME NEW s \in Submissions, Dispatch(s) \/ Abandon(s)
      PROVE  TakeDispatchLease(s) \/ SettleRequestStatus(s)
  BY <1>5 DEF Dispatch, Abandon, DispatchDisabled, LookBefore, LeaseTaken, ReadOther,
              LookForOrder, ClaimSlot, ClaimRefused, DraftOrder, ApproveOrder, EnqueueRuns,
              StartFails, ReadBack, ReleaseSlot, records
<1>6. QED
  BY <1>1, <1>2, <1>3, <1>4, <1>5, NextSteps DEF Around

\* Without an order, only the lease makes a holder of a request.
LEMMA HoldingFrom ==
    ASSUME TypeOK, [Next]_vars, NEW r \in Requests, NEW t \in Submissions,
           enabled, order[r] = "NONE", Holding(t, r)'
    PROVE  Holding(t, r) \/ (TakeDispatchLease(t) /\ cur[t] = r)
<1> USE DEF Holding, Dispatching
<1>1. ASSUME NEW s \in Submissions, NEW q \in Requests, Submit(s, q) PROVE Holding(t, r)
  BY <1>1, SubmitStep
<1>2. ASSUME NEW s \in Submissions, Dispatch(s) \/ Abandon(s), s # t PROVE Holding(t, r)
  BY <1>2, HandlerStep
<1>3. CASE Dispatch(t) \/ Abandon(t)
  <2>1. cur[t] = r /\ spc[t] # "idle" /\ spc'[t] # "idle"
    BY <1>3, HandlerStep
  <2>2. ~ReadOther(t)
    BY <2>1 DEF ReadOther, Report, Answered, TypeOK
  <2>3. ~LookBefore(t) /\ ~LeaseTaken(t) /\ ~DispatchDisabled(t) /\ ~Abandon(t)
    BY <2>1 DEF LookBefore, LeaseTaken, DispatchDisabled, Abandon, Goto, Answered, TypeOK
  <2>4. QED
    BY <1>3, <2>1, <2>2, <2>3
       DEF Dispatch, TakeDispatchLease, LookForOrder, ClaimSlot, ClaimRefused, DraftOrder,
           ApproveOrder, EnqueueRuns, StartFails, ReadBack, ReleaseSlot, SettleRequestStatus
<1>4. CASE UNCHANGED handlers
  BY <1>4 DEF handlers
<1>5. QED
  BY <1>1, <1>2, <1>3, <1>4, NextSteps, AroundStep

LEMMA HolderStep ==
    ASSUME "SLOW" \notin Disturbances, IInv, [Next]_vars
    PROVE  OneHolder'
<1> SUFFICES ASSUME enabled', NEW s \in Submissions, NEW r \in Requests,
                    Holding(s, r)', order'[r] = "NONE"
             PROVE  /\ request'[r] = "AUTO_DISPATCHING" /\ ~stale'[r]
                    /\ \A t \in Submissions : Holding(t, r)' => t = s
  BY DEF OneHolder
<1>0. TypeOK /\ enabled /\ order[r] = "NONE"
  BY StaysOff, OrderGoesOn DEF IInv
<1>1. \A t \in Submissions :
         Holding(t, r)' => Holding(t, r) \/ (TakeDispatchLease(t) /\ cur[t] = r)
  BY <1>0, HoldingFrom
<1>2. \A t \in Submissions :
         Holding(t, r) => /\ request[r] = "AUTO_DISPATCHING" /\ ~stale[r]
                          /\ \A u \in Submissions : Holding(u, r) => u = t
  BY <1>0 DEF IInv, OneHolder
<1>3. ASSUME NEW t \in Submissions, TakeDispatchLease(t), cur[t] = r
      PROVE  /\ request'[r] = "AUTO_DISPATCHING" /\ ~stale'[r]
             /\ \A u \in Submissions : Holding(u, r)' => u = t
  <2>1. ~\E u \in Submissions : Holding(u, r)
    BY <1>2, <1>3 DEF TakeDispatchLease, LeaseFree
  <2>2. \A u \in Submissions : TakeDispatchLease(u) => u = t
    <3>1. ASSUME NEW u \in Submissions, TakeDispatchLease(u), u # t PROVE FALSE
      BY <1>0, <1>3, <3>1 DEF TakeDispatchLease, Goto, TypeOK
    <3>2. QED
      BY <3>1
  <2>3. QED
    BY <1>0, <1>1, <1>3, <2>1, <2>2 DEF TakeDispatchLease, TypeOK
<1>4. CASE ~\E t \in Submissions : TakeDispatchLease(t) /\ cur[t] = r
  <2>1. Holding(s, r) /\ \A t \in Submissions : Holding(t, r)' => t = s
    BY <1>1, <1>2, <1>4
  <2>2. ~\E t \in Submissions : SettleRequestStatus(t) /\ cur[t] = r
    <3>1. ASSUME NEW t \in Submissions, SettleRequestStatus(t), cur[t] = r PROVE FALSE
      <4>1. t = s
        BY <1>2, <2>1, <3>1 DEF SettleRequestStatus, Holding
      <4>2. spc'[s] = "idle"
        BY <1>0, <3>1, <4>1 DEF SettleRequestStatus, Answered, TypeOK
      <4>3. QED
        BY <4>2 DEF Holding, Dispatching
    <3>2. QED
      BY <3>1
  <2>3. ~LeaseExpires(r) /\ ~QcRejects(r)
    BY <1>0, <2>1 DEF LeaseExpires, QcRejects, Holding
  <2>4. request'[r] = request[r] /\ stale'[r] = stale[r]
    BY <1>0, <1>2, <1>4, <2>1, <2>2, <2>3, RequestChanges
  <2>5. QED
    BY <1>2, <2>1, <2>4
<1>5. QED
  BY <1>1, <1>2, <1>3, <1>4

\* While a handler holds a request without an order, no other one drafts it.
LEMMA NobodyElseDrafts ==
    ASSUME IInv, NEW s \in Submissions, NEW t \in Submissions, DraftOrder(t),
           enabled, Holding(s, cur[t]), order[cur[t]] = "NONE"
    PROVE  s = t
BY DEF DraftOrder, IInv, HasRequest, OneHolder, Holding, Dispatching

\* An order stays missing for a handler that holds the request and does not draft.
LEMMA StaysMissing ==
    ASSUME IInv, [Next]_vars, NEW s \in Submissions, NEW r \in Requests,
           enabled, Holding(s, r), order[r] = "NONE", ~DraftOrder(s)
    PROVE  order'[r] = "NONE"
<1> SUFFICES ASSUME order'[r] # "NONE" PROVE FALSE
  OBVIOUS
<1>1. PICK t \in Submissions : DraftOrder(t) /\ cur[t] = r
  BY OrderGoesOn DEF IInv
<1>2. QED
  BY <1>1, NobodyElseDrafts

\* The step of the others leaves a handler where it is.
Rests(s) == spc'[s] = spc[s] /\ cur'[s] = cur[s] /\ launch'[s] = launch[s]

LEMMA OthersRest ==
    ASSUME TypeOK, [Next]_vars, NEW s \in Submissions
    PROVE  \/ Rests(s) \/ spc'[s] = "before"
           \/ Dispatch(s) \/ Abandon(s)
<1>1. CASE UNCHANGED handlers
  BY <1>1 DEF handlers, Rests
<1>2. ASSUME NEW t \in Submissions, NEW q \in Requests, Submit(t, q)
      PROVE  Rests(s) \/ spc'[s] = "before"
  BY <1>2, SubmitStep DEF Rests
<1>3. ASSUME NEW t \in Submissions, Dispatch(t) \/ Abandon(t), t # s PROVE Rests(s)
  BY <1>3, HandlerStep DEF Rests
<1>4. QED
  BY <1>1, <1>2, <1>3, NextSteps, AroundStep

\* What moves a handler to a step past its look at the order.
LEMMA WhatItSaw ==
    ASSUME TypeOK, SeenNoOrder, NEW s \in Submissions, Dispatch(s) \/ Abandon(s)
    PROVE  /\ spc'[s] \in {"claim", "draft", "release"} =>
                 /\ order[cur[s]] = "NONE" /\ cur'[s] = cur[s] /\ ~DraftOrder(s)
                 /\ spc[s] \in Dispatching
           /\ spc'[s] = "draft" => ClaimSlot(s)
<1> USE DEF TypeOK, Goto
<1>1. CASE DispatchDisabled(s) \/ ReadOther(s) \/ ClaimRefused(s)
  BY <1>1 DEF DispatchDisabled, ReadOther, ClaimRefused, Report, Answered
<1>2. CASE ReadBack(s)
  <2>1. CASE order[cur[s]] = "NONE"
    BY <1>2, <2>1 DEF ReadBack, DraftOrder, Dispatching
  <2>2. CASE order[cur[s]] # "NONE"
    BY <1>2, <2>2 DEF ReadBack, Report, Answered
  <2>3. QED
    BY <2>1, <2>2
<1>3. CASE LookForOrder(s)
  BY <1>3 DEF LookForOrder, DraftOrder, Dispatching
<1>4. CASE ClaimSlot(s)
  BY <1>4 DEF ClaimSlot, DraftOrder, SeenNoOrder, Dispatching
<1>5. CASE LookBefore(s) \/ Abandon(s) \/ SettleRequestStatus(s)
  BY <1>5 DEF LookBefore, Abandon, SettleRequestStatus, Answered
<1>6. CASE \/ TakeDispatchLease(s) \/ LeaseTaken(s) \/ DraftOrder(s) \/ ApproveOrder(s)
           \/ EnqueueRuns(s) \/ StartFails(s) \/ ReleaseSlot(s)
  BY <1>6 DEF TakeDispatchLease, LeaseTaken, DraftOrder, ApproveOrder, EnqueueRuns,
              StartFails, ReleaseSlot
<1>7. QED
  BY <1>1, <1>2, <1>3, <1>4, <1>5, <1>6 DEF Dispatch

\* A dispatch under way means the flag is on.
LEMMA DispatchingMeansOn ==
    ASSUME NothingWhenOff, NEW s \in Submissions, spc[s] \in Dispatching PROVE enabled
BY DEF NothingWhenOff, Dispatching

\* Slots change hands in two steps.
LEMMA SlotChanges ==
    ASSUME TypeOK, [Next]_vars
    PROVE  slot' = slot \/ \E s \in Submissions : ClaimSlot(s) \/ ReleaseSlot(s)
<1>1. ASSUME NEW s \in Submissions, Dispatch(s) \/ Abandon(s)
      PROVE  slot' = slot \/ ClaimSlot(s) \/ ReleaseSlot(s)
  BY <1>1 DEF Dispatch, Abandon, DispatchDisabled, LookBefore, TakeDispatchLease,
       LeaseTaken, ReadOther, LookForOrder, ClaimRefused, DraftOrder, ApproveOrder,
       EnqueueRuns, StartFails, ReadBack, SettleRequestStatus, records
<1>2. QED
  BY <1>1, NextSteps, SubmitStep, AroundStep

LEMMA SeenStep ==
    ASSUME IInv, [Next]_vars PROVE SeenNoOrder'
<1> SUFFICES ASSUME NEW s \in Submissions, spc'[s] \in {"claim", "draft", "release"}
             PROVE  /\ order'[cur'[s]] = "NONE"
                    /\ spc'[s] = "draft" => slot'[cur'[s]] # 0
  BY DEF SeenNoOrder
<1> DEFINE r == cur[s]
<1>0. TypeOK /\ SeenNoOrder /\ NothingWhenOff
  BY DEF IInv
<1>1. /\ order[r] = "NONE" /\ cur'[s] = r /\ ~DraftOrder(s) /\ spc[s] \in Dispatching
      /\ spc'[s] = "draft" => ClaimSlot(s) \/ (slot[r] # 0 /\ spc[s] = "draft")
  <2>1. CASE Dispatch(s) \/ Abandon(s)
    BY <1>0, <2>1, WhatItSaw
  <2>2. CASE Rests(s)
    <3>1. ~DraftOrder(s)
      BY <1>0, <2>2 DEF Rests, DraftOrder, Goto, TypeOK
    <3>2. QED
      BY <1>0, <2>2, <3>1 DEF Rests, SeenNoOrder, Dispatching
  <2>3. QED
    BY <1>0, <2>1, <2>2, OthersRest
<1>2. r \in Requests /\ enabled /\ Holding(s, r)
  BY <1>0, <1>1, DispatchingMeansOn DEF IInv, HasRequest, Holding, Dispatching
<1>3. order'[r] = "NONE"
  BY <1>1, <1>2, StaysMissing
<1>4. ASSUME spc'[s] = "draft" PROVE slot'[r] # 0
  <2>1. CASE ClaimSlot(s)
    BY <1>0, <1>2, <2>1 DEF ClaimSlot, TypeOK
  <2>2. CASE slot[r] # 0 /\ spc[s] = "draft" /\ ~ClaimSlot(s)
    <3>1. ASSUME NEW t \in Submissions, ReleaseSlot(t) PROVE slot'[r] # 0
      <4>1. cur[t] = r => Holding(t, r)
        BY <3>1 DEF ReleaseSlot, Holding, Dispatching
      <4>2. cur[t] # r
        BY <1>1, <1>2, <2>2, <3>1, <4>1 DEF IInv, OneHolder, ReleaseSlot
      <4>3. QED
        BY <1>0, <1>2, <2>2, <3>1, <4>2 DEF ReleaseSlot, TypeOK
    <3>2. ASSUME NEW t \in Submissions, ClaimSlot(t) PROVE slot'[r] # 0
      BY <1>0, <1>2, <2>2, <3>2 DEF ClaimSlot, TypeOK
    <3>3. QED
      BY <1>0, <2>2, <3>1, <3>2, SlotChanges
  <2>3. QED
    BY <1>1, <1>4, <2>1, <2>2 DEF ClaimSlot
<1>5. QED
  BY <1>1, <1>3, <1>4

-----------------------------------------------------------------------------
(* What is written in the end.                                              *)

LEMMA LaunchTells ==
    ASSUME TypeOK, NEW r \in Requests, order[r] # "NONE"
    PROVE  LET state == LaunchOf(order[r], runs[r] = "AUDITED")
           IN  state # "NOT_STARTED" /\ (state = "QUEUED" => Underway(r))
BY DEF LaunchOf, TypeOK, OrderStatus, Underway

\* The truth of what a handler holds, of the state it is in.
Truth(s) ==
    /\ launch[s] \in {"NOT_STARTED", "AWAITING_OPERATOR", "QUEUED"}
    /\ launch[s] = "NOT_STARTED" /\ enabled => order[cur[s]] = "NONE"
    /\ launch[s] = "AWAITING_OPERATOR" => order[cur[s]] # "NONE"
    /\ launch[s] = "QUEUED" => Underway(cur[s])

LEMMA ReportsTruth ==
    ASSUME TypeOK, NEW s \in Submissions, cur[s] \in Requests, spc[s] # "settle",
           NEW state, Report(s, state), spc'[s] = "settle", UNCHANGED records,
           state \in {"NOT_STARTED", "AWAITING_OPERATOR", "QUEUED", "STARTING", "STOPPED"},
           state = "NOT_STARTED" /\ enabled => order[cur[s]] = "NONE",
           state = "AWAITING_OPERATOR" => order[cur[s]] # "NONE",
           state = "QUEUED" => Underway(cur[s])
    PROVE  Truth(s)'
<1>1. state \notin {"STARTING", "STOPPED"} /\ launch'[s] = state /\ cur'[s] = cur[s]
  BY DEF Report, Answered, Goto, TypeOK
<1>2. QED
  BY <1>1 DEF Truth, Underway, records

LEMMA SettlesStep ==
    ASSUME IInv, [Next]_vars PROVE SettlesTruth'
<1> SUFFICES ASSUME NEW s \in Submissions, spc'[s] \in {"release", "settle"}
             PROVE  Truth(s)'
  BY DEF SettlesTruth, Truth
<1>0. TypeOK /\ SeenNoOrder /\ NothingWhenOff
  BY DEF IInv
<1>1. CASE Rests(s)
  <2>1. cur[s] \in Requests /\ Truth(s) /\ spc[s] \in {"release", "settle"}
    BY <1>1 DEF Rests, IInv, HasRequest, SettlesTruth, Truth
  <2>2. ~DraftOrder(s) /\ Holding(s, cur[s])
    BY <2>1 DEF DraftOrder, Holding, Dispatching
  <2>3. launch[s] = "NOT_STARTED" /\ enabled' => order'[cur[s]] = "NONE"
    BY <2>1, <2>2, StaysOff, StaysMissing DEF Truth
  <2>4. order[cur[s]] # "NONE" => order'[cur[s]] # "NONE"
    BY <1>0, <2>1, OrderGoesOn
  <2>5. \A r \in Requests : Underway(r) => Underway(r)'
    BY <1>0, OrderGoesOn
  <2>6. cur'[s] = cur[s] /\ launch'[s] = launch[s]
    BY <1>1 DEF Rests
  <2>7. QED
    BY <2>1, <2>3, <2>4, <2>5, <2>6 DEF Truth, Underway
<1>2. CASE Dispatch(s) \/ Abandon(s)
  <2>0. cur[s] \in Requests /\ cur'[s] = cur[s]
    BY <1>0, <1>2, HandlerStep DEF IInv, HasRequest
  <2>1. CASE DispatchDisabled(s)
    <3>1. ~enabled /\ Report(s, "NOT_STARTED") /\ UNCHANGED records /\ spc[s] = "before"
      BY <2>1 DEF DispatchDisabled
    <3>2. spc'[s] = "settle"
      BY <1>0, <3>1 DEF Report, Answered, Goto, TypeOK
    <3>3. QED
      BY <1>0, <2>0, <3>1, <3>2, ReportsTruth
  <2>2. CASE ReadOther(s)
    <3> DEFINE state == IF order[cur[s]] = "NONE" THEN "STARTING"
                        ELSE LaunchOf(order[cur[s]], runs[cur[s]] = "AUDITED")
    <3>1. /\ state \in {"NOT_STARTED", "AWAITING_OPERATOR", "QUEUED", "STARTING", "STOPPED"}
          /\ state = "NOT_STARTED" => order[cur[s]] = "NONE"
          /\ state = "AWAITING_OPERATOR" => order[cur[s]] # "NONE"
          /\ state = "QUEUED" => Underway(cur[s])
      BY <1>0, <2>0, LaunchType, LaunchTells
    <3>2. Report(s, state) /\ UNCHANGED records /\ spc[s] = "other"
      BY <2>2 DEF ReadOther
    <3>3. spc'[s] = "settle"
      BY <1>0, <3>2 DEF Report, Answered, Goto, TypeOK
    <3> HIDE DEF state
    <3>4. QED
      BY <1>0, <2>0, <3>1, <3>2, <3>3, ReportsTruth
  <2>3. CASE ClaimRefused(s)
    <3>1. order[cur[s]] = "NONE"
      BY <1>0, <2>3 DEF ClaimRefused, SeenNoOrder
    <3>2. Report(s, "NOT_STARTED") /\ UNCHANGED records /\ spc[s] = "claim"
      BY <2>3 DEF ClaimRefused
    <3>3. spc'[s] = "settle"
      BY <1>0, <3>2 DEF Report, Answered, Goto, TypeOK
    <3>4. QED
      BY <1>0, <2>0, <3>1, <3>2, <3>3, ReportsTruth
  <2>4. CASE ReadBack(s) /\ order[cur[s]] = "NONE"
    <3>1. launch'[s] = "NOT_STARTED" /\ order' = order
      BY <1>0, <2>4 DEF ReadBack, records, TypeOK
    <3>2. QED
      BY <2>0, <2>4, <3>1 DEF Truth
  <2>5. CASE ReadBack(s) /\ order[cur[s]] # "NONE"
    <3> DEFINE state == LaunchOf(order[cur[s]], runs[cur[s]] = "AUDITED")
    <3>1. /\ state \in {"NOT_STARTED", "AWAITING_OPERATOR", "QUEUED", "STARTING", "STOPPED"}
          /\ state # "NOT_STARTED"
          /\ state = "QUEUED" => Underway(cur[s])
      BY <1>0, <2>0, <2>5, LaunchType, LaunchTells
    <3>2. Report(s, state) /\ UNCHANGED records /\ spc[s] = "readback"
      BY <2>5 DEF ReadBack
    <3>3. spc'[s] = "settle"
      BY <1>0, <3>2 DEF Report, Answered, Goto, TypeOK
    <3> HIDE DEF state
    <3>4. QED
      BY <1>0, <2>0, <2>5, <3>1, <3>2, <3>3, ReportsTruth
  <2>6. CASE ReleaseSlot(s)
    <3>1. Truth(s) /\ UNCHANGED <<launch, order, runs, enabled>>
      BY <2>6 DEF ReleaseSlot, IInv, SettlesTruth, Truth, Goto
    <3>2. QED
      BY <2>0, <3>1 DEF Truth, Underway
  <2>7. QED
    BY <1>0, <1>2, <2>1, <2>2, <2>3, <2>4, <2>5, <2>6
       DEF Dispatch, Abandon, LookBefore, TakeDispatchLease, LeaseTaken, LookForOrder,
           ClaimSlot, DraftOrder, ApproveOrder, EnqueueRuns, StartFails, SettleRequestStatus,
           Goto, Answered, TypeOK
<1>3. QED
  BY <1>0, <1>1, <1>2, OthersRest

\* What InboxTellsTruth says of one request.
Inbox(r) ==
    /\ request[r] \in {"NONE", "NEW"} => order[r] = "NONE"
    /\ request[r] = "AUTO_FAILED" => (enabled => order[r] = "NONE")
    /\ request[r] = "AUTO_AWAITING_OPERATOR" => order[r] # "NONE"
    /\ request[r] = "AUTO_QUEUED" => Underway(r)
    /\ request[r] = "QC_REJECTED" => order[r] = "CANCELLED"

LEMMA InboxSays == InboxTellsTruth <=> \A r \in Requests : Inbox(r)
<1>1. ASSUME NEW r \in Requests
      PROVE  Inbox(r) <=>
               CASE request[r] \in {"NONE", "NEW"} -> order[r] = "NONE"
                 [] request[r] = "AUTO_FAILED" -> enabled => order[r] = "NONE"
                 [] request[r] = "AUTO_AWAITING_OPERATOR" -> order[r] # "NONE"
                 [] request[r] = "AUTO_QUEUED" ->
                      /\ order[r] \notin {"NONE", "PAID_REVIEW_REQUIRED"}
                      /\ order[r] = "QUEUED" => runs[r] = "AUDITED"
                 [] request[r] = "QC_REJECTED" -> order[r] = "CANCELLED"
                 [] OTHER -> TRUE
  BY DEF Inbox, Underway
<1>2. QED
  BY <1>1 DEF InboxTellsTruth

LEMMA InboxStep ==
    ASSUME IInv, [Next]_vars, NEW r \in Requests PROVE Inbox(r)'
<1>0. TypeOK /\ Inbox(r)
  BY InboxSays DEF IInv
<1>1. order[r] # "NONE" => order'[r] # "NONE"
  BY <1>0, OrderGoesOn
<1>2. /\ order[r] = "CANCELLED" => order'[r] = "CANCELLED"
      /\ Underway(r) => Underway(r)'
  BY <1>0, OrderGoesOn
<1>3. ASSUME order[r] = "NONE", order'[r] # "NONE" PROVE request[r] = "AUTO_DISPATCHING"
  <2>1. PICK t \in Submissions : DraftOrder(t) /\ cur[t] = r
    BY <1>0, <1>3, OrderGoesOn
  <2>2. enabled /\ Holding(t, r)
    BY <2>1, DispatchingMeansOn DEF DraftOrder, Holding, Dispatching, IInv
  <2>3. QED
    BY <1>3, <2>2 DEF IInv, OneHolder
<1>4. CASE request'[r] = request[r]
  BY <1>0, <1>1, <1>2, <1>3, <1>4, StaysOff DEF Inbox
<1>5. CASE request'[r] = "NEW" /\ request[r] = "NONE" /\ order' = order
  BY <1>0, <1>5 DEF Inbox
<1>6. ASSUME NEW t \in Submissions, TakeDispatchLease(t), cur[t] = r PROVE Inbox(r)'
  BY <1>0, <1>6 DEF TakeDispatchLease, TypeOK, Inbox
<1>7. ASSUME NEW t \in Submissions, SettleRequestStatus(t), cur[t] = r PROVE Inbox(r)'
  <2>1. /\ launch[t] \in {"NOT_STARTED", "AWAITING_OPERATOR", "QUEUED"}
        /\ launch[t] = "NOT_STARTED" /\ enabled => order[r] = "NONE"
        /\ launch[t] = "AWAITING_OPERATOR" => order[r] # "NONE"
        /\ launch[t] = "QUEUED" => Underway(r)
    BY <1>7 DEF SettleRequestStatus, IInv, SettlesTruth
  <2>2. request'[r] = StatusFor(launch[t]) /\ UNCHANGED <<order, runs, enabled>>
    BY <1>0, <1>7 DEF SettleRequestStatus, TypeOK
  <2>3. QED
    BY <2>1, <2>2 DEF StatusFor, Inbox, Underway
<1>8. CASE QcRejects(r)
  BY <1>0, <1>8 DEF QcRejects, TypeOK, Inbox
<1>9. LeaseExpires(r) => request'[r] = request[r]
  BY DEF LeaseExpires
<1>10. QED
  BY <1>0, <1>4, <1>5, <1>6, <1>7, <1>8, <1>9, RequestChanges

-----------------------------------------------------------------------------
(* The slots.                                                               *)

\* What FreeOrdersHoldSlots says of a set of requests that share a day.
Within(S) ==
    /\ Cardinality(S) <= MaxPerDay
    /\ \A r \in S : Cardinality(InProject(S, Project[r])) <= MaxPerProjectPerDay

LEMMA SubsetWithin ==
    ASSUME NEW S, IsFiniteSet(S), Within(S), NEW T \in SUBSET S
    PROVE  IsFiniteSet(T) /\ Within(T)
<1>1. IsFiniteSet(T) /\ Cardinality(T) <= MaxPerDay
  BY FS_Subset, FS_CardinalityType, CapsAssumption DEF Within
<1>2. ASSUME NEW r \in T
      PROVE  Cardinality(InProject(T, Project[r])) <= MaxPerProjectPerDay
  <2> DEFINE A == InProject(S, Project[r])
             B == InProject(T, Project[r])
  <2>1. A \in SUBSET S /\ B \in SUBSET A
    BY DEF InProject
  <2>2. IsFiniteSet(A) /\ Cardinality(A) <= MaxPerProjectPerDay
    BY <2>1, FS_Subset DEF Within
  <2>3. IsFiniteSet(B) /\ Cardinality(B) <= Cardinality(A)
    BY <2>1, <2>2, FS_Subset
  <2>4. Cardinality(A) \in Nat /\ Cardinality(B) \in Nat
    BY <2>2, <2>3, FS_CardinalityType
  <2>5. QED
    BY <2>2, <2>3, <2>4, CapsAssumption
<1>3. QED
  BY <1>1, <1>2 DEF Within

\* A claim that sv_claim_free_auto_dispatch grants keeps both caps.
LEMMA OneMoreWithin ==
    ASSUME NEW S, IsFiniteSet(S), Within(S), NEW r, r \notin S,
           Cardinality(S) < MaxPerDay,
           Cardinality(InProject(S, Project[r])) < MaxPerProjectPerDay
    PROVE  IsFiniteSet(S \cup {r}) /\ Within(S \cup {r})
<1>1. IsFiniteSet(S \cup {r}) /\ Cardinality(S \cup {r}) = Cardinality(S) + 1
  BY FS_AddElement
<1>2. Cardinality(S \cup {r}) <= MaxPerDay
  BY <1>1, FS_CardinalityType, CapsAssumption
<1>3. ASSUME NEW q \in S \cup {r}
      PROVE  Cardinality(InProject(S \cup {r}, Project[q])) <= MaxPerProjectPerDay
  <2> DEFINE A == InProject(S, Project[q])
  <2>1. IsFiniteSet(A) /\ Cardinality(A) \in Nat
    BY FS_Subset, FS_CardinalityType DEF InProject
  <2>2. CASE Project[q] = Project[r]
    <3>1. InProject(S \cup {r}, Project[q]) = A \cup {r}
      BY <2>2 DEF InProject
    <3>2. Cardinality(A \cup {r}) = Cardinality(A) + 1
      BY <2>1, FS_AddElement DEF InProject
    <3>3. Cardinality(A) < MaxPerProjectPerDay
      BY <2>2
    <3> HIDE DEF A
    <3>4. QED
      BY <2>1, <3>1, <3>2, <3>3, CapsAssumption
  <2>3. CASE Project[q] # Project[r]
    <3>1. InProject(S \cup {r}, Project[q]) = A /\ q \in S
      BY <2>3 DEF InProject
    <3>2. QED
      BY <3>1 DEF Within
  <2>4. QED
    BY <2>2, <2>3
<1>4. QED
  BY <1>1, <1>2, <1>3 DEF Within

LEMMA SlotsSay ==
    FreeOrdersHoldSlots <=>
        /\ \A r \in Requests : order[r] # "NONE" => slot[r] # 0
        /\ \A day \in 1 .. MaxDays : Within(Taken(day))
BY DEF FreeOrdersHoldSlots, Within, Taken, InProject

LEMMA CapsStep ==
    ASSUME IInv, [Next]_vars, NEW day \in 1 .. MaxDays
    PROVE  IsFiniteSet(Taken(day)') /\ Within(Taken(day)')
<1>0. TypeOK /\ IsFiniteSet(Taken(day)) /\ Within(Taken(day))
  BY SlotsSay DEF IInv, FiniteDays
<1>1. ASSUME NEW s \in Submissions, ReleaseSlot(s)
      PROVE  Taken(day)' \in SUBSET Taken(day)
  BY <1>0, <1>1 DEF ReleaseSlot, Taken, TypeOK
<1>2. ASSUME NEW s \in Submissions, ClaimSlot(s)
      PROVE  IsFiniteSet(Taken(day)') /\ Within(Taken(day)')
  <2>1. cur[s] \in Requests
    BY <1>2 DEF ClaimSlot, IInv, HasRequest
  <2>2. CASE slot[cur[s]] # 0 \/ day # today
    <3>1. Taken(day)' = Taken(day)
      BY <1>0, <1>2, <2>1, <2>2 DEF ClaimSlot, Taken, TypeOK
    <3>2. QED
      BY <1>0, <3>1
  <2>3. CASE slot[cur[s]] = 0 /\ day = today
    <3>1. Taken(day)' = Taken(day) \cup {cur[s]}
      BY <1>0, <1>2, <2>1, <2>3 DEF ClaimSlot, Taken, TypeOK
    <3>2. cur[s] \notin Taken(day)
      BY <2>3 DEF Taken
    <3>3. /\ Cardinality(Taken(day)) < MaxPerDay
          /\ Cardinality(InProject(Taken(day), Project[cur[s]])) < MaxPerProjectPerDay
      BY <1>2, <2>3 DEF ClaimSlot, CanClaim, TakenToday, Taken, InProject
    <3>4. QED
      BY <1>0, <3>1, <3>2, <3>3, OneMoreWithin
  <2>4. QED
    BY <2>2, <2>3
<1>3. slot' = slot => Taken(day)' = Taken(day)
  BY DEF Taken
<1>4. QED
  BY <1>0, <1>1, <1>2, <1>3, SubsetWithin, SlotChanges

LEMMA SlotsStep ==
    ASSUME IInv, [Next]_vars PROVE FreeOrdersHoldSlots'
<1>0. TypeOK /\ SeenNoOrder
  BY DEF IInv
<1>1. ASSUME NEW r \in Requests, order'[r] # "NONE" PROVE slot'[r] # 0
  <2>1. CASE order[r] = "NONE"
    <3>1. PICK s \in Submissions : DraftOrder(s) /\ cur[s] = r
      BY <1>0, <1>1, <2>1, OrderGoesOn
    <3>2. QED
      BY <1>0, <3>1 DEF DraftOrder, SeenNoOrder
  <2>2. CASE order[r] # "NONE"
    <3>1. slot[r] # 0
      BY <2>2 DEF IInv, FreeOrdersHoldSlots
    <3>2. ASSUME NEW s \in Submissions, ReleaseSlot(s) PROVE slot'[r] # 0
      <4>1. cur[s] # r
        BY <1>0, <2>2, <3>2 DEF ReleaseSlot, SeenNoOrder
      <4>2. QED
        BY <1>0, <3>1, <3>2, <4>1 DEF ReleaseSlot, TypeOK
    <3>3. ASSUME NEW s \in Submissions, ClaimSlot(s) PROVE slot'[r] # 0
      BY <1>0, <3>1, <3>3 DEF ClaimSlot, TypeOK
    <3>4. QED
      BY <1>0, <3>1, <3>2, <3>3, SlotChanges
  <2>3. QED
    BY <2>1, <2>2
<1>2. \A day \in 1 .. MaxDays : Within(Taken(day)')
  BY CapsStep
<1>3. QED
  BY <1>1, <1>2 DEF FreeOrdersHoldSlots, Within, Taken, InProject

-----------------------------------------------------------------------------
(* The theorems.                                                            *)

LEMMA InitHolds == Init => IInv
<1> SUFFICES ASSUME Init PROVE IInv
  OBVIOUS
<1> USE DEF Init
<1>1. TypeOK
  BY MaxDaysAssumption DEF TypeOK, RequestStatus, OrderStatus, Step, Launch
<1>2. HasRequest /\ NothingWhenOff /\ OneHolder /\ SeenNoOrder /\ SettlesTruth
  BY DEF HasRequest, NothingWhenOff, OneHolder, Holding, Dispatching, SeenNoOrder,
         SettlesTruth
<1>3. ASSUME NEW day \in 1 .. MaxDays PROVE IsFiniteSet(Taken(day)) /\ Within(Taken(day))
  <2>1. Taken(day) = {}
    BY DEF Taken
  <2>2. QED
    BY <2>1, FS_EmptySet, CapsAssumption DEF Within
<1>4. FiniteDays /\ FreeOrdersHoldSlots
  BY <1>3, SlotsSay DEF FiniteDays
<1>5. InboxTellsTruth
  BY InboxSays DEF Inbox
<1>6. QED
  BY <1>1, <1>2, <1>4, <1>5 DEF IInv

LEMMA Invariant == ASSUME "SLOW" \notin Disturbances PROVE Spec => []IInv
<1>1. IInv /\ [Next]_vars => IInv'
  <2> SUFFICES ASSUME IInv, [Next]_vars PROVE IInv'
    OBVIOUS
  <2>1. TypeOK' /\ HasRequest' /\ NothingWhenOff'
    BY TypeStep, HasRequestStep, OffStep DEF IInv
  <2>2. FiniteDays'
    BY CapsStep DEF FiniteDays
  <2>3. InboxTellsTruth'
    <3>1. \A r \in Requests : Inbox(r)'
      BY InboxStep
    <3>2. (\A r \in Requests : Inbox(r))' => InboxTellsTruth'
      BY InboxSays, PTL
    <3>3. QED
      BY <3>1, <3>2
  <2>4. QED
    BY <2>1, <2>2, <2>3, HolderStep, SeenStep, SettlesStep, SlotsStep DEF IInv
<1>2. QED
  BY <1>1, InitHolds, PTL DEF Spec

\* Every variable keeps its type, also when handlers outlive their leases.
THEOREM TypeCorrect == Spec => []TypeOK
<1>1. Init => TypeOK
  BY InitHolds DEF IInv
<1>2. QED
  BY <1>1, TypeStep, PTL DEF Spec

\* Two submissions of one form never dispatch the same request before it has its
\* order, as long as no handler outlives the lease it took.
THEOREM DispatchedByOne == ASSUME "SLOW" \notin Disturbances PROVE Spec => []OneDispatcher
<1>1. IInv => OneDispatcher
  <2> SUFFICES ASSUME IInv, NEW s \in Submissions, NEW t \in Submissions, s # t,
                      spc[s] \in Dispatching, spc[t] \in Dispatching,
                      order[cur[s]] = "NONE", cur[s] = cur[t]
               PROVE  FALSE
    BY DEF OneDispatcher
  <2>1. cur[s] \in Requests /\ Holding(s, cur[s]) /\ Holding(t, cur[s])
    BY DEF IInv, HasRequest, Holding, Dispatching
  <2>2. enabled
    BY DispatchingMeansOn DEF IInv
  <2>3. QED
    BY <2>1, <2>2 DEF IInv, OneHolder
<1>2. QED
  BY <1>1, Invariant, PTL

\* An order that started for free holds a slot, and no day has more slots than its
\* caps allow, for all that sv_release_free_auto_dispatch gives back.
THEOREM FreeOrdersSlotted ==
    ASSUME "SLOW" \notin Disturbances PROVE Spec => []FreeOrdersHoldSlots
<1>1. IInv => FreeOrdersHoldSlots
  BY DEF IInv
<1>2. QED
  BY <1>1, Invariant, PTL

\* The status the operator's inbox shows is never wrong about the order.
THEOREM InboxTrue == ASSUME "SLOW" \notin Disturbances PROVE Spec => []InboxTellsTruth
<1>1. IInv => InboxTellsTruth
  BY DEF IInv
<1>2. QED
  BY <1>1, Invariant, PTL
=============================================================================
