------------------------ MODULE DigestDeliveryProofs ------------------------
(***************************************************************************)
(* Theorems about the delivery of a weekly digest for any number of links, *)
(* workers, attempts and sweeps, and under any of the disturbances.        *)
(***************************************************************************)
EXTENDS DigestDelivery, FiniteSetTheorems, TLAPS

\* A redeemed link retires the chat that was bound: two links are never bound.
OneChat == \A l, m \in Links : binding[l] = "BOUND" /\ binding[m] = "BOUND" => l = m

\* A worker with a job has a delivery in hand; from its claim on the number it
\* took is one of the attempts of the row, which may have moved past it; and it
\* records what it heard.
JobsInHand ==
    \A w \in Workers :
        /\ wpc[w] # "idle" => cur[w] \in Links
        /\ wpc[w] \in {"send", "record", "schedule"} =>
              mine[w] \in 1 .. MaxAttempts /\ mine[w] <= attempts[cur[w]]
        /\ wpc[w] = "record" => heard[w] \in Outcome

\* TypeOK without the count of the bound links, which OneChat implies.
Typed ==
    /\ binding \in [Links -> Binding]
    /\ status \in [Links -> Status] /\ attempts \in [Links -> 0 .. MaxAttempts]
    /\ expired \in [Links -> BOOLEAN] /\ due \in [Links -> BOOLEAN]
    /\ log \in [Links -> [1 .. MaxAttempts -> Outcome \cup {"NONE"}]]
    /\ retries \in [Links -> SUBSET (1 .. MaxAttempts)]
    /\ sweeps \in 0 .. MaxSweeps
    /\ wpc \in [Workers -> Step] /\ cur \in [Workers -> Links \cup {NoLink}]
    /\ mine \in [Workers -> 0 .. MaxAttempts]
    /\ heard \in [Workers -> Outcome \cup {"NONE"}]
    /\ dropped \in [Links -> BOOLEAN]

IInv == Typed /\ OneChat /\ JobsInHand /\ BooksTellTheRow

LEMMA CountOfChats == Typed /\ OneChat => TypeOK
<1> SUFFICES ASSUME Typed, OneChat
             PROVE  Cardinality({l \in Links : binding[l] = "BOUND"}) <= 1
  BY DEF Typed, TypeOK
<1> DEFINE Bound == {l \in Links : binding[l] = "BOUND"}
<1>1. CASE Bound = {}
  BY <1>1, FS_EmptySet
<1>2. CASE Bound # {}
  <2>1. PICK l \in Links : Bound = {l}
    BY <1>2 DEF OneChat
  <2>2. QED
    BY <2>1, FS_Singleton
<1>3. QED
  BY <1>1, <1>2

LEMMA DecisionType ==
    ASSUME NEW n \in 1 .. MaxAttempts, NEW outcome \in Outcome
    PROVE  /\ Decision(n, outcome) \in Status
           /\ Decision(n, outcome) \in Final \cup {"RETRY_SCHEDULED"}
           /\ Decision(n, outcome) = "RETRY_SCHEDULED" => outcome = "TEMPORARY_FAILURE"
BY DEF Decision, Outcome, Status, Final

-----------------------------------------------------------------------------
(* Types.                                                                   *)

LEMMA TypedInit == Init => Typed
BY MaxSweepsAssumption, MaxAttemptsAssumption
   DEF Init, Typed, Binding, Status, Step, Outcome

\* A worker at rest keeps the types of the workers.
LEMMA DoneTyped ==
    ASSUME Typed, NEW w \in Workers, Done(w)
    PROVE  /\ wpc' \in [Workers -> Step] /\ cur' \in [Workers -> Links \cup {NoLink}]
           /\ mine' \in [Workers -> 0 .. MaxAttempts]
           /\ heard' \in [Workers -> Outcome \cup {"NONE"}]
<1>1. 0 \in 0 .. MaxAttempts /\ "idle" \in Step
  BY MaxAttemptsAssumption DEF Step
<1>2. QED
  BY <1>1 DEF Typed, Done, Goto

LEMMA TypedStep == Typed /\ JobsInHand /\ [Next]_vars => Typed'
<1> SUFFICES ASSUME Typed, JobsInHand, [Next]_vars PROVE Typed'
  OBVIOUS
<1> USE MaxAttemptsAssumption, MaxSweepsAssumption DEF Typed
<1>1. ASSUME NEW l \in Links, RedeemLink(l) \/ LinkExpires(l) PROVE Typed'
  BY <1>1 DEF RedeemLink, LinkExpires, RetireBound, Binding, rows, worker
<1>2. ASSUME Disconnect PROVE Typed'
  BY <1>2 DEF Disconnect, RetireBound, Binding, rows, worker
<1>3. ASSUME NEW w \in Workers, NEW l \in Links, Sweep(w, l) PROVE Typed'
  BY <1>3 DEF Sweep, Goto, Status, Step
<1>4. ASSUME NEW w \in Workers, Fetch(w) PROVE Typed'
  BY <1>4 DEF Fetch, FetchRetry, Goto, Step, rows
<1>5. ASSUME NEW w \in Workers, Claim(w) PROVE Typed'
  <2>1. cur[w] \in Links /\ attempts[cur[w]] + 1 \in 0 .. MaxAttempts
    BY <1>5 DEF Claim, MaySend, JobsInHand
  <2>2. QED
    BY <1>5, <2>1 DEF Claim, Goto, Status, Step
<1>6. ASSUME NEW w \in Workers, ClaimRefused(w) PROVE Typed'
  BY <1>6, DoneTyped DEF ClaimRefused, Drop, rows
<1>7. ASSUME NEW w \in Workers, SendText(w) PROVE Typed'
  BY <1>7 DEF SendText, Goto, Step, rows
<1>8. ASSUME NEW w \in Workers, Record(w) PROVE Typed'
  <2>1. /\ cur[w] \in Links /\ mine[w] \in 1 .. MaxAttempts /\ heard[w] \in Outcome
        /\ Decision(mine[w], heard[w]) \in Status
    BY <1>8, DecisionType DEF Record, JobsInHand
  <2>2. /\ wpc' \in [Workers -> Step] /\ cur' \in [Workers -> Links \cup {NoLink}]
        /\ mine' \in [Workers -> 0 .. MaxAttempts]
        /\ heard' \in [Workers -> Outcome \cup {"NONE"}]
    <3>1. CASE Done(w)
      BY <3>1, DoneTyped
    <3>2. CASE Goto(w, "schedule") /\ UNCHANGED <<cur, mine, heard>>
      BY <3>2 DEF Goto, Step
    <3>3. QED
      BY <1>8, <3>1, <3>2 DEF Record
  <2>3. binding' \in [Links -> Binding]
    BY <1>8 DEF Record, Binding
  <2>4. log' \in [Links -> [1 .. MaxAttempts -> Outcome \cup {"NONE"}]]
    BY <1>8, <2>1 DEF Record
  <2>5. QED
    BY <1>8, <2>1, <2>2, <2>3, <2>4 DEF Record
<1>9. ASSUME NEW w \in Workers, ClaimLost(w) PROVE Typed'
  BY <1>9, DoneTyped DEF ClaimLost, rows
<1>10. ASSUME NEW w \in Workers, ScheduleDelivery(w) PROVE Typed'
  <2>1. mine[w] \in 1 .. MaxAttempts
    BY <1>10 DEF ScheduleDelivery, JobsInHand
  <2>2. QED
    BY <1>10, <2>1, DoneTyped DEF ScheduleDelivery, rows
<1>11. ASSUME NEW w \in Workers, JobDies(w) PROVE Typed'
  BY <1>11, DoneTyped DEF JobDies, Drop, rows
<1>12. ASSUME NEW l \in Links, LeaseExpires(l) \/ DelayPasses(l) PROVE Typed'
  BY <1>12 DEF LeaseExpires, DelayPasses, worker
<1>13. ASSUME UNCHANGED vars PROVE Typed'
  BY <1>13 DEF vars, rows, worker
<1>14. QED
  BY <1>1, <1>2, <1>3, <1>4, <1>5, <1>6, <1>7, <1>8, <1>9, <1>10, <1>11, <1>12, <1>13
     DEF Next, Deliver

-----------------------------------------------------------------------------
(* The chat, and the jobs of the workers.                                   *)

LEMMA OneChatStep == Typed /\ OneChat /\ [Next]_vars => OneChat'
<1> SUFFICES ASSUME Typed, OneChat, [Next]_vars PROVE OneChat'
  OBVIOUS
<1> USE DEF Typed, OneChat
<1>1. ASSUME NEW l \in Links, RedeemLink(l) PROVE OneChat'
  BY <1>1 DEF RedeemLink, RetireBound
<1>2. ASSUME NEW l \in Links, LinkExpires(l) PROVE OneChat'
  BY <1>2 DEF LinkExpires
<1>3. ASSUME Disconnect PROVE OneChat'
  BY <1>3 DEF Disconnect, RetireBound
<1>4. ASSUME NEW w \in Workers, Record(w) PROVE OneChat'
  BY <1>4 DEF Record
<1>5. ASSUME UNCHANGED binding PROVE OneChat'
  BY <1>5
<1>6. QED
  BY <1>1, <1>2, <1>3, <1>4, <1>5
     DEF Next, Deliver, Sweep, Fetch, FetchRetry, JobDies, Claim, ClaimRefused, SendText,
         ClaimLost, ScheduleDelivery, LeaseExpires, DelayPasses, vars

\* A worker that ends its job has nothing in hand.
LEMMA DoneLeavesNothing ==
    ASSUME Typed, NEW w \in Workers, Done(w), JobsInHand,
           \A l \in Links : attempts'[l] = attempts[l]
    PROVE  JobsInHand'
BY DEF Done, Goto, JobsInHand, Typed

LEMMA JobsStep == Typed /\ JobsInHand /\ [Next]_vars => JobsInHand'
<1> SUFFICES ASSUME Typed, JobsInHand, [Next]_vars PROVE JobsInHand'
  OBVIOUS
<1> USE MaxAttemptsAssumption DEF Typed
<1>1. ASSUME NEW w \in Workers, NEW l \in Links, Sweep(w, l) PROVE JobsInHand'
  BY <1>1 DEF Sweep, Goto, JobsInHand
<1>2. ASSUME NEW w \in Workers, Fetch(w) PROVE JobsInHand'
  BY <1>2 DEF Fetch, FetchRetry, Goto, JobsInHand, rows
<1>3. ASSUME NEW w \in Workers, Claim(w) PROVE JobsInHand'
  <2>1. cur[w] \in Links /\ attempts[cur[w]] + 1 \in 1 .. MaxAttempts
    BY <1>3 DEF Claim, MaySend, JobsInHand
  <2>2. \A l \in Links : attempts[l] <= attempts'[l]
    BY <1>3, <2>1 DEF Claim
  <2>3. mine'[w] = attempts'[cur[w]] /\ cur' = cur /\ heard' = heard
    BY <1>3, <2>1 DEF Claim
  <2>4. QED
    BY <1>3, <2>1, <2>2, <2>3 DEF Claim, Goto, JobsInHand
<1>4. ASSUME NEW w \in Workers,
             ClaimRefused(w) \/ ClaimLost(w) \/ ScheduleDelivery(w) \/ JobDies(w)
      PROVE  JobsInHand'
  BY <1>4, DoneLeavesNothing DEF ClaimRefused, ClaimLost, ScheduleDelivery, JobDies, rows
<1>5. ASSUME NEW w \in Workers, SendText(w) PROVE JobsInHand'
  BY <1>5 DEF SendText, Goto, JobsInHand, rows
<1>6. ASSUME NEW w \in Workers, Record(w) PROVE JobsInHand'
  <2>1. cur[w] \in Links
    BY <1>6 DEF Record, JobsInHand
  <2>2. \A l \in Links : attempts'[l] = attempts[l]
    BY <1>6, <2>1 DEF Record, HoldsClaim
  <2>3. CASE Done(w)
    BY <2>2, <2>3, DoneLeavesNothing
  <2>4. CASE Goto(w, "schedule") /\ UNCHANGED <<cur, mine, heard>>
    BY <1>6, <2>2, <2>4 DEF Record, Goto, JobsInHand
  <2>5. QED
    BY <1>6, <2>3, <2>4 DEF Record
<1>7. ASSUME UNCHANGED <<attempts, worker>> PROVE JobsInHand'
  BY <1>7 DEF worker, JobsInHand
<1>8. QED
  BY <1>1, <1>2, <1>3, <1>4, <1>5, <1>6, <1>7
     DEF Next, Deliver, RedeemLink, LinkExpires, Disconnect, LeaseExpires, DelayPasses,
         vars, rows, worker

-----------------------------------------------------------------------------
(* The row and the log.                                                     *)

\* What BooksTellTheRow says of one link.
Books(l) ==
    LET last == attempts[l] IN
    /\ \A n \in 1 .. MaxAttempts :
          /\ n < last => log[l][n] \in {"NONE", "TEMPORARY_FAILURE"}
          /\ n > last => log[l][n] = "NONE"
    /\ status[l] \in {"NONE", "PENDING"} <=> last = 0
    /\ status[l] = "SENDING" => log[l][last] = "NONE"
    /\ status[l] \in Final \cup {"RETRY_SCHEDULED"} =>
          log[l][last] # "NONE" /\ status[l] = Decision(last, log[l][last])
    /\ status[l] = "UNBOUND" => binding[l] = "UNBOUND"

\* The books of a link whose row and log stand as they were, and whose chat is not
\* bound again once it is unbound.
LEMMA BooksStand ==
    ASSUME NEW l \in Links, Books(l),
           status'[l] = status[l], attempts'[l] = attempts[l], log'[l] = log[l],
           binding[l] = "UNBOUND" => binding'[l] = "UNBOUND"
    PROVE  Books(l)'
BY DEF Books, Decision

LEMMA BooksStep == IInv /\ [Next]_vars => BooksTellTheRow'
<1> SUFFICES ASSUME IInv, [Next]_vars, NEW l \in Links PROVE Books(l)'
  BY DEF BooksTellTheRow, Books
<1>0. Books(l) /\ Typed /\ JobsInHand
  BY DEF IInv, BooksTellTheRow, Books
<1> USE <1>0, MaxAttemptsAssumption DEF Typed
<1>1. ASSUME NEW m \in Links, RedeemLink(m) \/ LinkExpires(m) PROVE Books(l)'
  BY <1>1, BooksStand DEF RedeemLink, LinkExpires, RetireBound, rows
<1>2. ASSUME Disconnect PROVE Books(l)'
  BY <1>2, BooksStand DEF Disconnect, RetireBound, rows
<1>3. ASSUME NEW w \in Workers, NEW m \in Links, Sweep(w, m) PROVE Books(l)'
  <2>1. CASE l = m /\ status[m] = "NONE"
    <3>1. /\ status'[l] = "PENDING" /\ attempts'[l] = attempts[l]
          /\ log'[l] = log[l] /\ binding'[l] = binding[l]
      BY <1>3, <2>1 DEF Sweep
    <3>2. QED
      BY <2>1, <3>1 DEF Books, Final
  <2>2. CASE ~(l = m /\ status[m] = "NONE")
    BY <1>3, <2>2, BooksStand DEF Sweep
  <2>3. QED
    BY <2>1, <2>2
<1>4. ASSUME NEW w \in Workers, Claim(w) PROVE Books(l)'
  <2>1. CASE l = cur[w]
    <3>1. /\ attempts[l] \in 0 .. MaxAttempts /\ attempts[l] < MaxAttempts
          /\ status[l] \notin Final
      BY <1>4, <2>1 DEF Claim, MaySend
    <3>2. /\ status'[l] = "SENDING" /\ attempts'[l] = attempts[l] + 1
          /\ log'[l] = log[l] /\ binding'[l] = binding[l]
      BY <1>4, <2>1 DEF Claim
    <3>3. attempts[l] # 0 => log[l][attempts[l]] \in {"NONE", "TEMPORARY_FAILURE"}
      <4>1. CASE status[l] = "SENDING"
        BY <4>1 DEF Books
      <4>2. CASE status[l] = "RETRY_SCHEDULED"
        BY <4>2, <3>1, DecisionType DEF Books
      <4>3. QED
        BY <3>1, <4>1, <4>2 DEF Books, Status
    <3>4. \A n \in 1 .. MaxAttempts :
            /\ n < attempts[l] + 1 => log[l][n] \in {"NONE", "TEMPORARY_FAILURE"}
            /\ n > attempts[l] => log[l][n] = "NONE"
      BY <3>1, <3>3 DEF Books
    <3>5. QED
      BY <3>1, <3>2, <3>4 DEF Books, Final
  <2>2. CASE l # cur[w]
    BY <1>4, <2>2, BooksStand DEF Claim
  <2>3. QED
    BY <2>1, <2>2
<1>5. ASSUME NEW w \in Workers, Record(w) PROVE Books(l)'
  <2> DEFINE next == Decision(mine[w], heard[w])
  <2>1. /\ cur[w] \in Links /\ mine[w] \in 1 .. MaxAttempts /\ heard[w] \in Outcome
        /\ attempts[cur[w]] = mine[w] /\ status[cur[w]] = "SENDING"
    BY <1>5 DEF Record, HoldsClaim, JobsInHand
  <2>2. next \in Final \cup {"RETRY_SCHEDULED"}
    BY <2>1, DecisionType
  <2>3. CASE l = cur[w]
    <3>1. /\ status'[l] = next /\ attempts'[l] = attempts[l]
          /\ log'[l] = [log[l] EXCEPT ![mine[w]] = heard[w]]
          /\ next = "UNBOUND" => binding'[l] = "UNBOUND"
      BY <1>5, <2>1, <2>3 DEF Record
    <3>2. log'[l][attempts[l]] = heard[w] /\ heard[w] # "NONE"
      BY <2>1, <2>3, <3>1 DEF Outcome
    <3>3. \A n \in 1 .. MaxAttempts : n # attempts[l] => log'[l][n] = log[l][n]
      BY <2>1, <2>3, <3>1
    <3>4. status'[l] = Decision(attempts'[l], log'[l][attempts'[l]])
      BY <2>1, <2>3, <3>1, <3>2
    <3>5. Decision(attempts[l], log'[l][attempts[l]])
            = Decision(attempts[l], log[l][attempts[l]])'
      BY <3>1 DEF Decision
    <3> HIDE DEF next
    <3>6. QED
      BY <2>1, <2>2, <2>3, <3>1, <3>2, <3>3, <3>4, <3>5 DEF Books, Final
  <2>4. CASE l # cur[w]
    BY <1>5, <2>4, BooksStand DEF Record
  <2>5. QED
    BY <2>3, <2>4
<1>6. ASSUME NEW m \in Links, LeaseExpires(m) \/ DelayPasses(m) PROVE Books(l)'
  BY <1>6, BooksStand DEF LeaseExpires, DelayPasses
<1>7. ASSUME UNCHANGED <<binding, status, attempts, log>> PROVE Books(l)'
  BY <1>7, BooksStand
<1>8. QED
  BY <1>1, <1>2, <1>3, <1>4, <1>5, <1>6, <1>7
     DEF Next, Deliver, Fetch, FetchRetry, ClaimRefused, SendText, ClaimLost,
         ScheduleDelivery, JobDies, vars, rows

-----------------------------------------------------------------------------
(* The theorems.                                                            *)

LEMMA Invariant == Spec => []IInv
<1>1. Init => IInv
  BY TypedInit, MaxAttemptsAssumption
     DEF Init, IInv, OneChat, JobsInHand, BooksTellTheRow, Final
<1>2. IInv /\ [Next]_vars => IInv'
  BY TypedStep, OneChatStep, JobsStep, BooksStep DEF IInv
<1>3. QED
  BY <1>1, <1>2, PTL DEF Spec

\* Every variable keeps its type, and at most one chat is bound to the project:
\* sv_redeem_delivery_connect_token retires the one before it.
THEOREM TypeCorrect == Spec => []TypeOK
<1>1. IInv => TypeOK
  BY CountOfChats DEF IInv
<1>2. QED
  BY <1>1, Invariant, PTL

\* The row of a delivery says what its append-only log of attempts says, however
\* many workers claim, are taken over and record late.
THEOREM BooksTellTheRowThm == Spec => []BooksTellTheRow
<1>1. IInv => BooksTellTheRow
  BY DEF IInv
<1>2. QED
  BY <1>1, Invariant, PTL

LEMMA VerdictStep ==
    ASSUME IInv, [Next]_vars, NEW l \in Links, status[l] \in Final
    PROVE  status'[l] = status[l] /\ attempts'[l] = attempts[l]
<1> USE DEF IInv, Typed
<1>1. ASSUME NEW w \in Workers, NEW m \in Links, Sweep(w, m)
      PROVE  status'[l] = status[l] /\ attempts'[l] = attempts[l]
  BY <1>1 DEF Sweep, Final
<1>2. ASSUME NEW w \in Workers, Claim(w)
      PROVE  status'[l] = status[l] /\ attempts'[l] = attempts[l]
  BY <1>2 DEF Claim, MaySend
<1>3. ASSUME NEW w \in Workers, Record(w)
      PROVE  status'[l] = status[l] /\ attempts'[l] = attempts[l]
  BY <1>3 DEF Record, HoldsClaim, Final
<1>4. QED
  BY <1>1, <1>2, <1>3
     DEF Next, Deliver, Fetch, FetchRetry, ClaimRefused, SendText, ClaimLost,
         ScheduleDelivery, JobDies, RedeemLink, LinkExpires, Disconnect, LeaseExpires,
         DelayPasses, vars, rows

\* A delivery that was delivered, given up or refused is never claimed or judged
\* again by resolveDeliveryPrecondition, a late worker or an old job.
THEOREM VerdictIsFinalThm == Spec => VerdictIsFinal
<1>1. IInv /\ [Next]_vars =>
        [\A l \in Links : status[l] \in Final =>
            status'[l] = status[l] /\ attempts'[l] = attempts[l]]_vars
  BY VerdictStep
<1>2. QED
  BY <1>1, Invariant, PTL DEF Spec, VerdictIsFinal
=============================================================================
