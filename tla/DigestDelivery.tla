--------------------------- MODULE DigestDelivery ---------------------------
(***************************************************************************)
(* One week's digest of a project on its way to Telegram.  A chat is bound *)
(* to the project by a one-time link; the weekly sweep saves the digest    *)
(* and a delivery to the chat that is bound, and sends it.  The claim,     *)
(* the call and the record of what it did are three steps, and a retry is  *)
(* a job of its own in a queue that does not retry.  Workers may be slow,  *)
(* die, fail to write, or be handed a retry before it is due.              *)
(***************************************************************************)
EXTENDS Naturals, FiniteSets

CONSTANTS
    Links,          \* connect links; a redeemed one is a row of sv_delivery_recipients
    Workers,
    MaxAttempts,    \* DELIVERY_MAX_ATTEMPTS
    MaxSweeps,      \* bound: the week's sweep and those started by hand
    Disturbances,   \* subset of {"CRASH", "DATABASE", "SLOW", "CLOCK"}
    NoLink

ASSUME MaxAttemptsAssumption == MaxAttempts \in Nat \ {0}
ASSUME MaxSweepsAssumption == MaxSweeps \in Nat

VARIABLES
    binding,        \* the link and its recipient
    status, attempts,   \* of the delivery to that recipient
    expired,        \* its claim is older than the lease
    due,            \* next_attempt_at is null or has come
    log,            \* sv_digest_delivery_attempts
    retries,        \* queued jobs, by the attempt they follow
    sweeps,
    wpc, cur, mine, heard,  \* a worker: its step, delivery, attempt and answer
    dropped         \* history: a job of it died, or came early, since it was
                    \* last claimed

rows == <<status, attempts, expired, due, log>>
worker == <<wpc, cur, mine, heard>>
vars == <<binding, rows, retries, sweeps, worker, dropped>>

Outcome == {"SUCCESS", "TEMPORARY_FAILURE", "RECIPIENT_GONE"}
Final == {"DELIVERED", "FAILED", "UNBOUND"}
Status == {"NONE", "PENDING", "SENDING", "RETRY_SCHEDULED"} \cup Final
Binding == {"UNUSED", "EXPIRED", "BOUND", "UNBOUND"}
Step == {"idle", "claim", "send", "record", "schedule"}

Init ==
    /\ binding = [l \in Links |-> "UNUSED"]
    /\ status = [l \in Links |-> "NONE"]
    /\ attempts = [l \in Links |-> 0]
    /\ expired = [l \in Links |-> FALSE]
    /\ due = [l \in Links |-> TRUE]
    /\ log = [l \in Links |-> [n \in 1 .. MaxAttempts |-> "NONE"]]
    /\ retries = [l \in Links |-> {}]
    /\ sweeps = 0
    /\ wpc = [w \in Workers |-> "idle"]
    /\ cur = [w \in Workers |-> NoLink]
    /\ mine = [w \in Workers |-> 0]
    /\ heard = [w \in Workers |-> "NONE"]
    /\ dropped = [l \in Links |-> FALSE]

-----------------------------------------------------------------------------
(* Connecting a chat.                                                       *)

RetireBound == [l \in Links |-> IF binding[l] = "BOUND" THEN "UNBOUND" ELSE binding[l]]

\* sv_redeem_delivery_connect_token: a new chat retires the one bound before it.
RedeemLink(l) ==
    /\ binding[l] = "UNUSED"
    /\ binding' = [RetireBound EXCEPT ![l] = "BOUND"]
    /\ UNCHANGED <<rows, retries, sweeps, worker, dropped>>

LinkExpires(l) ==
    /\ binding[l] = "UNUSED"
    /\ binding' = [binding EXCEPT ![l] = "EXPIRED"]
    /\ UNCHANGED <<rows, retries, sweeps, worker, dropped>>

Disconnect ==
    /\ RetireBound # binding
    /\ binding' = RetireBound
    /\ UNCHANGED <<rows, retries, sweeps, worker, dropped>>

-----------------------------------------------------------------------------
(* The worker.                                                              *)

Goto(w, step) == wpc' = [wpc EXCEPT ![w] = step]

Done(w) ==
    /\ Goto(w, "idle")
    /\ cur' = [cur EXCEPT ![w] = NoLink]
    /\ mine' = [mine EXCEPT ![w] = 0]
    /\ heard' = [heard EXCEPT ![w] = "NONE"]

Drop(l) == dropped' = [dropped EXCEPT ![l] = TRUE]

\* saveWeeklyDigest and ensureDigestDelivery in one transaction; a second sweep
\* finds both rows.
Sweep(w, l) ==
    /\ sweeps < MaxSweeps /\ sweeps' = sweeps + 1
    /\ wpc[w] = "idle" /\ binding[l] = "BOUND"
    /\ status' = [status EXCEPT ![l] = IF @ = "NONE" THEN "PENDING" ELSE @]
    /\ Goto(w, "claim") /\ cur' = [cur EXCEPT ![w] = l]
    /\ UNCHANGED <<binding, attempts, expired, due, log, retries, mine, heard, dropped>>

\* The start of a retry is compared with the clock of the database.
FetchRetry(w, l, n) ==
    /\ wpc[w] = "idle" /\ n \in retries[l]
    /\ due[l] \/ n # attempts[l] \/ "CLOCK" \in Disturbances
    /\ retries' = [retries EXCEPT ![l] = @ \ {n}]
    /\ Goto(w, "claim") /\ cur' = [cur EXCEPT ![w] = l]
    /\ UNCHANGED <<binding, rows, sweeps, mine, heard, dropped>>

\* Bugs to catch: the cap is not checked when a claim is taken over; a delivery
\* that is done is sent again.
MaySendForEver(l) ==
    /\ status[l] \notin Final
    /\ status[l] = "SENDING" => expired[l]
    /\ binding[l] = "BOUND" /\ due[l]
MaySendAgain(l) ==
    /\ status[l] = "SENDING" => expired[l]
    /\ binding[l] = "BOUND" /\ due[l]
    /\ attempts[l] < MaxAttempts

\* resolveDeliveryPrecondition.
MaySend(l) ==
    /\ status[l] \notin Final
    /\ status[l] = "SENDING" => expired[l]
    /\ binding[l] = "BOUND"
    /\ attempts[l] < MaxAttempts
    /\ due[l]

Claim(w) ==
    LET l == cur[w] IN
    /\ wpc[w] = "claim" /\ MaySend(l)
    /\ status' = [status EXCEPT ![l] = "SENDING"]
    /\ attempts' = [attempts EXCEPT ![l] = @ + 1]
    /\ expired' = [expired EXCEPT ![l] = FALSE]
    /\ due' = [due EXCEPT ![l] = TRUE]
    /\ mine' = [mine EXCEPT ![w] = attempts[l] + 1]
    /\ dropped' = [dropped EXCEPT ![l] = FALSE]
    /\ Goto(w, "send")
    /\ UNCHANGED <<binding, log, retries, sweeps, cur, heard>>

\* The job ends as completed.  Nobody queues another for a retry that is not due.
ClaimRefused(w) ==
    LET l == cur[w] IN
    /\ wpc[w] = "claim" /\ ~MaySend(l)
    /\ IF status[l] = "RETRY_SCHEDULED" /\ ~due[l] THEN Drop(l)
       ELSE UNCHANGED dropped
    /\ Done(w)
    /\ UNCHANGED <<binding, rows, retries, sweeps>>

\* What Telegram answered, a timeout of 15 seconds, or an error thrown on the way.
SendText(w) ==
    /\ wpc[w] = "send"
    /\ \E outcome \in Outcome : heard' = [heard EXCEPT ![w] = outcome]
    /\ Goto(w, "record")
    /\ UNCHANGED <<binding, rows, retries, sweeps, cur, mine, dropped>>

\* decideNextDelivery.
Decision(attempt, outcome) ==
    CASE outcome = "SUCCESS" -> "DELIVERED"
      [] outcome = "RECIPIENT_GONE" -> "UNBOUND"
      [] outcome = "TEMPORARY_FAILURE" ->
           IF attempt >= MaxAttempts THEN "FAILED" ELSE "RETRY_SCHEDULED"

\* A bug to catch: the update is not conditioned on the claim.
HoldsAnyClaim(w, l) == status[l] = "SENDING"
\* claimed_at is still the time of this worker's claim.
HoldsClaim(w, l) == status[l] = "SENDING" /\ attempts[l] = mine[w]

Record(w) ==
    LET l == cur[w]
        next == Decision(mine[w], heard[w])
    IN
    /\ wpc[w] = "record" /\ HoldsClaim(w, l)
    /\ log' = [log EXCEPT ![l][mine[w]] = heard[w]]
    /\ status' = [status EXCEPT ![l] = next]
    /\ attempts' = [attempts EXCEPT ![l] = mine[w]]
    /\ expired' = [expired EXCEPT ![l] = FALSE]
    /\ due' = [due EXCEPT ![l] = next # "RETRY_SCHEDULED"]
    /\ binding' = [binding EXCEPT ![l] = IF next = "UNBOUND" THEN "UNBOUND" ELSE @]
    /\ IF next = "RETRY_SCHEDULED"
       THEN Goto(w, "schedule") /\ UNCHANGED <<cur, mine, heard>>
       ELSE Done(w)
    /\ UNCHANGED <<retries, sweeps, dropped>>

\* SELENA_DELIVERY_CLAIM_LOST undoes the insert of the attempt too.
ClaimLost(w) ==
    /\ wpc[w] = "record" /\ ~HoldsClaim(w, cur[w])
    /\ Done(w)
    /\ UNCHANGED <<binding, rows, retries, sweeps, dropped>>

\* A bug to catch: the queue is left to retry.
ScheduleNothing(w) ==
    /\ wpc[w] = "schedule"
    /\ Done(w)
    /\ UNCHANGED <<binding, rows, retries, sweeps, dropped>>

ScheduleDelivery(w) ==
    /\ wpc[w] = "schedule"
    /\ retries' = [retries EXCEPT ![cur[w]] = @ \cup {mine[w]}]
    /\ Done(w)
    /\ UNCHANGED <<binding, rows, sweeps, dropped>>

\* The claim, the record or the send to the queue fails, or the process dies: the
\* queue does not deliver the job again.
JobDies(w) ==
    /\ wpc[w] # "idle"
    /\ \/ "CRASH" \in Disturbances
       \/ "DATABASE" \in Disturbances /\ wpc[w] # "send"
    /\ Drop(cur[w])
    /\ Done(w)
    /\ UNCHANGED <<binding, rows, retries, sweeps>>

-----------------------------------------------------------------------------
(* Time.                                                                    *)

\* 30 seconds.  Without SLOW a worker has its answer before its lease runs out.
LeaseExpires(l) ==
    /\ status[l] = "SENDING" /\ ~expired[l]
    /\ "SLOW" \in Disturbances
       \/ \A w \in Workers : cur[w] = l => mine[w] # attempts[l]
    /\ expired' = [expired EXCEPT ![l] = TRUE]
    /\ UNCHANGED <<binding, status, attempts, due, log, retries, sweeps, worker, dropped>>

DelayPasses(l) ==
    /\ status[l] = "RETRY_SCHEDULED" /\ ~due[l]
    /\ due' = [due EXCEPT ![l] = TRUE]
    /\ UNCHANGED <<binding, status, attempts, expired, log, retries, sweeps, worker, dropped>>

Deliver(w) ==
    \/ Claim(w) \/ ClaimRefused(w) \/ SendText(w)
    \/ Record(w) \/ ClaimLost(w) \/ ScheduleDelivery(w)

Fetch(w) == \E l \in Links : \E n \in 1 .. MaxAttempts : FetchRetry(w, l, n)

Next ==
    \/ \E w \in Workers :
          Deliver(w) \/ Fetch(w) \/ JobDies(w) \/ \E l \in Links : Sweep(w, l)
    \/ \E l \in Links :
          RedeemLink(l) \/ LinkExpires(l) \/ LeaseExpires(l) \/ DelayPasses(l)
    \/ Disconnect

\* A worker that runs goes on with its job and with the jobs in the queue, and
\* delays pass.  Nobody has to sweep, connect or disconnect.
Fairness ==
    /\ \A w \in Workers : WF_vars(Deliver(w)) /\ WF_vars(Fetch(w))
    /\ \A l \in Links : WF_vars(DelayPasses(l))

Spec == Init /\ [][Next]_vars /\ Fairness

-----------------------------------------------------------------------------
(* What it guarantees.                                                      *)

\* One chat per project is an index of the table.
TypeOK ==
    /\ binding \in [Links -> Binding]
    /\ Cardinality({l \in Links : binding[l] = "BOUND"}) <= 1
    /\ status \in [Links -> Status] /\ attempts \in [Links -> 0 .. MaxAttempts]
    /\ expired \in [Links -> BOOLEAN] /\ due \in [Links -> BOOLEAN]
    /\ log \in [Links -> [1 .. MaxAttempts -> Outcome \cup {"NONE"}]]
    /\ retries \in [Links -> SUBSET (1 .. MaxAttempts)]
    /\ sweeps \in 0 .. MaxSweeps
    /\ wpc \in [Workers -> Step] /\ cur \in [Workers -> Links \cup {NoLink}]
    /\ mine \in [Workers -> 0 .. MaxAttempts]
    /\ heard \in [Workers -> Outcome \cup {"NONE"}]
    /\ dropped \in [Links -> BOOLEAN]

\* The row says what the append-only log says: the outcome of the last attempt
\* decides it, no attempt before the last one ended the delivery, and a claimed
\* attempt is not logged yet.  A worker that was taken over writes neither.
BooksTellTheRow ==
    \A l \in Links :
        LET last == attempts[l] IN
        /\ \A n \in 1 .. MaxAttempts :
              /\ n < last => log[l][n] \in {"NONE", "TEMPORARY_FAILURE"}
              /\ n > last => log[l][n] = "NONE"
        /\ status[l] \in {"NONE", "PENDING"} <=> last = 0
        /\ status[l] = "SENDING" => log[l][last] = "NONE"
        /\ status[l] \in Final \cup {"RETRY_SCHEDULED"} =>
              log[l][last] # "NONE" /\ status[l] = Decision(last, log[l][last])
        /\ status[l] = "UNBOUND" => binding[l] = "UNBOUND"

\* A digest that was delivered, given up or refused by its chat is not sent or
\* judged again, whatever late workers, second sweeps and old jobs do.
VerdictIsFinal ==
    [][\A l \in Links : status[l] \in Final =>
          status'[l] = status[l] /\ attempts'[l] = attempts[l]]_vars

\* Retries come to an end: a saved delivery, and one that another sweep has taken
\* over from a dead worker or a lost retry, reaches its verdict, unless its chat is
\* unbound first, or a job of it dies or comes before its time once more.
DigestsSettle ==
    \A l \in Links :
        status[l] # "NONE" ~> status[l] \in Final \/ binding[l] # "BOUND" \/ dropped[l]
=============================================================================
