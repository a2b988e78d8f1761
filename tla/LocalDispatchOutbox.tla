------------------------ MODULE LocalDispatchOutbox ------------------------
(***************************************************************************)
(* The outbox dispatcher of a worker process: dispatchLocalOutboxOnce and  *)
(* the store it drives.  A round claims the pending rows under a lease,    *)
(* and for each row asks once more whether it may be sent, sends the job,  *)
(* and marks the row; each of these is a transaction or a call of its own. *)
(* A process runs one round at a time, so its name stands for the claim    *)
(* token of the round.                                                     *)
(***************************************************************************)
EXTENDS LocalMapsState

untouchedByDispatch ==
    <<control, obs, attempt, budget, ledger, books, working, environment, calls>>

\* A bug to catch: a dispatcher that claims pending rows only.
NoneExpired == {}

Expired == {a \in Attempts : outbox[a] = "CLAIMED" /\ lease[a] = NoHolder}
Waiting == {a \in Attempts : outbox[a] = "PENDING"} \cup Expired

\* The claim first returns the rows of expired leases to PENDING.  The limit of
\* nine rows is the size of the grid and never bites.
ClaimRows(d) ==
    /\ dpc[d] = "loop" /\ gate[d]
    /\ Executable /\ Waiting # {}
    /\ outbox' = [a \in Attempts |-> IF a \in Waiting THEN "CLAIMED" ELSE outbox[a]]
    /\ lease' = [a \in Attempts |-> IF a \in Waiting THEN d ELSE lease[a]]
    /\ batch' = [batch EXCEPT ![d] = Waiting]
    /\ dpc' = [dpc EXCEPT ![d] = "check"]
    /\ UNCHANGED <<untouchedByDispatch, jobs, row>>

\* A closed cycle gives nothing to claim, the expired rows are returned still.
ReturnExpired(d) ==
    /\ dpc[d] = "loop" /\ gate[d]
    /\ ~Executable /\ Expired # {}
    /\ outbox' = [a \in Attempts |-> IF a \in Expired THEN "PENDING" ELSE outbox[a]]
    /\ UNCHANGED <<untouchedByDispatch, lease, jobs, dispatching>>

Holds(d, a) == outbox[a] = "CLAIMED" /\ lease[a] = d
CanDispatch(d, a) ==
    /\ Holds(d, a)
    /\ Executable
    /\ attempt[a] \in {"CLAIMED", "SUBMITTED"}

\* A bug to catch: the row is marked before the job is sent.
CheckRowMarking(d, a) ==
    /\ dpc[d] = "check" /\ a \in batch[d]
    /\ gate[d] /\ CanDispatch(d, a)
    /\ outbox' = [outbox EXCEPT ![a] = "ENQUEUED"]
    /\ row' = [row EXCEPT ![d] = a]
    /\ batch' = [batch EXCEPT ![d] = @ \ {a}]
    /\ dpc' = [dpc EXCEPT ![d] = "send"]
    /\ UNCHANGED <<untouchedByDispatch, lease, jobs>>

CheckRow(d, a) ==
    /\ dpc[d] = "check" /\ a \in batch[d]
    /\ gate[d] /\ CanDispatch(d, a)
    /\ row' = [row EXCEPT ![d] = a]
    /\ batch' = [batch EXCEPT ![d] = @ \ {a}]
    /\ dpc' = [dpc EXCEPT ![d] = "send"]
    /\ UNCHANGED <<untouchedByDispatch, outbox, lease, jobs>>

\* The row keeps its claim and waits for the lease to run out.
SkipRow(d, a) ==
    /\ dpc[d] = "check" /\ a \in batch[d]
    /\ ~(gate[d] /\ CanDispatch(d, a))
    /\ batch' = [batch EXCEPT ![d] = @ \ {a}]
    /\ UNCHANGED <<untouchedByDispatch, outbox, lease, jobs, dpc, row>>

FinishRound(d) ==
    /\ dpc[d] = "check" /\ batch[d] = {}
    /\ dpc' = [dpc EXCEPT ![d] = "loop"]
    /\ UNCHANGED <<untouchedByDispatch, outbox, lease, jobs, batch, row>>

\* An error ends the round; the rows it had left keep their leases.
AbandonRound(d) ==
    /\ dpc' = [dpc EXCEPT ![d] = "loop"]
    /\ batch' = [batch EXCEPT ![d] = {}]
    /\ row' = [row EXCEPT ![d] = NoAttempt]

\* A job of the same key that still waits in the queue absorbs the new one.
SendJob(d) ==
    /\ dpc[d] = "send"
    /\ jobs' = jobs \cup {row[d]}
    /\ dpc' = [dpc EXCEPT ![d] = "mark"]
    /\ UNCHANGED <<untouchedByDispatch, outbox, lease, batch, row>>

\* A failed send may have queued the job or not.
SendFails(d) ==
    /\ "QUEUE" \in Disturbances
    /\ dpc[d] = "send"
    /\ jobs' \in {jobs, jobs \cup {row[d]}}
    /\ AbandonRound(d)
    /\ UNCHANGED <<untouchedByDispatch, outbox, lease>>

MarkEnqueued(d) ==
    /\ dpc[d] = "mark" /\ Holds(d, row[d])
    /\ outbox' = [outbox EXCEPT ![row[d]] = "ENQUEUED"]
    /\ lease' = [lease EXCEPT ![row[d]] = NoHolder]
    /\ row' = [row EXCEPT ![d] = NoAttempt]
    /\ dpc' = [dpc EXCEPT ![d] = "check"]
    /\ UNCHANGED <<untouchedByDispatch, jobs, batch>>

LeaseLost(d) ==
    /\ dpc[d] = "mark" /\ ~Holds(d, row[d])
    /\ AbandonRound(d)
    /\ UNCHANGED <<untouchedByDispatch, outbox, lease, jobs>>

\* A lease outlives a round that goes well; a slow round may lose it.
LeaseExpires(a) ==
    /\ outbox[a] = "CLAIMED" /\ lease[a] # NoHolder
    /\ "SLOW" \in Disturbances \/ a \notin batch[lease[a]] \cup {row[lease[a]]}
    /\ lease' = [lease EXCEPT ![a] = NoHolder]
    /\ UNCHANGED <<untouchedByDispatch, outbox, jobs, dispatching>>

Dispatch(d) ==
    \/ ClaimRows(d)
    \/ ReturnExpired(d)
    \/ \E a \in Attempts : CheckRow(d, a) \/ SkipRow(d, a)
    \/ FinishRound(d)
    \/ SendJob(d)
    \/ SendFails(d)
    \/ MarkEnqueued(d)
    \/ LeaseLost(d)
=============================================================================
