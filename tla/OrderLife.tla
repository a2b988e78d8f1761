----------------------------- MODULE OrderLife ------------------------------
(***************************************************************************)
(* The life of a commercial measurement order as the operator and the      *)
(* client are told it: approved once, measured, reviewed, published,       *)
(* delivered.  It can be cancelled at any point and is never revived.      *)
(***************************************************************************)
EXTENDS Naturals

CONSTANT Questions  \* the paid questions of the order

VARIABLES
    order,      \* sv_orders.status
    answers,    \* provider calls made for each question so far
    signed      \* the QC record that counts as the latest one approves

Statuses == {"PAID_REVIEW_REQUIRED", "QUEUED", "QC_REQUIRED", "READY",
             "DELIVERED", "CANCELLED"}

Init ==
    /\ order = "PAID_REVIEW_REQUIRED" /\ ~signed
    /\ answers = [q \in Questions |-> 0]

Approve ==
    /\ order = "PAID_REVIEW_REQUIRED" /\ order' = "QUEUED"
    /\ UNCHANGED <<answers, signed>>

\* A call already under way may outlive a cancellation, but none is made for an
\* order that nobody approved or whose measurement is over, and no question is
\* asked twice.
Measure ==
    /\ order \in {"QUEUED", "CANCELLED"}
    /\ \E q \in Questions : answers[q] = 0 /\ answers' = [answers EXCEPT ![q] = 1]
    /\ UNCHANGED <<order, signed>>

Review ==
    /\ order = "QUEUED" /\ order' = "QC_REQUIRED"
    /\ UNCHANGED <<answers, signed>>

\* Only what was measured can be published.  The approval that publishes may be
\* older than a rejection already on file: then it is published unsigned, and
\* cannot be delivered until it is signed again.
Publish ==
    /\ order = "QC_REQUIRED" /\ \E q \in Questions : answers[q] > 0
    /\ order' = "READY" /\ signed' \in {TRUE, signed}
    /\ UNCHANGED answers

\* A later decision about a published order moves the signature, not the order.
SignAgain ==
    /\ order = "READY" /\ signed'
    /\ UNCHANGED <<order, answers>>

Reject ==
    /\ ~signed'
    /\ UNCHANGED <<order, answers>>

Deliver ==
    /\ order = "READY" /\ signed /\ order' = "DELIVERED"
    /\ UNCHANGED <<answers, signed>>

Cancel ==
    /\ order # "CANCELLED" /\ order' = "CANCELLED"
    /\ signed' \in {signed, FALSE}
    /\ UNCHANGED answers

Next == Approve \/ Measure \/ Review \/ Publish
        \/ SignAgain \/ Reject \/ Deliver \/ Cancel

Spec == Init /\ [][Next]_<<order, answers, signed>>
=============================================================================
