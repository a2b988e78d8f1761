------------------------------ MODULE PaidCall ------------------------------
(***************************************************************************)
(* What the product promises of one paid provider call, whoever makes it   *)
(* and however often its job is delivered: money is promised before the    *)
(* call, the call is made at most once, and a promise is given back only   *)
(* if the call was never made.  The Local Maps runtime implements it for   *)
(* each attempt, the order pipeline for each permit.                       *)
(***************************************************************************)
EXTENDS Naturals

VARIABLES
    money,      \* the ledger row of the call: a SpendBook RowStatus
    calls       \* how often the provider was called

Init == money = "NONE" /\ calls = 0

Promise ==
    /\ money = "NONE" /\ money' = "RESERVED"
    /\ UNCHANGED calls

Call ==
    /\ money = "RESERVED" /\ calls = 0
    /\ calls' = 1
    /\ UNCHANGED money

\* At its reported cost or at the estimate; also when nobody knows whether the
\* provider was reached.
Settle ==
    /\ money = "RESERVED" /\ money' = "SETTLED"
    /\ UNCHANGED calls

GiveBack ==
    /\ money = "RESERVED" /\ calls = 0
    /\ money' = "RELEASED"
    /\ UNCHANGED calls

Next == Promise \/ Call \/ Settle \/ GiveBack

\* What one step of a system may do to this call.
Step == [Next]_<<money, calls>>

Spec == Init /\ [][Next]_<<money, calls>>
=============================================================================
