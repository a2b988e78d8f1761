----------------------------- MODULE SpendBook -----------------------------
(***************************************************************************)
(* The arithmetic of one scope of the provider spend ledger, the table     *)
(* sv_provider_spend_reservations of migration 0062.  A book is two        *)
(* functions over the request keys: the status of the row a key has and    *)
(* the amount it was settled at.  Amounts are whole units; the callers say *)
(* what a unit is.                                                         *)
(***************************************************************************)
EXTENDS Naturals, Functions

RowStatus == {"NONE", "RESERVED", "SETTLED", "RELEASED"}

\* A row that was reserved keeps its estimate in the total until it is settled
\* at its actual cost or given back; a key without a row weighs nothing.
Weight(status, estimate, actual) ==
    CASE status = "RESERVED" -> estimate
      [] status = "SETTLED"  -> actual
      [] OTHER               -> 0

\* What the scope has committed: money spent plus money promised.
Committed(row, estimate, actual) ==
    SumFunction([k \in DOMAIN row |-> Weight(row[k], estimate[k], actual[k])])

\* The part of the settled money that no reservation announced.
Overrun(row, estimate, actual) ==
    SumFunction([k \in DOMAIN row |->
                    IF row[k] = "SETTLED" /\ actual[k] > estimate[k]
                    THEN actual[k] - estimate[k] ELSE 0])
=============================================================================
