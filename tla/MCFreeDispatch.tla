--------------------------- MODULE MCFreeDispatch ---------------------------
(* Two requests for one project, and two submissions at a time. *)
EXTENDS FreeDispatch, TLC

CONSTANTS r1, r2, s1, s2

MCProject == [r \in Requests |-> "project"]

MCSymmetry == Permutations({s1, s2}) \cup Permutations({r1, r2})
=============================================================================
