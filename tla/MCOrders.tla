------------------------------ MODULE MCOrders ------------------------------
(* An order of two questions, one of them asked of Perplexity. *)
EXTENDS OrderPipeline, TLC

CONSTANTS p1, p2, w1, w2, d1, d2

Said(status, amount, rejected) ==
    [status |-> status, cost |-> amount, rejected |-> rejected]

\* A paid answer dearer than estimated, and a request that the provider rejects
\* and does not charge; other failures are the adapter's exceptions.
MCOutcomes == {Said("SUCCEEDED", 2, FALSE), Said("FAILED", NoCost, TRUE)}

MCSymmetry == Permutations({w1, w2}) \cup Permutations({d1, d2})
=============================================================================
