---------------------------- MODULE MCLocalMaps ----------------------------
(* Small grids, one or two processes, and the provider's answers that matter. *)
EXTENDS LocalMapsRuntime, TLC

CONSTANTS p1, p2, w1, w2

Said(event, cost, basis) == [event |-> event, cost |-> cost, basis |-> basis]

\* One answer of every kind that the runtime tells apart.
MCReplies == {Said("FOUND", 1, "actual"), Said("FOUND", 2, "actual"),
              Said("FOUND", 1, "estimated"),
              Said("RETRYABLE", 1, "actual"), Said("RETRYABLE", 0, "actual"),
              Said("RETRYABLE", 2, "estimated"),
              Said("AUTH", 1, "estimated"), Said("OUTCOME_UNKNOWN", 0, "none")}

\* One answer of every way in which a called attempt ends.
MCEndings == {Said("FOUND", 1, "actual"), Said("FOUND", 2, "actual"),
              Said("RETRYABLE", 1, "actual"), Said("AUTH", 1, "estimated"),
              Said("OUTCOME_UNKNOWN", 0, "none")}

\* The answer that measures a slot; a call that fails leaves it in doubt.
MCMeasured == {Said("FOUND", 1, "actual")}

\* The points of a pilot are interchangeable.
MCPoints == Permutations({p1, p2})
=============================================================================
