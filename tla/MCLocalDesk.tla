---------------------------- MODULE MCLocalDesk ----------------------------
(* One canary, two pilots, two drafts, and more than one key for what matters. *)
EXTENDS LocalMapsDesk, TLC

CONSTANTS h1, h2

Ask(op, key, pilot, decision, item) ==
    [op |-> op, key |-> key, pilot |-> pilot, decision |-> decision, item |-> item]

\* The owner changes their mind under the one key they have; the operator's route
\* has other keys.
MCReviews == {Ask("canary-review", "owner", 0, "ACCEPTED", 0),
              Ask("canary-review", "owner", 0, "REJECTED", 0),
              Ask("canary-review", "route", 0, "ACCEPTED", 0)}
MCPilots == {Ask("pilot-reschedule", "k", 1, "none", 0),
             Ask("pilot-approve", "owner", 1, "none", 0),
             Ask("pilot-approve", "owner", 2, "none", 0)}
MCReports == {Ask("report-create", "k1", 1, "none", 0),
              Ask("report-create", "k2", 1, "none", 0)}
MCDecisions == {Ask("qc", "k1", 1, "ACCEPT_PARTIAL", 1),
                Ask("qc", "k2", 1, "APPROVED", 1),
                Ask("qc", "k3", 1, "REJECTED", 1),
                Ask("qc", "k4", 1, "APPROVED", 2),
                Ask("qc", "k5", 1, "REJECTED", 2)}
MCReleases == {Ask("publish", "k1", 1, "none", 1),
               Ask("publish", "k2", 1, "none", 2),
               Ask("deliver", "k1", 1, "none", 1),
               Ask("deliver", "k2", 1, "none", 1),
               Ask("acknowledge", "k1", 1, "none", 1),
               Ask("acknowledge", "k2", 1, "none", 1)}

MCRequests == MCReviews \cup MCPilots \cup MCReports \cup MCDecisions
                \cup MCReleases

MCSymmetry == Permutations({h1, h2})
=============================================================================
