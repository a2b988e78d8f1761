\* A day of a prompt whose provider fails at once and for ever; nothing else
\* goes wrong.
SPECIFICATION Spec
CONSTANTS
    t1 = t1
    Targets = {t1}
    Workers = {1}
    Jobs = {1, 2}
    Cadence = 96
    Patience = 0
    RetryLimit = 0
    WebSends = FALSE
    Countable = 9
    MaxFaults = 0
    NoJob = NoJob
CHECK_DEADLOCK FALSE
INVARIANT OutageSettles
