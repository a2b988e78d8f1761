\* A prompt with one target and a cadence of an hour: slow providers, one crash,
\* failure or switch, or one job of the web application.
SPECIFICATION Spec
CONSTANTS
    t1 = t1
    Targets = {t1}
    Workers = {1, 2}
    Jobs = {1, 2, 3, 4, 5, 6}
    Cadence = 4
    Patience = 1
    RetryLimit = 1
    WebSends = TRUE
    Countable = 0
    MaxFaults = 1
    NoJob = NoJob
CHECK_DEADLOCK FALSE
INVARIANT OneCycleAtATime
PROPERTY PromptsKeepRunning
