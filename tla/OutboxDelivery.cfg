CONSTANTS
    Events = {e1}
    MaxJobs = 4
    Concurrency = 2
    MaxFaults = 3
SPECIFICATION OutboxFairSpec
INVARIANTS OutboxTypeOK SentWasDelivered
PROPERTY ImplementsPromise
CHECK_DEADLOCK FALSE
