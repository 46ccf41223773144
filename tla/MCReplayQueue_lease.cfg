SPECIFICATION Spec
CONSTANTS
    e1 = e1
    r1 = r1
    r2 = r2
    w1 = w1
    w2 = w2
    NoJob = NoJob
    Events <- OneEvent
    Replays <- OneReplay
    Workers <- TwoWorkers
    EventOf <- SameEvent
    MaxRetries = 1
    RetryDelay = 1
    LeaseTimeout = 1
    MaxRun = 1
    MaxIdle = 9
    MaxStart = 0
    MaxTime = 5
    MaxFaults = 2
SYMMETRY Symmetry
INVARIANTS
    LeaseExclusive
    CompletedIffTerminal
    AcceptedOnce
PROPERTIES
    ImplementsContract
