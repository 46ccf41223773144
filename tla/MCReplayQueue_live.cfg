SPECIFICATION FairSpec
CONSTANTS
    e1 = e1
    r1 = r1
    r2 = r2
    w1 = w1
    w2 = w2
    NoJob = NoJob
    Events <- OneEvent
    Replays <- OneReplay
    Workers <- TwoWorkers
    EventOf <- SameEvent
    MaxRetries = 1
    RetryDelay = 1
    LeaseTimeout = 1
    MaxRun = 1
    MaxIdle = 1
    MaxStart = 0
    MaxTime = 8
    MaxFaults = 1
PROPERTIES
    EveryReplaySettles
