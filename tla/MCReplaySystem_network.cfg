SPECIFICATION SystemSpec
CONSTANTS
    e1 = e1
    r1 = r1
    w1 = w1
    w2 = w2
    h1 = h1
    public = public
    wrapped = wrapped
    NoJob = NoJob
    NoTarget = NoTarget
    BadUrl = BadUrl
    Events <- OneEvent
    Replays <- OneReplay
    Workers <- TwoWorkers
    EventOf <- SameEvent
    MaxRetries = 1
    RetryDelay = 1
    LeaseTimeout = 0
    MaxRun = 1
    MaxIdle = 9
    MaxStart = 0
    MaxTime = 1
    MaxFaults = 2
    Hosts <- OneHost
    Addresses <- TwoIps
    Answers <- PublicOrNot
    Special <- Wrapped
    Mapped <- Unwrap
    AllowPrivate = FALSE
    AllowRedirects = TRUE
    MaxRedirects = 1
    Statuses <- Codes
    DestinationOf <- ToHost
    Observed = w1
    Followed = r1
VIEW Seen
CHECK_DEADLOCK FALSE
INVARIANTS
    SystemTypeOK
    RequestsBounded
    VerdictEarned
    RetriesUsedUp
PROPERTIES
    AttemptIsDelivery
    SilentOnceSettled
