SPECIFICATION Spec
CONSTANTS
    c1 = c1
    c2 = c2
    proxy = proxy
    Clients = {c1, c2}
    Proxy = proxy
    Paths = {hooks}
    Claims <- SomeClaims
    Proxied = TRUE
    Trust = TRUE
    PerMinute = 2
    Minute = 3
    PruneInterval = 3
    NoBucket = NoBucket
    NoWindow = NoWindow
    NoAnswer = NoAnswer
    NoPromise = NoPromise
    MaxTime = 6
    MaxRestarts = 1
INVARIANTS
    TypeOK
    WindowBound
    RetryHonest
    BucketsRecent
PROPERTY
    ImplementsContract
