SPECIFICATION Spec
CONSTANTS
    h1 = h1
    h2 = h2
    public = public
    private = private
    wrapped = wrapped
    BadUrl = BadUrl
    NoTarget = NoTarget
    Hosts <- TwoHosts
    Addresses <- ThreeIps
    Special <- SpecialIps
    Mapped <- Unwrap
    Destination = h1
    AllowPrivate = FALSE
    AllowRedirects = TRUE
    MaxRedirects = 1
    MaxResponseSize = 2
    MaxBody = 3
    MaxAttempts = 2
    MaxClaims = 3
    Statuses <- Codes
CHECK_DEADLOCK FALSE
INVARIANTS
    TypeOK
    NoBlockedConnection
    SentWhereChecked
    BodyWithinLimit
PROPERTIES
    RejectionIsFinal
