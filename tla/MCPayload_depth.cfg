CONSTANTS
    MaxDepth = 2
    Names = {"id", "token", "0"}
    Secrets = {"token"}
    Items = {"0"}
    Words = {"word", "secret"}
    Private = {"secret"}
    Silent = "silent"
    Unencodable = "unencodable"
    Bodies <- SomeBodies
    MaxDigits = 2
    RawBodies <- SomeRaw
SPECIFICATION Spec
INVARIANT DepthLimited
CHECK_DEADLOCK FALSE
