SPECIFICATION Spec
CONSTANTS
    p1 = p1
    p2 = p2
    e1 = e1
    e2 = e2
    a1 = a1
    a2 = a2
    github = github
    stripe = stripe
    s1 = s1
    NoSecret = NoSecret
    Unborn = Unborn
    Deleted = Deleted
    Nothing = Nothing
    Endpoints <- OneEndpoint
    Events <- OneEvent
    Admins <- TwoAdmins
    Paths <- TwoPaths
    Secrets <- OneSecret
    Creds <- Signed
    Overrides <- SomeDays
    Defaults <- DefaultDays
    NewDocs <- SomeDocs
    Patches <- SomePatches
    Forms <- SomeForms
    MaxTime = 1
    MaxRestarts = 1
CHECK_DEADLOCK FALSE
SYMMETRY Symmetry
INVARIANTS
    TypeOK
    ExpiryAgrees
    FailsClosed
    StrandedOnlyByOverlap
