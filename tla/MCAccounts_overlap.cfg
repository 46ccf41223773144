SPECIFICATION Spec
CONSTANTS
    u1 = u1
    u2 = u2
    u3 = u3
    s1 = s1
    s2 = s2
    c1 = c1
    c2 = c2
    old = old
    new = new
    Nobody = Nobody
    NoSession = NoSession
    NoPassword = NoPassword
    Users <- ThreeUsers
    NameOf <- Names
    Passwords <- TwoPasswords
    Sessions <- TwoSessions
    Clients <- TwoClients
    MaxRestarts = 1
CHECK_DEADLOCK FALSE
SYMMETRY Symmetry
INVARIANTS
    TypeOK
    StaleSessionExcused
    LastUserStays
