SPECIFICATION FairSpec
CONSTANTS
    u1 = u1
    s1 = s1
    s2 = s2
    NoSid = NoSid
    Nobody = Nobody
    Reqs = {r1, r2, r3}
    Users <- OneUser
    OldSids <- TwoOld
    Owner <- OwnerOld
    ClientOf <- Clients
    AccessTTL = 1
    RefreshTTL = 2
    MaxTime = 1
    Ops <- LiveOps
    RedisMayFail = TRUE
    MayAbort = TRUE
CHECK_DEADLOCK FALSE
PROPERTY ReuseEndsAllSessions
PROPERTY RevocationTakesEffect
