SPECIFICATION Spec
CONSTANTS
    u1 = u1
    s1 = s1
    s2 = s2
    NoSid = NoSid
    Nobody = Nobody
    Reqs = {r1, r2}
    Users <- OneUser
    OldSids <- OneOld
    Owner <- OwnerOld
    ClientOf <- Clients
    AccessTTL = 1
    RefreshTTL = 1
    MaxTime = 1
    Ops <- RefreshOps
    RedisMayFail = FALSE
    MayAbort = FALSE
CHECK_DEADLOCK FALSE
INVARIANT SpentTokenIsInvalid
