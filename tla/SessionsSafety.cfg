SPECIFICATION Spec
CONSTANTS
    u1 = u1
    s1 = s1
    s2 = s2
    NoSid = NoSid
    Nobody = Nobody
    Reqs = {r1, r2, r3}
    Users <- OneUser
    OldSids <- TwoOld
    Owner <- OwnerOld
    ClientOf <- Clients
    AccessTTL = 1
    RefreshTTL = 1
    MaxTime = 2
    Ops <- AllOps
    RedisMayFail = FALSE
    MayAbort = TRUE
CHECK_DEADLOCK FALSE
CONSTRAINT Scenario
INVARIANT LoggedOutTokenStaysRefused
INVARIANT RemovedDeviceIsSignedOut
INVARIANT PasswordChangeEvictsOldSessions
PROPERTY ImplementsLifecycle
PROPERTY DeletedUserGetsNoToken
