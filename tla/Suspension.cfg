SPECIFICATION FairSpec
CONSTANTS
    c1 = c1
    alice = alice
    bob = bob
    root = root
    s1 = s1
    s2 = s2
    Nil = Nil
    Reqs = {r1, r2, r3}
    Companies <- OneCompany
    Accounts <- Three
    Home <- HomeOne
    Supers <- RootOnly
    MfaAccounts <- BobOnly
    OldSids <- TwoOld
    Owner <- OwnerOld
    Ops <- AllOps
    RedisMayFail = TRUE
    MayAbort = TRUE
    MemoryRedis = TRUE
CHECK_DEADLOCK FALSE
INVARIANT TypeOK
INVARIANT FlagFollowsStatus
INVARIANT SuspensionEvictsSessions
PROPERTY SuspendedTenantGetsNoToken
PROPERTY SuspensionTakesHold
