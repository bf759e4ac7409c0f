SPECIFICATION Spec
CONSTANTS
    c1 = c1
    alice = alice
    bob = bob
    root = root
    s1 = s1
    s2 = s2
    Nil = Nil
    Reqs = {r1, r2, r3}
    Companies <- OneCompany
    Accounts <- AliceOnly
    Home <- HomeOne
    Supers <- None
    MfaAccounts <- None
    OldSids <- OneOld
    Owner <- OwnerOld
    Ops <- UpdateOps
    RedisMayFail = FALSE
    MayAbort = FALSE
    MemoryRedis = FALSE
CHECK_DEADLOCK FALSE
INVARIANT SuspensionIsInstant
