SPECIFICATION Spec
CONSTANTS
    alice = alice
    bob = bob
    root = root
    e1 = e1
    e2 = e2
    Nil = Nil
    Accounts <- Three
    Emails <- TwoEmails
    Email <- EmailShared
    PlatformAdmins <- RootOnly
    MfaAccounts <- AliceOnly
    Reqs = {r1, r2, r3}
    MaxFailed = 2
    LockTicks = 1
    MaxTime = 1
CHECK_DEADLOCK FALSE
SYMMETRY ReqSymmetry
INVARIANT TypeOK
INVARIANT FailuresAreCounted
PROPERTY LockSealsAccount
PROPERTY DisabledAccountStaysOut
