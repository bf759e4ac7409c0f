SPECIFICATION Spec
CONSTANTS
    alice = alice
    bob = bob
    Nil = Nil
    Accounts <- Two
    Reqs = {r1, r2, r3, r4, r5}
    MayAbort = TRUE
CHECK_DEADLOCK FALSE
CONSTRAINT Scenario
SYMMETRY ReqSymmetry
INVARIANT TypeOK
INVARIANT EnabledSecretWasProved
PROPERTY SecondFactorRequired
PROPERTY ChallengeIsOneTime
