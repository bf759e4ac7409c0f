SPECIFICATION Spec
CONSTANTS
    bob = bob
    eve = eve
    one = one
    two = two
    near = near
    far = far
    mail = mail
    post = post
    stray = stray
    Nil = Nil
    Typed = Typed
    People <- Twins
    Staff <- Twins
    Rows <- Both
    Kinds <- Every
    Home <- Homes
    Email <- Mail
    Callers <- Tenants
    Texts <- Given
    Reqs = {r1, r2}
    MaxRefs <- Few
    MaxName = 1
    MaxBegun = 3
CHECK_DEADLOCK FALSE
CONSTRAINT Scenario
SYMMETRY ReqSymmetry
INVARIANT TypeOK
INVARIANT SnapshotsWereTrue
INVARIANT HeadIsMember
PROPERTY OwnBuddyIsRefused
PROPERTY RemovedStaysRemoved
