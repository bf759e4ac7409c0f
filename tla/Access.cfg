SPECIFICATION Spec
CONSTANTS
    root = root
    bob = bob
    near = near
    clerk = clerk
    Nil = Nil
    Users <- Pair
    Companies <- One
    Custom <- OneRole
    HomeOf <- Home
    Watched <- Some
    Grants <- Gifts
    RoleSets <- Sets
    Targets <- Subject
    Start <- Seeded
    Tokens = {t1, t2}
    Reqs = {r1, r2}
    AccessTtl = 1
CONSTRAINT Scenario
SYMMETRY Swaps
INVARIANT RightsRunOut
