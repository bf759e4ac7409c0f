SPECIFICATION Spec
CONSTANTS
    ann = ann
    bob = bob
    clerk = clerk
    aide = aide
    owner = owner
    Nil = Nil
    Users <- Two
    Hired <- AnnOnly
    Roles <- AllRoles
    Scope <- Scopes
    System <- OwnerOnly
    Platform <- OwnerOnly
    Named <- OwnerOnly
    Fresh <- AideOnly
    Given <- ClerkOnly
    Reqs = {r1, r2, r3}
CHECK_DEADLOCK FALSE
CONSTRAINT Scenario
SYMMETRY ReqSymmetry
INVARIANT TypeOK
INVARIANT RemovedRoleIsUnheld
INVARIANT MailedPasswordWorks
INVARIANT HireSparesAccountsInUse
PROPERTY NoEscalation
PROPERTY TokenIsOneTime
