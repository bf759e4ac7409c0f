SPECIFICATION Spec
CONSTANTS
    emp = emp
    mgr = mgr
    hr = hr
    old = old
    Nil = Nil
    People <- Three
    Manager <- Reports
    Hr <- HrOnly
    Reqs = {r1, r2, r3}
    OldLeaves <- OneOld
    Applicant <- OfEmp
    Allowance = 2
    Allowances = {2, 3}
    MaxDays = 2
    MaxYear = 1
    Enforce = TRUE
    Filers <- EmpOnly
    Filed <- Bodies
    Ops <- AllOps
CHECK_DEADLOCK FALSE
CONSTRAINT Scenario
SYMMETRY ReqSymmetry
INVARIANT TypeOK
INVARIANT AdmittedLeavesFit
INVARIANT OutcomeIsTold
PROPERTY ImplementsWorkflow
PROPERTY DeletedLeaveIsFrozen
