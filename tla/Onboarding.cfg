SPECIFICATION OnboardingSpec
CONSTANTS
    Seeds = {s1, s2}
    Calls = {r1, r2, r3, r4}
    Marks <- SomeMarks
    Absent = Absent
    NoTask = NoTask
CHECK_DEADLOCK FALSE
CONSTRAINT Scenario
SYMMETRY Interchangeable
INVARIANT OnboardingTypeOK
INVARIANT ChecklistRules
PROPERTY HoldIsKept
