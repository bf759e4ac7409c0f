---------------------------- MODULE MCOnboarding ----------------------------
(* Instances of Onboarding for TLC.                                        *)
EXTENDS Onboarding, TLC

(* Of the bodies, those with 60% stand for all that are not 0% or 100%.    *)
SomeMarks == {0, 60}

(* A fourth request comes only after a creation that went through, and     *)
(* beside ticks, the removal of a task and a PUT that puts the onboarding  *)
(* on hold.                                                                *)
Scenario ==
    LET started == {r \in Calls : ~CallAt(r, "idle")}
        those(op) == {r \in started : call[r].op = op}
    IN  Cardinality(started) = 4 =>
            /\ \A r \in started : call[r].op \in {"create", "tick", "drop", "put"}
            /\ \A r \in those("create") : CallAt(r, "done")
            /\ \A r \in those("put") :
                   call[r].status = "ON_HOLD" /\ call[r].progress = Absent
            /\ Cardinality(those("put")) < 2 /\ Cardinality(those("drop")) < 2

(* Requests are interchangeable, and so are the default tasks.             *)
Interchangeable == Permutations(Calls) \cup Permutations(Seeds)
=============================================================================
