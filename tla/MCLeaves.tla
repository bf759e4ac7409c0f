------------------------------ MODULE MCLeaves ------------------------------
(* Instances of Leaves for TLC: emp reports to mgr, hr to nobody; emp has  *)
(* a leave of one day that awaits approval.                                *)
EXTENDS Leaves, TLC

CONSTANTS emp, mgr, hr, old

Three      == {emp, mgr, hr}
Reports    == [p \in People |-> IF p = emp THEN mgr ELSE Nil]
EmpOnly    == {emp}
HrOnly     == {hr}
OneOld     == {old}
OfEmp      == [l \in OldLeaves |-> emp]
AllOps     == Operations
Bodies     == {"PENDING", "APPROVED"}

(* A behaviour decides, edits and removes the old leave with three         *)
(* requests; or emp applies once beside two decisions; or emp applies      *)
(* twice, for a day or more, beside changes of the policy and its days per *)
(* year, or in and for other calendar years under the policy as it was.    *)
Scenario ==
    LET started == {r \in Reqs : ~At(r, "idle")}
        applied == {r \in started : req[r].op = "apply"}
        others  == {req[r].op : r \in started \ applied}
        given   == [active |-> TRUE, daysPerYear |-> Allowance]
        quiet   == year = 0 /\ policy = given
    IN
    \/ applied = {} /\ quiet
    \/ /\ Cardinality(applied) = 1 /\ quiet
       /\ \A r \in applied : req[r].row.year = 0
       /\ others \subseteq {"APPROVED", "CANCELLED"}
    \/ /\ Cardinality(applied) \in {1, 2} /\ others = {}
       /\ \A r \in applied : req[r].row.days > 0
       /\ \/ policy = given
          \/ year = 0 /\ \A r \in applied : req[r].row.year = 0
       /\ policy.active \/ policy.daysPerYear = Allowance

(* Requests are interchangeable.                                           *)
ReqSymmetry == Permutations(Reqs)
=============================================================================
