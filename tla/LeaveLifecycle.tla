--------------------------- MODULE LeaveLifecycle ---------------------------
(***************************************************************************)
(* What the approval workflow promises about a leave (leaveWorkflow.js,    *)
(* "PENDING -> approve | reject; cancel restores the balance"): it is      *)
(* decided once, not by its own employee; it can be cancelled until it is  *)
(* rejected or cancelled; a deleted leave is out of the workflow.  A leave *)
(* may leave the workflow: HR edits it, or a write overtakes another one.  *)
(***************************************************************************)
CONSTANTS Leaves, People, Nobody

VARIABLES
    phase,      \* none, PENDING, APPROVED, REJECTED, CANCELLED, off
    owner,      \* the employee of each leave
    decider     \* who decided it last

Init ==
    /\ phase \in [Leaves -> {"none", "PENDING"}]
    /\ owner \in [Leaves -> People \cup {Nobody}]
    /\ decider = [l \in Leaves |-> Nobody]

Becomes(l, p) == phase' = [phase EXCEPT ![l] = p]

(* The status of a new leave is the one in the request body.               *)
File(l) ==
    /\ phase[l] = "none"
    /\ \E p \in {"PENDING", "APPROVED", "REJECTED", "CANCELLED"} : Becomes(l, p)
    /\ \E e \in People : owner' = [owner EXCEPT ![l] = e]
    /\ UNCHANGED decider

Decide(l) ==
    /\ phase[l] = "PENDING"
    /\ \E p \in {"APPROVED", "REJECTED"} : Becomes(l, p)
    /\ \E a \in People \ {owner[l]} : decider' = [decider EXCEPT ![l] = a]
    /\ UNCHANGED owner

Cancel(l) ==
    /\ phase[l] \in {"PENDING", "APPROVED"}
    /\ Becomes(l, "CANCELLED")
    /\ \E a \in People : decider' = [decider EXCEPT ![l] = a]
    /\ UNCHANGED owner

Leave(l) ==
    /\ phase[l] \notin {"none", "off"}
    /\ Becomes(l, "off")
    /\ \E a \in People \cup {Nobody} : decider' = [decider EXCEPT ![l] = a]
    /\ UNCHANGED owner

(* What happens to a leave outside the workflow is not promised.           *)
Outside(l) ==
    /\ phase[l] = "off"
    /\ \E a \in People : decider' = [decider EXCEPT ![l] = a]
    /\ UNCHANGED <<phase, owner>>

Next == \E l \in Leaves :
    File(l) \/ Decide(l) \/ Cancel(l) \/ Leave(l) \/ Outside(l)

Spec == Init /\ [][Next]_<<phase, owner, decider>>
=============================================================================
