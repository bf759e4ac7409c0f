------------------------------- MODULE MCMfa -------------------------------
(* Instances of Mfa for TLC.                                               *)
EXTENDS Mfa, Naturals, TLC

CONSTANTS alice, bob

Two == {alice, bob}

(* A behaviour has four requests on two accounts, or five on alice of      *)
(* which none dies.                                                        *)
Scenario ==
    LET used == {r \in Reqs : ~At(r, "idle")} IN
    \/ Cardinality(used) <= 4
    \/ \A r \in used : req[r].who = alice /\ ~At(r, "failed")

(* Requests are interchangeable: safety runs only.                         *)
ReqSymmetry == Permutations(Reqs)
=============================================================================
