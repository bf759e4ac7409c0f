---------------------------- MODULE MCLoginGate ----------------------------
(* Instances of LoginGate for TLC: alice and bob share an email, alice has *)
(* MFA, root is a platform administrator.                                  *)
EXTENDS LoginGate, TLC

CONSTANTS alice, bob, root, e1, e2

Three       == {alice, bob, root}
TwoEmails   == {e1, e2}
EmailShared == [a \in Accounts |-> IF a = root THEN e2 ELSE e1]
RootOnly    == {root}
AliceOnly   == {alice}

(* Requests are interchangeable.                                           *)
ReqSymmetry == Permutations(Reqs)
=============================================================================
