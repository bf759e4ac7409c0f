------------------------- MODULE MCTenantSuspension -------------------------
(* Instances of TenantSuspension for TLC: company c1 with alice, who has a *)
(* session, bob, who logs in with MFA, and root, a platform owner.         *)
EXTENDS TenantSuspension

CONSTANTS c1, alice, bob, root, s1, s2

OneCompany == {c1}
Three      == {alice, bob, root}
AliceOnly  == {alice}
BobOnly    == {bob}
RootOnly   == {root}
HomeOne    == [a \in Accounts |-> c1]
OneOld     == {s1}
TwoOld     == {s1, s2}
OwnerOld   == [s \in OldSids |-> IF s = s1 THEN alice ELSE root]
None       == {}

AllOps     == Operations
UpdateOps  == {"update"}
=============================================================================
