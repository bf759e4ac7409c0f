----------------------------- MODULE MCAccounts -----------------------------
(* Instances of Accounts for TLC: ann has an account as a clerk, bob has   *)
(* none; owner is the seeded SUPER_ADMIN; clerk and aide are roles of the  *)
(* company, and aide is yet to be created.                                 *)
EXTENDS Accounts, TLC

CONSTANTS ann, bob, clerk, aide, owner

Two       == {ann, bob}
AnnOnly   == {ann}
AllRoles  == {clerk, aide, owner}
OwnerOnly == {owner}
ClerkOnly == {clerk}
AideOnly  == {aide}
Scopes    == [x \in Roles |-> IF x = owner THEN "global" ELSE "own"]

NameOps    == {"assign", "make", "raise", "unrole"}
RoleOps    == {"hire", "assign", "raise", "unrole", "remove", "restore"}
MailOps    == {"hire", "remove", "restore", "invite", "forgot", "redeem"}
TokenOps   == {"forgot", "send", "redeem", "status", "remove", "hire"}

(* A behaviour mixes the operations of one of four families: names of      *)
(* roles change in the first only, roles are handed out in the first two.  *)
Scenario ==
    LET used  == {req[r].op : r \in Reqs} \ {Nil}
        given == UNION {req[r].roles : r \in Reqs} IN
    \/ used \subseteq NameOps
    \/ used \subseteq RoleOps /\ \A r \in Reqs : req[r].title = "kept"
    \/ used \subseteq MailOps /\ given = {}
    \/ used \subseteq TokenOps /\ given = {}

(* Requests are interchangeable.                                           *)
ReqSymmetry == Permutations(Reqs)
=============================================================================
