---------------------------- MODULE MCDirectory ----------------------------
(* Instances of Directory for TLC: bob and eve, of two companies, have one *)
(* email; nobody has the email stray.                                      *)
EXTENDS Directory, TLC

CONSTANTS bob, eve, one, two, near, far, mail, stray, post

Twins == {bob, eve}
Both  == {one, two}
Every == DOMAIN Resource \ {"users"}

Homes    == [i \in Twins \cup Both |-> IF i = eve THEN far ELSE near]
Mail     == [p \in Twins |-> mail]
Tenants  == {near}

Given == [person |-> {bob, mail, stray, Nil}, typed |-> {Typed}, plain |-> {post},
          candidate |-> {one}, department |-> {one, Nil}, label |-> {one, Nil},
          upload |-> {post}]

Few == [kind \in DOMAIN Resource |->
           CASE kind = "users" -> 1 [] kind = "attendance" -> 3 [] OTHER -> 2]

(* The row one is a department or a candidate; which kinds two may be of,  *)
(* by that.                                                                *)
Kindred == [departments |-> {"departments", "designations"},
            candidates  |-> {"interviews"}]

(* The kinds rows and requests are of.                                     *)
KindsOf(i) == ({row[i].kind} \cup {req[r].kind : r \in {q \in Reqs :
                   req[q] # Idle /\ req[q].id = i}}) \ {Nil}

(* A third request comes only beside a department or an onboarding; only   *)
(* two requests for onboardings name a person nobody has.                  *)
Scenario ==
    /\ KindsOf(one) \subseteq DOMAIN Kindred
    /\ \A k \in KindsOf(one) : KindsOf(two) \subseteq Kindred[k]
    /\ begun = MaxBegun =>
           \/ KindsOf(one) = {"departments"} /\ KindsOf(two) = {}
           \/ KindsOf(one) = {} /\ KindsOf(two) = {"onboarding"}
    /\ \A r \in Reqs : req[r] # Idle =>
           \A s \in DOMAIN req[r].body : req[r].body[s] = stray =>
               req[r].kind = "onboarding" /\ begun < MaxBegun

ReqSymmetry == Permutations(Reqs)
=============================================================================
