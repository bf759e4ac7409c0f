------------------------------ MODULE MCAccess ------------------------------
(* An instance of Access for TLC: root owns the platform; bob, of a company, *)
(* is given the duties of an administrator and loses them.                 *)
EXTENDS Access, TLC

CONSTANTS root, bob, near, clerk

Pair    == {root, bob}
One     == {near}
OneRole == {clerk}
Home    == [x \in OneRole |-> near]
Subject == {bob}

Duties == {<<"role", "assign">>, <<"role", "update">>, <<"user", "create">>,
           <<"user", "import">>, <<"user", "update">>, <<"user", "delete">>}
Some   == Ownership \cup Duties
Gifts  == {Duties \cup {Title}, Duties \ {<<"user", "update">>}}
Sets   == {{}, {clerk}}

Seeded == [u \in Pair |->
    IF u = root THEN [company |-> Nil, roles |-> {"SUPER_ADMIN"}]
    ELSE [company |-> near, roles |-> {clerk}]]

(* Each user has one token and signs in without one; only root's calls     *)
(* cross bob's signing in, and imports are bob's, hires, removals and      *)
(* moves root's.                                                           *)
Scenario ==
    /\ \A s, t \in Tokens :
           token[s] # None /\ token[t] # None /\ token[s].user = token[t].user => s = t
    /\ \A r \in Reqs, t \in Tokens :
           req[r].kind = "signing" /\ token[t] # None => req[r].user # token[t].user
    /\ (\A r \in Reqs : req[r] # None) =>
           \E r, q \in Reqs : /\ req[r].kind = "call" /\ req[r].actor = root
                              /\ req[q].kind = "signing" /\ req[q].user = bob
    /\ \A r \in Reqs : req[r].kind = "call" =>
           req[r].actor \in
               CASE req[r].route.call = "importUsers" -> {bob}
                 [] req[r].route.at = "user"
                        /\ req[r].route.call \in {"update", "remove", "create"} -> {root}
                 [] OTHER -> {root, bob}

Swaps == Permutations(Tokens) \cup Permutations(Reqs)
=============================================================================
