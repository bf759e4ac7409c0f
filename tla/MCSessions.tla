----------------------------- MODULE MCSessions -----------------------------
(* Instances of Sessions for TLC: one user who starts with two sessions.   *)
EXTENDS Sessions

CONSTANTS u1, s1, s2

OneUser  == {u1}
OneOld   == {s1}
TwoOld   == {s1, s2}
OwnerOld == [s \in OldSids |-> u1]

(* Logins come from the client of s1.                                      *)
Clients  == [s \in Sids |-> IF s = s2 THEN "phone" ELSE "laptop"]

TokenOps   == {"login", "refresh", "logout", "kill"}
EvictOps   == {"login", "refresh", "logoutAll", "change", "reset", "invite"}
AccountOps == {"login", "refresh", "remove", "restore", "rehire", "logout"}
DeviceOps  == {"login", "refresh", "removeDevice"}
AllOps     == TokenOps \cup EvictOps \cup AccountOps \cup DeviceOps
LiveOps    == {"refresh", "logout", "logoutAll"}
RefreshOps == {"refresh"}

(* A behaviour mixes the operations of one of four families, and the      *)
(* clock runs as far as the family needs.                                  *)
Scenario ==
    LET used == {req[r].op : r \in Reqs} \ {"none"} IN
    \/ used \subseteq TokenOps
    \/ used \subseteq EvictOps /\ now = 0
    \/ used \subseteq AccountOps /\ now <= 1
    \/ used \subseteq DeviceOps /\ now = 0
=============================================================================
