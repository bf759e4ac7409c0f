---------------------------- MODULE AccessProofs ----------------------------
(***************************************************************************)
(* Rights run out, for any users, companies, roles, permissions, tokens    *)
(* and requests.  RightsRunOut is not inductive: that a right was had      *)
(* within AccessTtl ticks holds because it was had at most as many ticks   *)
(* ago as the token is old (Recent), because what is being signed was had  *)
(* when it was read (ReadIsHad), and because the permissions in a token    *)
(* with the wildcard are all of those a route can ask for (Whole).         *)
(***************************************************************************)
EXTENDS Access, TLAPS

(* What a route can ask for.                                               *)
Catalog == AllPermissions \cup Privileged

WholeSet(perms) == Wildcard \in perms => Catalog \cap Watched \subseteq perms

(* A set of permissions with the wildcard has all watched ones.            *)
Whole ==
    /\ \A t \in Tokens : token[t] # None => WholeSet(token[t].perms)
    /\ \A r \in Reqs : req[r].kind = "signing" => WholeSet(req[r].perms)

(* A user has what the account entitles to.                                *)
HadNow == \A u \in Users : \A x \in Entitled(u) : since[u][x] = 0

(* The user a token is being signed for had what goes into it when read.   *)
ReadIsHad ==
    \A r \in Reqs : req[r].kind = "signing" =>
        \A p \in req[r].perms \cup {Member} : <<req[r].company, p>> \in req[r].had

(* What a token says its user had when it was signed.                      *)
Recent ==
    \A t \in Tokens : token[t] # None /\ ~token[t].late =>
        \A p \in token[t].perms \cup {Member} :
            since[token[t].user][<<token[t].company, p>>] <= token[t].age

IInv == TypeOK /\ Whole /\ HadNow /\ ReadIsHad /\ Recent

-----------------------------------------------------------------------------
(* The routes ask for permissions of the catalog only: none is closed to   *)
(* everyone but the holders of the wildcard by a permission nobody has.    *)
LEMMA GuardedNeeds ==
    ASSUME NEW at, NEW acts,
           \A call \in DOMAIN acts : <<at, acts[call]>> \in Catalog
    PROVE  \A route \in Guarded(at, acts) : route.needs \subseteq Catalog
BY DEF Guarded, Route

LEMMA SignedNeeds ==
    ASSUME NEW at, NEW calls
    PROVE  \A route \in Signed(at, calls) : route.needs \subseteq Catalog
BY DEF Signed, Route

LEMMA CrudInCatalog ==
    ASSUME NEW at \in CrudResources,
           NEW act \in {"read", "create", "update", "delete"}
    PROVE  <<at, act>> \in Catalog
BY DEF Catalog, AllPermissions

LEMMA CrudNeeds ==
    ASSUME NEW at \in CrudResources
    PROVE  \A route \in CrudRoutes(at) : route.needs \subseteq Catalog
<1> DEFINE acts == [list |-> "read", getOne |-> "read", exportXlsx |-> "read",
                    create |-> "create", update |-> "update", remove |-> "delete"]
<1>1. \A call \in DOMAIN acts : acts[call] \in {"read", "create", "update", "delete"}
  OBVIOUS
<1>2. \A call \in DOMAIN acts : <<at, acts[call]>> \in Catalog
  BY <1>1, CrudInCatalog
<1> HIDE DEF acts
<1>3. \A route \in Guarded(at, acts) : route.needs \subseteq Catalog
  BY <1>2, GuardedNeeds
<1> QED  BY <1>3 DEF CrudRoutes, acts

(* The crud-like tables name only actions of the four.                     *)
LEMMA CrudLikeNeeds ==
    ASSUME NEW at \in CrudResources, NEW acts,
           \A call \in DOMAIN acts : acts[call] \in {"read", "create", "update", "delete"}
    PROVE  \A route \in Guarded(at, acts) : route.needs \subseteq Catalog
BY CrudInCatalog, GuardedNeeds

LEMMA RouteNeeds ==
    \A route \in Routes : route.needs \subseteq Catalog
<1>1. \A route \in AuthRoutes \cup DeviceRoutes \cup AiRoutes : route.needs \subseteq Catalog
  BY SignedNeeds DEF AuthRoutes, DeviceRoutes, AiRoutes
<1>2. \A route \in UserRoutes : route.needs \subseteq Catalog
  <2> DEFINE acts == [exportUsers |-> "export", importUsers |-> "import",
                      list |-> "read", create |-> "create", getOne |-> "read",
                      update |-> "update", remove |-> "delete",
                      restore |-> "update", resendInvite |-> "update"]
  <2>1. \A call \in DOMAIN acts :
            acts[call] \in {"read", "create", "update", "delete", "import", "export"}
    OBVIOUS
  <2>2. \A act \in {"read", "create", "update", "delete", "import", "export"} :
            <<"user", act>> \in Catalog
    BY DEF Catalog, AllPermissions, CrudResources
  <2>3. <<"role", "assign">> \in Catalog
    BY DEF Catalog, AllPermissions
  <2> HIDE DEF acts
  <2>4. \A route \in Guarded("user", acts) : route.needs \subseteq Catalog
    BY <2>1, <2>2, GuardedNeeds
  <2>5. UserRoutes = Signed("user", {"updateProfile"}) \cup Guarded("user", acts) \cup
                     {Route("user", "assignRoles", {<<"role", "assign">>})}
    BY DEF UserRoutes, acts
  <2> QED  BY <2>3, <2>4, <2>5, SignedNeeds DEF Route
<1>3. \A route \in RoleRoutes : route.needs \subseteq Catalog
  <2> DEFINE acts == [catalog |-> "read", list |-> "read", create |-> "create",
                      getOne |-> "read", update |-> "update", remove |-> "delete"]
  <2>1. \A call \in DOMAIN acts : acts[call] \in {"read", "create", "update", "delete"}
    OBVIOUS
  <2>2. "role" \in CrudResources  BY DEF CrudResources
  <2> HIDE DEF acts
  <2>3. \A route \in Guarded("role", acts) : route.needs \subseteq Catalog
    BY <2>1, <2>2, CrudLikeNeeds
  <2> QED  BY <2>3 DEF RoleRoutes, acts
<1>4. \A route \in CompanyRoutes : route.needs \subseteq Catalog
  <2> DEFINE acts == [list |-> "read", getOne |-> "read",
                      update |-> "update", setLogo |-> "update"]
  <2>1. \A call \in DOMAIN acts : acts[call] \in {"read", "create", "update", "delete"}
    OBVIOUS
  <2>2. "company" \in CrudResources  BY DEF CrudResources
  <2>3. Platform \in Catalog  BY DEF Catalog, Privileged
  <2> HIDE DEF acts
  <2>4. \A route \in Guarded("company", acts) : route.needs \subseteq Catalog
    BY <2>1, <2>2, CrudLikeNeeds
  <2>5. CompanyRoutes = Guarded("company", acts) \cup
            {Route("company", call, {Platform}) :
                call \in {"provision", "archive", "resetAdmin"}}
    BY DEF CompanyRoutes, acts
  <2> QED  BY <2>3, <2>4, <2>5 DEF Route
<1>5. \A route \in UNION {CrudRoutes(at) : at \in HrPrefixes} : route.needs \subseteq Catalog
  <2>1. HrPrefixes \subseteq CrudResources  BY DEF HrPrefixes, CrudResources
  <2> QED  BY <2>1, CrudNeeds
<1>6. \A route \in LeaveRoutes : route.needs \subseteq Catalog
  <2> DEFINE acts == [balance |-> "read"]
  <2>1. \A call \in DOMAIN acts : acts[call] \in {"read", "create", "update", "delete"}
    OBVIOUS
  <2>2. "leave" \in CrudResources  BY DEF CrudResources
  <2> HIDE DEF acts
  <2>3. \A route \in Guarded("leave", acts) : route.needs \subseteq Catalog
    BY <2>1, <2>2, CrudLikeNeeds
  <2> QED  BY <2>3, SignedNeeds DEF LeaveRoutes, acts
<1>7. \A route \in TaskRoutes : route.needs \subseteq Catalog
  <2> DEFINE acts == [addTask |-> "update", setTask |-> "update", dropTask |-> "update"]
  <2>1. \A call \in DOMAIN acts : acts[call] \in {"read", "create", "update", "delete"}
    OBVIOUS
  <2>2. "onboarding" \in CrudResources  BY DEF CrudResources
  <2> HIDE DEF acts
  <2>3. \A route \in Guarded("onboarding", acts) : route.needs \subseteq Catalog
    BY <2>1, <2>2, CrudLikeNeeds
  <2> QED  BY <2>3 DEF TaskRoutes, acts
<1>8. \A route \in DocumentRoutes : route.needs \subseteq Catalog
  <2> DEFINE acts == [list |-> "read", getOne |-> "read", create |-> "create",
                      update |-> "update", remove |-> "delete"]
  <2>1. \A call \in DOMAIN acts : acts[call] \in {"read", "create", "update", "delete"}
    OBVIOUS
  <2>2. "document" \in CrudResources  BY DEF CrudResources
  <2> HIDE DEF acts
  <2>3. \A route \in Guarded("document", acts) : route.needs \subseteq Catalog
    BY <2>1, <2>2, CrudLikeNeeds
  <2> QED  BY <2>3 DEF DocumentRoutes, acts
<1>9. \A route \in NotificationRoutes : route.needs \subseteq Catalog
  <2> DEFINE acts == [list |-> "read", create |-> "create", readAll |-> "update",
                      read |-> "update", remove |-> "delete"]
  <2>1. \A call \in DOMAIN acts : acts[call] \in {"read", "create", "update", "delete"}
    OBVIOUS
  <2>2. "notification" \in CrudResources  BY DEF CrudResources
  <2> HIDE DEF acts
  <2>3. \A route \in Guarded("notification", acts) : route.needs \subseteq Catalog
    BY <2>1, <2>2, CrudLikeNeeds
  <2> QED  BY <2>3 DEF NotificationRoutes, acts
<1>10. \A route \in AuditRoutes : route.needs \subseteq Catalog
  <2> DEFINE acts == [list |-> "read", getOne |-> "read"]
  <2>1. \A call \in DOMAIN acts : acts[call] = "read"
    OBVIOUS
  <2>2. <<"audit", "read">> \in Catalog  BY DEF Catalog, AllPermissions
  <2> HIDE DEF acts
  <2>3. \A route \in Guarded("audit", acts) : route.needs \subseteq Catalog
    BY <2>1, <2>2, GuardedNeeds
  <2> QED  BY <2>3 DEF AuditRoutes, acts
<1> QED
  BY <1>1, <1>2, <1>3, <1>4, <1>5, <1>6, <1>7, <1>8, <1>9, <1>10 DEF Routes

-----------------------------------------------------------------------------
Accounts == [Users -> [present: BOOLEAN, company: Places, roles: SUBSET Roles]]

(* What an account entitles to are rights.                                 *)
LEMMA EntitledAreRights ==
    ASSUME TypeOK, NEW u \in Users
    PROVE  Entitled(u) \subseteq Rights
<1>1. WithPermissions(u) \subseteq Watched  BY DEF WithPermissions
<1>2. account[u].company \in Places  BY DEF TypeOK
<1> QED  BY <1>1, <1>2 DEF Entitled, Rights

(* A user read with the wildcard is read with all of the catalog.          *)
LEMMA ReadIsWhole ==
    ASSUME NEW u PROVE WholeSet(WithPermissions(u))
BY DEF WithPermissions, WholeSet, Expand, Catalog, Privileged, Wildcard, Title

LEMMA HadNowFrame ==
    ASSUME HadNow, UNCHANGED <<account, role, since>>
    PROVE  HadNow'
<1>1. \A u \in Users : Entitled(u)' = Entitled(u)
  BY DEF Entitled, WithPermissions
<1>2. since' = since
  OBVIOUS
<1> QED  BY <1>1, <1>2 DEF HadNow

LEMMA RightsInductionInit == Init => IInv
<1> SUFFICES ASSUME Init PROVE IInv
  OBVIOUS
<1> USE AccessAssumption DEF AccessAssumption
<1>1. account \in Accounts
  BY DEF Init, Accounts
<1>2. role \in [Roles -> SUBSET Watched]
  BY DEF Init
<1>3. since \in [Users -> [Rights -> 0..(AccessTtl + 1)]]
  BY DEF Init
<1>4. TypeOK
  BY <1>1, <1>2, <1>3 DEF Init, TypeOK, Accounts
<1>5. HadNow
  <2> SUFFICES ASSUME NEW u \in Users, NEW x \in Entitled(u)
               PROVE  since[u][x] = 0
    BY DEF HadNow
  <2>1. x \in Rights  BY <1>4, EntitledAreRights
  <2> QED  BY <2>1 DEF Init
<1>6. Whole /\ ReadIsHad /\ Recent
  BY DEF Init, None, Whole, ReadIsHad, Recent
<1> QED  BY <1>4, <1>5, <1>6 DEF IInv

-----------------------------------------------------------------------------
(* Login and refresh put into a token what its user had when read.         *)
LEMMA ReadKeeps ==
    ASSUME IInv, NEW r \in Reqs, NEW u \in Users, Read(r, u)
    PROVE  IInv'
<1> USE DEF IInv
<1>1. PICK q : q = [kind |-> "signing", user |-> u, company |-> account[u].company,
                    perms |-> WithPermissions(u), had |-> Entitled(u)]
  OBVIOUS
<1>2. req' = [req EXCEPT ![r] = q] /\ UNCHANGED <<account, role, token, since>>
  BY <1>1 DEF Read
<1>3. q \in Signing
  <2>1. Entitled(u) \subseteq Rights  BY EntitledAreRights
  <2>2. WithPermissions(u) \subseteq Watched  BY DEF WithPermissions
  <2>3. account[u].company \in Places  BY DEF TypeOK
  <2> QED  BY <1>1, <2>1, <2>2, <2>3 DEF Signing
<1>4. TypeOK'
  BY <1>2, <1>3 DEF TypeOK
<1>5. HadNow'
  BY <1>2, HadNowFrame
<1>6. Recent'
  BY <1>2 DEF Recent
<1>7. WholeSet(q.perms)
  BY <1>1, ReadIsWhole
<1>8. Whole'
  BY <1>2, <1>7 DEF Whole, TypeOK, WholeSet
<1>9. \A p \in q.perms \cup {Member} : <<q.company, p>> \in q.had
  <2>1. account[u].present  BY DEF Read
  <2> QED  BY <1>1, <2>1 DEF Entitled
<1>10. ReadIsHad'
  BY <1>2, <1>9 DEF ReadIsHad, TypeOK
<1> QED  BY <1>4, <1>5, <1>6, <1>8, <1>10

(* A token that is not late copies what its user has.                      *)
LEMMA SignKeeps ==
    ASSUME IInv, NEW r \in Reqs, NEW t \in Tokens, Sign(r, t)
    PROVE  IInv'
<1> USE AccessAssumption DEF IInv, AccessAssumption
<1>1. PICK q : q = req[r]  OBVIOUS
<1>2. q \in Signing
  BY <1>1 DEF Sign, TypeOK, Signing, Call, None
<1>3. PICK k : k = [kind |-> "access", user |-> q.user, company |-> q.company,
                    perms |-> q.perms, age |-> 0,
                    late |-> ~(q.had \subseteq Entitled(q.user))]
  OBVIOUS
<1>4. /\ token' = [token EXCEPT ![t] = k] /\ req' = [req EXCEPT ![r] = None]
      /\ UNCHANGED <<account, role, since>>
  BY <1>1, <1>3 DEF Sign
<1>5. k \in Token
  BY <1>2, <1>3 DEF Signing, Token
<1>6. TypeOK'
  BY <1>4, <1>5 DEF TypeOK
<1>7. HadNow'
  BY <1>4, HadNowFrame
<1>8. ReadIsHad'
  BY <1>4 DEF ReadIsHad, TypeOK, None
<1>9. WholeSet(k.perms)
  BY <1>1, <1>3 DEF Whole, Sign
<1>10. Whole'
  <2>1. \A s \in Tokens : token'[s] # None => WholeSet(token'[s].perms)
    BY <1>4, <1>9 DEF Whole, TypeOK
  <2>2. \A s \in Reqs : req'[s].kind = "signing" => WholeSet(req'[s].perms)
    BY <1>4 DEF Whole, TypeOK, None
  <2> QED  BY <2>1, <2>2 DEF Whole, WholeSet
<1>11. ASSUME ~k.late, NEW p \in k.perms \cup {Member}
       PROVE  since[k.user][<<k.company, p>>] <= k.age
  <2>1. q.had \subseteq Entitled(q.user)  BY <1>3, <1>11
  <2>2. <<q.company, p>> \in q.had
    BY <1>1, <1>3, <1>11 DEF ReadIsHad, Sign
  <2>3. since[q.user][<<q.company, p>>] = 0
    BY <1>2, <2>1, <2>2 DEF HadNow, Signing
  <2> QED  BY <1>3, <2>3
<1>12. Recent'
  BY <1>4, <1>11 DEF Recent, TypeOK
<1> QED  BY <1>6, <1>7, <1>8, <1>10, <1>12

(* Steps that only clear tokens and requests or let a call in.             *)
LEMMA CallKeeps ==
    ASSUME IInv, UNCHANGED <<account, role, since>>,
           \A t \in Tokens : token'[t] \in {token[t], None},
           \A r \in Reqs : req'[r] \in Call \cup {req[r], None},
           DOMAIN token' = Tokens, DOMAIN req' = Reqs,
           token' = [t \in Tokens |-> token'[t]], req' = [r \in Reqs |-> req'[r]]
    PROVE  IInv'
<1> USE DEF IInv
<1>1. TypeOK'
  BY DEF TypeOK
<1>2. HadNow'
  BY HadNowFrame
<1>3. ReadIsHad'
  BY DEF ReadIsHad, Call, None
<1>4. Recent'
  BY DEF Recent
<1>5. Whole'
  BY DEF Whole, WholeSet, Call, None
<1> QED  BY <1>1, <1>2, <1>3, <1>4, <1>5

(* Whatever a change does to accounts and roles, tokens say what was had.  *)
LEMMA ChangeKeeps ==
    ASSUME IInv, NEW r \in Reqs,
           account' \in Accounts, role' \in [Roles -> SUBSET Watched],
           req' = [req EXCEPT ![r] = None],
           since' = [u \in Users |-> [x \in Rights |->
                       IF x \in Entitled(u)' THEN 0 ELSE since[u][x]]],
           token' = token
    PROVE  IInv'
<1> USE AccessAssumption DEF IInv, AccessAssumption
<1>1. TypeOK'
  <2>1. since' \in [Users -> [Rights -> 0..(AccessTtl + 1)]]
    BY DEF TypeOK
  <2>2. req' \in [Reqs -> Signing \cup Call \cup {None}]
    BY DEF TypeOK
  <2> QED  BY <2>1, <2>2 DEF TypeOK, Accounts
<1>2. HadNow'
  <2>1. \A u \in Users : Entitled(u)' \subseteq Rights
    <3> SUFFICES ASSUME NEW u \in Users PROVE Entitled(u)' \subseteq Rights
      OBVIOUS
    <3>1. WithPermissions(u)' \subseteq Watched  BY DEF WithPermissions
    <3>2. account'[u].company \in Places  BY DEF Accounts
    <3> QED  BY <3>1, <3>2 DEF Entitled, Rights
  <2> QED  BY <2>1 DEF HadNow
<1>3. ReadIsHad'
  BY DEF ReadIsHad, TypeOK, None
<1>4. Whole'
  <2>1. \A t \in Tokens : token'[t] # None => WholeSet(token'[t].perms)
    BY DEF Whole, TypeOK
  <2>2. \A s \in Reqs : req'[s].kind = "signing" => WholeSet(req'[s].perms)
    BY DEF Whole, TypeOK, None
  <2> QED  BY <2>1, <2>2 DEF Whole, WholeSet
<1>5. Recent'
  <2> SUFFICES ASSUME NEW t \in Tokens, token[t] # None, ~token[t].late,
                      NEW p \in token[t].perms \cup {Member}
               PROVE  since'[token[t].user][<<token[t].company, p>>] <= token[t].age
    BY DEF Recent
  <2>1. token[t] \in Token  BY DEF TypeOK
  <2>2. <<token[t].company, p>> \in Rights
    BY <2>1 DEF Token, Rights
  <2>3. since[token[t].user][<<token[t].company, p>>] <= token[t].age
    BY DEF Recent
  <2>4. token[t].user \in Users /\ token[t].age \in Nat
    BY <2>1 DEF Token
  <2>5. since'[token[t].user][<<token[t].company, p>>] \in
            {0, since[token[t].user][<<token[t].company, p>>]}
    BY <2>2, <2>4
  <2> QED  BY <2>3, <2>4, <2>5
<1> QED  BY <1>1, <1>2, <1>3, <1>4, <1>5

(* As a token ages, so does what its user lost.                            *)
LEMMA TickKeeps ==
    ASSUME IInv, Tick PROVE IInv'
<1> USE AccessAssumption DEF IInv, AccessAssumption
<1>1. UNCHANGED <<account, role, req>>
  BY DEF Tick
<1>2. ASSUME NEW t \in Tokens, token'[t] # None
      PROVE  /\ token[t] \in Token /\ token[t].age < AccessTtl
             /\ token'[t] = [token[t] EXCEPT !.age = @ + 1]
  <2>1. token'[t] = IF token[t] = None THEN None
                    ELSE IF token[t].age = AccessTtl THEN None
                    ELSE [token[t] EXCEPT !.age = @ + 1]
    BY DEF Tick
  <2>2. token[t] # None /\ token[t].age # AccessTtl
    BY <1>2, <2>1
  <2>3. token[t] \in Token  BY <2>2 DEF TypeOK
  <2>4. token[t].age \in 0..AccessTtl  BY <2>3 DEF Token
  <2> QED  BY <2>1, <2>2, <2>3, <2>4
<1>3. ASSUME NEW t \in Tokens, token'[t] # None
      PROVE  /\ token[t] # None /\ token[t] \in Token /\ token'[t] \in Token
             /\ token'[t].user = token[t].user /\ token'[t].company = token[t].company
             /\ token'[t].perms = token[t].perms /\ token'[t].late = token[t].late
             /\ token[t].age < AccessTtl /\ token'[t].age = token[t].age + 1
  <2>1. PICK k : k = token[t]  OBVIOUS
  <2>2. k \in Token /\ k.age < AccessTtl /\ token'[t] = [k EXCEPT !.age = k.age + 1]
    BY <1>2, <1>3, <2>1
  <2>3. PICK n : n = [k EXCEPT !.age = k.age + 1]  OBVIOUS
  <2>4. /\ n.user = k.user /\ n.company = k.company /\ n.perms = k.perms
        /\ n.late = k.late /\ n.age = k.age + 1 /\ n \in Token
    BY <2>2, <2>3 DEF Token
  <2>5. k # None  BY <2>2 DEF Token, None
  <2> QED  BY <2>1, <2>2, <2>3, <2>4, <2>5
<1>4. \A u \in Users, x \in Rights :
          since'[u][x] = IF x \in Entitled(u) THEN 0
                         ELSE IF since[u][x] > AccessTtl THEN since[u][x]
                         ELSE since[u][x] + 1
  BY DEF Tick
<1>5. since' \in [Users -> [Rights -> 0..(AccessTtl + 1)]]
  BY DEF Tick, TypeOK
<1>6. token' \in [Tokens -> Token \cup {None}]
  BY <1>3 DEF Tick
<1>7. TypeOK'
  BY <1>1, <1>5, <1>6 DEF TypeOK
<1>8. HadNow'
  <2>1. \A u \in Users : Entitled(u)' = Entitled(u)
    BY <1>1 DEF Entitled, WithPermissions
  <2>2. \A u \in Users : Entitled(u) \subseteq Rights
    BY EntitledAreRights
  <2> QED  BY <1>4, <2>1, <2>2 DEF HadNow
<1>9. ReadIsHad'
  BY <1>1 DEF ReadIsHad
<1>10. Whole'
  BY <1>1, <1>3 DEF Whole, WholeSet
<1>11. Recent'
  <2> SUFFICES ASSUME NEW t \in Tokens, token'[t] # None, ~token'[t].late,
                      NEW p \in token'[t].perms \cup {Member}
               PROVE  since'[token'[t].user][<<token'[t].company, p>>] <= token'[t].age
    BY DEF Recent
  <2>1. PICK k : k = token[t]  OBVIOUS
  <2>2. /\ k \in Token /\ k # None /\ ~k.late /\ p \in k.perms \cup {Member}
        /\ k.age < AccessTtl /\ token'[t].age = k.age + 1
        /\ token'[t].user = k.user /\ token'[t].company = k.company
    BY <1>3, <2>1
  <2>3. k.user \in Users /\ k.age \in Nat /\ <<k.company, p>> \in Rights
    BY <2>2 DEF Token, Rights
  <2>4. since[k.user][<<k.company, p>>] <= k.age
    BY <2>1, <2>2 DEF Recent
  <2>5. since[k.user][<<k.company, p>>] \in Nat
    BY <2>3 DEF TypeOK
  <2>6. since'[k.user][<<k.company, p>>] <= k.age + 1
    BY <1>4, <2>2, <2>3, <2>4, <2>5
  <2> QED  BY <2>2, <2>6
<1> QED  BY <1>7, <1>8, <1>9, <1>10, <1>11

(* One of the operations that change rights.                               *)
LEMMA OperationKeeps ==
    ASSUME IInv, NEW r \in Reqs,
           \/ \E u \in Targets :
                 \/ \E roles \in RoleSets : AssignRoles(r, u, roles) \/ Rehire(r, u, roles)
                 \/ \E company \in Places : MoveUser(r, u, company)
                 \/ RemoveUser(r, u)
                 \/ RestoreUser(r, u)
           \/ \E x \in Custom, perms \in Grants : UpdateRole(r, x, perms)
    PROVE  IInv'
<1> USE AccessAssumption DEF IInv, AccessAssumption
<1>1. account \in Accounts /\ role \in [Roles -> SUBSET Watched]
  BY DEF TypeOK, Accounts
<1>2. ASSUME account' \in Accounts, role' \in [Roles -> SUBSET Watched],
             Change(r, account', role')
      PROVE  IInv'
  BY <1>2, ChangeKeeps DEF Change
<1>3. ASSUME NEW u \in Targets, NEW roles \in RoleSets, AssignRoles(r, u, roles)
      PROVE  IInv'
  <2>1. Change(r, [account EXCEPT ![u].roles = roles], role)
    BY <1>3 DEF AssignRoles
  <2>2. account' = [account EXCEPT ![u].roles = roles] /\ role' = role
    BY <2>1 DEF Change
  <2>3. account' \in Accounts  BY <1>1, <2>2 DEF Accounts
  <2> QED  BY <1>1, <1>2, <2>1, <2>2, <2>3
<1>4. ASSUME NEW u \in Targets, NEW company \in Places, MoveUser(r, u, company)
      PROVE  IInv'
  <2>1. Change(r, [account EXCEPT ![u].company = company], role)
    BY <1>4 DEF MoveUser
  <2>2. account' = [account EXCEPT ![u].company = company] /\ role' = role
    BY <2>1 DEF Change
  <2>3. account' \in Accounts  BY <1>1, <2>2 DEF Accounts
  <2> QED  BY <1>1, <1>2, <2>1, <2>2, <2>3
<1>5. ASSUME NEW u \in Targets, RemoveUser(r, u)
      PROVE  IInv'
  <2>1. Change(r, [account EXCEPT ![u].present = FALSE], role)
    BY <1>5 DEF RemoveUser
  <2>2. account' = [account EXCEPT ![u].present = FALSE] /\ role' = role
    BY <2>1 DEF Change
  <2>3. account' \in Accounts
    <3>1. PICK v : v = [account[u] EXCEPT !.present = FALSE]  OBVIOUS
    <3>2. account[u] \in [present: BOOLEAN, company: Places, roles: SUBSET Roles]
      BY <1>1 DEF Accounts
    <3>3. v \in [present: BOOLEAN, company: Places, roles: SUBSET Roles]
      BY <3>1, <3>2
    <3>4. account' = [account EXCEPT ![u] = v]  BY <2>2, <3>1
    <3> QED  BY <1>1, <3>3, <3>4 DEF Accounts
  <2> QED  BY <1>1, <1>2, <2>1, <2>2, <2>3
<1>6. ASSUME NEW u \in Targets, RestoreUser(r, u)
      PROVE  IInv'
  <2>1. Change(r, [account EXCEPT ![u].present = TRUE], role)
    BY <1>6 DEF RestoreUser
  <2>2. account' = [account EXCEPT ![u].present = TRUE] /\ role' = role
    BY <2>1 DEF Change
  <2>3. account' \in Accounts
    <3>1. PICK v : v = [account[u] EXCEPT !.present = TRUE]  OBVIOUS
    <3>2. account[u] \in [present: BOOLEAN, company: Places, roles: SUBSET Roles]
      BY <1>1 DEF Accounts
    <3>3. v \in [present: BOOLEAN, company: Places, roles: SUBSET Roles]
      BY <3>1, <3>2
    <3>4. account' = [account EXCEPT ![u] = v]  BY <2>2, <3>1
    <3> QED  BY <1>1, <3>3, <3>4 DEF Accounts
  <2> QED  BY <1>1, <1>2, <2>1, <2>2, <2>3
<1>8. ASSUME NEW u \in Targets, NEW roles \in RoleSets, Rehire(r, u, roles)
      PROVE  IInv'
  <2>1. PICK v : v = [present |-> TRUE, company |-> account[u].company,
                      roles |-> roles]
    OBVIOUS
  <2>2. Change(r, [account EXCEPT ![u] = v], role)
    BY <1>8, <2>1 DEF Rehire
  <2>3. account' = [account EXCEPT ![u] = v] /\ role' = role
    BY <2>2 DEF Change
  <2>4. v \in [present: BOOLEAN, company: Places, roles: SUBSET Roles]
    BY <1>1, <2>1 DEF Accounts
  <2>5. account' \in Accounts  BY <1>1, <2>3, <2>4 DEF Accounts
  <2> QED  BY <1>1, <1>2, <2>2, <2>3, <2>5
<1>7. ASSUME NEW x \in Custom, NEW perms \in Grants, UpdateRole(r, x, perms)
      PROVE  IInv'
  <2>1. Change(r, account, [role EXCEPT ![x] = perms])
    BY <1>7 DEF UpdateRole
  <2>2. account' = account /\ role' = [role EXCEPT ![x] = perms]
    BY <2>1 DEF Change
  <2>3. role' \in [Roles -> SUBSET Watched]  BY <1>1, <2>2
  <2> QED  BY <1>1, <1>2, <2>1, <2>2, <2>3
<1> QED  BY <1>3, <1>4, <1>5, <1>6, <1>7, <1>8

LEMMA RightsInductionStep == IInv /\ [Next]_vars => IInv'
<1> SUFFICES ASSUME IInv, [Next]_vars PROVE IInv'
  OBVIOUS
<1> USE DEF IInv
<1>1. CASE Tick
  BY <1>1, TickKeeps
<1>2. ASSUME NEW t \in Tokens, Drop(t) PROVE IInv'
  <2>1. token' = [token EXCEPT ![t] = None] /\ UNCHANGED <<account, role, req, since>>
    BY <1>2 DEF Drop
  <2>2. token \in [Tokens -> Token \cup {None}] /\ req \in [Reqs -> Signing \cup Call \cup {None}]
    BY DEF TypeOK
  <2>3. \A x \in Tokens : token'[x] \in {token[x], None}
    BY <2>1, <2>2
  <2>4. /\ DOMAIN token' = Tokens /\ DOMAIN req' = Reqs
        /\ token' = [x \in Tokens |-> token'[x]] /\ req' = [x \in Reqs |-> req'[x]]
    BY <2>1, <2>2
  <2>5. \A x \in Reqs : req'[x] \in Call \cup {req[x], None}
    BY <2>1
  <2> QED  BY <2>1, <2>3, <2>4, <2>5, CallKeeps
<1>3. ASSUME NEW r \in Reqs, End(r) PROVE IInv'
  <2>1. req' = [req EXCEPT ![r] = None] /\ UNCHANGED <<account, role, token, since>>
    BY <1>3 DEF End
  <2>2. token \in [Tokens -> Token \cup {None}] /\ req \in [Reqs -> Signing \cup Call \cup {None}]
    BY DEF TypeOK
  <2>3. \A x \in Reqs : req'[x] \in Call \cup {req[x], None}
    BY <2>1, <2>2
  <2>4. /\ DOMAIN token' = Tokens /\ DOMAIN req' = Reqs
        /\ token' = [x \in Tokens |-> token'[x]] /\ req' = [x \in Reqs |-> req'[x]]
    BY <2>1, <2>2
  <2>5. \A x \in Tokens : token'[x] \in {token[x], None}
    BY <2>1
  <2> QED  BY <2>1, <2>3, <2>4, <2>5, CallKeeps
<1>4. ASSUME NEW r \in Reqs, NEW u \in Users, Read(r, u) PROVE IInv'
  BY <1>4, ReadKeeps
<1>5. ASSUME NEW r \in Reqs, NEW t \in Tokens, Sign(r, t) PROVE IInv'
  BY <1>5, SignKeeps
<1>6. ASSUME NEW r \in Reqs, NEW t \in Tokens, NEW route \in Changing,
             Admit(r, t, route)
      PROVE  IInv'
  <2>1. PICK q : q = [kind |-> "call", route |-> route, actor |-> token[t].user,
                      company |-> token[t].company, super |-> IsSuperAdmin(token[t])]
    OBVIOUS
  <2>2. token[t] \in Token
    BY <1>6 DEF Admit, TypeOK
  <2>3. IsSuperAdmin(token[t]) \in BOOLEAN
    BY DEF IsSuperAdmin
  <2>4. q \in Call
    BY <2>1, <2>2, <2>3 DEF Token, Call
  <2>5. req' = [req EXCEPT ![r] = q] /\ UNCHANGED <<account, role, token, since>>
    BY <1>6, <2>1 DEF Admit
  <2> QED  BY <2>4, <2>5, CallKeeps DEF TypeOK
<1>7. CASE UNCHANGED vars
  BY <1>7, CallKeeps DEF vars, TypeOK
<1> QED
  BY <1>1, <1>2, <1>3, <1>4, <1>5, <1>6, <1>7, OperationKeeps DEF Next

(* What the tokens say, with the catalog of what routes ask for, gives the *)
(* property of the runs.                                                   *)
LEMMA RecentRightsRunOut == IInv => RightsRunOut
<1> SUFFICES ASSUME IInv, NEW t \in Tokens, NEW k, k = token[t], k # None, ~k.late
             PROVE  /\ \A needs \in Asked : Authorize(k, needs) =>
                          \A p \in needs \cup {Member} :
                              since[k.user][<<k.company, p>>] <= AccessTtl
                    /\ \A p \in k.perms \cap Ownership :
                          since[k.user][<<k.company, p>>] <= AccessTtl
  BY DEF RightsRunOut
<1> USE AccessAssumption DEF IInv, AccessAssumption
<1>1. k \in Token  BY DEF TypeOK
<1>2. ASSUME NEW p \in k.perms \cup {Member}
      PROVE  since[k.user][<<k.company, p>>] <= AccessTtl
  <2>1. since[k.user][<<k.company, p>>] <= k.age
    BY <1>2 DEF Recent
  <2>2. k.user \in Users /\ k.age \in 0..AccessTtl /\ <<k.company, p>> \in Rights
    BY <1>1, <1>2 DEF Token, Rights
  <2>3. since[k.user][<<k.company, p>>] \in Nat
    BY <2>2 DEF TypeOK
  <2> QED  BY <2>1, <2>2, <2>3
<1>3. ASSUME NEW needs \in Asked, Authorize(k, needs), NEW p \in needs \cup {Member}
      PROVE  p \in k.perms \cup {Member}
  <2>1. needs \subseteq Catalog \cap Watched
    BY RouteNeeds DEF Asked
  <2> QED
    BY <1>3, <2>1 DEF Authorize, HasPermission, Whole, WholeSet
<1> QED  BY <1>2, <1>3

-----------------------------------------------------------------------------
LEMMA RightsInduction == Spec => []IInv
<1>1. Init => IInv  BY RightsInductionInit
<1>2. IInv /\ [Next]_vars => IInv'  BY RightsInductionStep
<1> QED  BY <1>1, <1>2, PTL DEF Spec

(* Accounts, roles, tokens and requests keep the types of the rows,        *)
(* payloads and contexts they stand for (auth.tokens.js: issueTokens,      *)
(* rotateSession; tenant.js: tenantScope).                                 *)
THEOREM TypeCorrect == Spec => []TypeOK
<1>1. IInv => TypeOK  BY DEF IInv
<1> QED  BY <1>1, RightsInduction, PTL

(* A right withdrawn, and what makes the platform's owner, runs out within *)
(* the life of an access token (rbac.middleware.js: authorize;             *)
(* user.repository.js: #withPermissions; tenant.js: isSuperAdmin; jwt.js:  *)
(* signAccessToken), for any users, roles and permissions; but for the     *)
(* token of a login or refresh that had read the user before.              *)
THEOREM WithdrawnRightsRunOut == Spec => []RightsRunOut
BY RightsInduction, RecentRightsRunOut, PTL
=============================================================================
