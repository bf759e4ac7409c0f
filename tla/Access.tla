------------------------------- MODULE Access -------------------------------
(***************************************************************************)
(* Who may call what, and until when.  An access token carries its user's  *)
(* company and a flattened snapshot of permissions (permissions.js: checks *)
(* are "O(1) and DB-free per request"), so a change of roles, of a role's  *)
(* permissions, of the company or of the account reaches a user's requests *)
(* only with the next login or refresh.  This module is the rights, the    *)
(* tokens that copy them, and the routes that read the copies.             *)
(*                                                                         *)
(* That sessions are revoked and tokens blacklisted is module Sessions,    *)
(* suspended companies module TenantSuspension, the steps inside a change  *)
(* of roles module Accounts; here each is one step.  A permission is a     *)
(* pair <<resource, action>>; the name SUPER_ADMIN, which makes platform   *)
(* owners like two of the permissions, is one more of what a role gives.   *)
(* All but the Watched ones are left out, and so are a user's extra        *)
(* permissions, which no route sets.                                       *)
(***************************************************************************)
EXTENDS Naturals, FiniteSets

CONSTANTS
    Users,
    Companies,
    Custom,         \* roles that are not seeded
    HomeOf,         \* the company of each of them; Nil is the platform
    Watched,        \* the permissions the instance tells apart, and Title
    Grants,         \* what a custom role may be made to give
    RoleSets,       \* sets of roles a user may be assigned
    Targets,        \* users whose account or roles are changed
    Start,          \* of each user: company and roles at the start
    Tokens,         \* bound: access tokens there are at a time
    Reqs,           \* bound: requests under way at a time
    AccessTtl,      \* ticks an access token lives
    Nil

-----------------------------------------------------------------------------
(* permissions.js.                                                         *)
CrudResources ==
    {"user", "role", "employee", "department", "designation", "attendance",
     "leave", "leaveType", "holiday", "payroll", "job", "candidate",
     "interview", "onboarding", "performance", "goal", "course", "asset",
     "expense", "ticket", "document", "notification", "company"}

AllPermissions ==
    (CrudResources \X {"read", "create", "update", "delete"}) \cup
    {<<"user", "import">>, <<"user", "export">>, <<"role", "assign">>,
     <<"org", "manage">>, <<"org", "read">>, <<"audit", "read">>,
     <<"settings", "manage">>}

Wildcard     == <<"*", "*">>
Platform     == <<"platform", "manage">>
Privileged   == {Wildcard, Platform}

Title     == <<"named", "SUPER_ADMIN">>     \* the name of the role
Ownership == Privileged \cup {Title}

SystemRole ==
    [SUPER_ADMIN |-> {Wildcard, Title},
     ADMIN       |-> AllPermissions,
     HR          |-> {p \in AllPermissions :
                        p[1] \notin {"role", "company"} /\ p # <<"audit", "read">>},
     MANAGER     |-> {p \in AllPermissions : p[2] = "read"},
     EMPLOYEE    |-> {<<"employee", "read">>, <<"attendance", "read">>,
                      <<"leave", "read">>, <<"notification", "read">>}]

Expand(perms) ==
    perms \cup (IF Wildcard \in perms THEN AllPermissions \cup Privileged ELSE {})

-----------------------------------------------------------------------------
(* The routes behind a token, and the permissions each asks for.           *)
Route(at, call, needs) == [at |-> at, call |-> call, needs |-> needs]

(* Those that only ask for a token.                                        *)
Signed(at, calls) == {Route(at, call, {}) : call \in calls}

(* Those that ask for a permission on the resource: call |-> action.       *)
Guarded(at, acts) ==
    {Route(at, call, {<<at, acts[call]>>}) : call \in DOMAIN acts}

AuthRoutes ==
    Signed("auth", {"me", "logout", "logoutAll", "changePassword",
                    "sendVerification", "setupMfa", "enableMfa", "disableMfa"})

DeviceRoutes ==
    Signed("auth", {"listSessions", "revokeSessionById", "listDevices",
                    "trustDevice", "removeDevice"})

UserRoutes ==
    Signed("user", {"updateProfile"}) \cup
    Guarded("user", [exportUsers |-> "export", importUsers |-> "import",
                     list |-> "read", create |-> "create", getOne |-> "read",
                     update |-> "update", remove |-> "delete",
                     restore |-> "update", resendInvite |-> "update"]) \cup
    {Route("user", "assignRoles", {<<"role", "assign">>})}

RoleRoutes ==
    Guarded("role", [catalog |-> "read", list |-> "read", create |-> "create",
                     getOne |-> "read", update |-> "update", remove |-> "delete"])

CompanyRoutes ==
    Guarded("company", [list |-> "read", getOne |-> "read",
                        update |-> "update", setLogo |-> "update"]) \cup
    {Route("company", call, {Platform}) :
        call \in {"provision", "archive", "resetAdmin"}}

(* The five endpoints of the CRUD factory, and the export.                 *)
CrudRoutes(at) ==
    Guarded(at, [list |-> "read", getOne |-> "read", exportXlsx |-> "read",
                 create |-> "create", update |-> "update", remove |-> "delete"])

LeaveRoutes ==
    Guarded("leave", [balance |-> "read"]) \cup
    Signed("leave", {"pendingApproval", "approve", "reject", "cancel"})

TaskRoutes ==
    Guarded("onboarding", [addTask |-> "update", setTask |-> "update",
                           dropTask |-> "update"])

DocumentRoutes ==
    Guarded("document", [list |-> "read", getOne |-> "read", create |-> "create",
                         update |-> "update", remove |-> "delete"])

NotificationRoutes ==
    Guarded("notification", [list |-> "read", create |-> "create",
                             readAll |-> "update", read |-> "update",
                             remove |-> "delete"])

AuditRoutes == Guarded("audit", [list |-> "read", getOne |-> "read"])

AiRoutes ==
    Signed("ai", {"status", "chat", "generateJd", "screenResume", "summarize"})

HrPrefixes ==
    {"department", "designation", "attendance", "leave", "leaveType", "holiday",
     "payroll", "job", "candidate", "interview", "onboarding", "performance",
     "goal", "course", "asset", "expense", "ticket"}

Routes ==
    AuthRoutes \cup DeviceRoutes \cup UserRoutes \cup RoleRoutes \cup
    CompanyRoutes \cup (UNION {CrudRoutes(at) : at \in HrPrefixes}) \cup
    LeaveRoutes \cup TaskRoutes \cup DocumentRoutes \cup NotificationRoutes \cup
    AuditRoutes \cup AiRoutes

-----------------------------------------------------------------------------
(* What routes ask for, as far as it is watched.                           *)
Asked == {route.needs : route \in {x \in Routes : x.needs \subseteq Watched}}

(* The routes that change rights.                                          *)
Changing ==
    {route \in Routes : <<route.at, route.call>> \in
        {<<"user", "assignRoles">>, <<"role", "update">>, <<"user", "update">>,
         <<"user", "remove">>, <<"user", "restore">>, <<"user", "create">>,
         <<"user", "importUsers">>}}

-----------------------------------------------------------------------------
VARIABLES
    account,    \* rows of "users", with their roles
    role,       \* what each role gives
    token,      \* the access tokens that would pass authenticate
    req,
    (* History.                                                            *)
    since       \* ticks since a user last had a right

vars == <<account, role, token, req, since>>

Roles  == DOMAIN SystemRole \cup Custom
Places == Companies \cup {Nil}          \* Nil: the platform
Member == <<"signed", "in">>            \* the right to have an account
Rights == Places \X (Watched \cup {Member})

ASSUME AccessAssumption ==
    /\ Custom \cap DOMAIN SystemRole = {}
    /\ HomeOf \in [Custom -> Places]
    /\ Ownership \subseteq Watched /\ Member \notin Watched
    /\ Grants \subseteq SUBSET Watched /\ RoleSets \subseteq SUBSET Roles
    /\ Targets \subseteq Users
    /\ Start \in [Users -> [company: Places, roles: SUBSET Roles]]
    /\ AccessTtl \in Nat \ {0}
    /\ Nil \notin Companies

None == [kind |-> "none"]

Token == [kind: {"access"}, user: Users, company: Places,
          perms: SUBSET Watched, age: 0..AccessTtl, late: BOOLEAN]

(* had: what the user was entitled to when read (history).                 *)
Signing == [kind: {"signing"}, user: Users, company: Places,
            perms: SUBSET Watched, had: SUBSET Rights]

Call == [kind: {"call"}, route: Changing, actor: Users, company: Places,
         super: BOOLEAN]

(* Accounts, roles, tokens and requests have the types of the rows,        *)
(* payloads and contexts they stand for.                                   *)
TypeOK ==
    /\ account \in [Users -> [present: BOOLEAN, company: Places,
                              roles: SUBSET Roles]]
    /\ role \in [Roles -> SUBSET Watched]
    /\ token \in [Tokens -> Token \cup {None}]
    /\ req \in [Reqs -> Signing \cup Call \cup {None}]
    /\ since \in [Users -> [Rights -> 0..(AccessTtl + 1)]]

(* #withPermissions: what all roles give, the wildcard expanded.           *)
WithPermissions(u) ==
    Expand(UNION {role[x] : x \in account[u].roles}) \cap Watched

(* What the account of u entitles to at this moment.                       *)
Entitled(u) ==
    IF account[u].present
    THEN {account[u].company} \X (WithPermissions(u) \cup {Member})
    ELSE {}

Init ==
    /\ account = [u \in Users |-> [present |-> TRUE, company |-> Start[u].company,
                                   roles |-> Start[u].roles]]
    /\ role = [x \in Roles |-> IF x \in Custom THEN {}
                               ELSE SystemRole[x] \cap Watched]
    /\ token = [t \in Tokens |-> None]
    /\ req = [r \in Reqs |-> None]
    /\ since = [u \in Users |-> LET mine == Entitled(u) IN
                  [x \in Rights |-> IF x \in mine THEN 0 ELSE AccessTtl + 1]]

-----------------------------------------------------------------------------
(* Mutation: removed accounts are read like the others.                    *)
ReadRemoved(r, u) ==
    /\ req[r] = None
    /\ req' = [req EXCEPT ![r] =
          [kind |-> "signing", user |-> u, company |-> account[u].company,
           perms |-> WithPermissions(u), had |-> Entitled(u)]]
    /\ UNCHANGED <<account, role, token, since>>

(* Login and refresh: the user is read with permissions, and the rest of   *)
(* the handler works on what was read.                                     *)
Read(r, u) ==
    /\ req[r] = None /\ account[u].present
    /\ req' = [req EXCEPT ![r] =
          [kind |-> "signing", user |-> u, company |-> account[u].company,
           perms |-> WithPermissions(u), had |-> Entitled(u)]]
    /\ UNCHANGED <<account, role, token, since>>

(* issueTokens, rotateSession.  The token is late if some of what its user *)
(* had when read is withdrawn by now.                                      *)
Sign(r, t) ==
    LET q == req[r] IN
    /\ q.kind = "signing" /\ token[t] = None
    /\ token' = [token EXCEPT ![t] =
          [kind |-> "access", user |-> q.user, company |-> q.company,
           perms |-> q.perms, age |-> 0,
           late |-> ~(q.had \subseteq Entitled(q.user))]]
    /\ req' = [req EXCEPT ![r] = None]
    /\ UNCHANGED <<account, role, since>>

(* The token is blacklisted, or its client lets it go.                     *)
Drop(t) ==
    /\ token[t] # None
    /\ token' = [token EXCEPT ![t] = None]
    /\ UNCHANGED <<account, role, req, since>>

-----------------------------------------------------------------------------
(* authorize: the snapshot has every permission asked for.                 *)
HasPermission(k, p) == Wildcard \in k.perms \/ p \in k.perms

Authorize(k, needs) == \A p \in needs : HasPermission(k, p)

IsSuperAdmin(k) == k.perms \cap Ownership # {}

(* A call is let in with what its token says, and works on with that.      *)
Admit(r, t, route) ==
    /\ req[r] = None /\ token[t] # None
    /\ Authorize(token[t], route.needs)
    /\ req' = [req EXCEPT ![r] =
          [kind |-> "call", route |-> route, actor |-> token[t].user,
           company |-> token[t].company, super |-> IsSuperAdmin(token[t])]]
    /\ UNCHANGED <<account, role, token, since>>

Runs(r, at, call) ==
    req[r].kind = "call" /\ req[r].route.at = at /\ req[r].route.call = call

(* tenantWhere.                                                            *)
InScope(q, u) == q.super \/ account[u].company = q.company

(* A change of rights takes effect in the database.                        *)
Change(r, accounts, roles) ==
    /\ account' = accounts /\ role' = roles
    /\ req' = [req EXCEPT ![r] = None]
    /\ since' = [u \in Users |-> LET mine == Entitled(u)' IN
                   [x \in Rights |-> IF x \in mine THEN 0 ELSE since[u][x]]]
    /\ UNCHANGED token

(* isPrivilegedRole, which looks at permissions only.                      *)
IsPrivileged(x) == role[x] \cap Privileged # {}

(* assertRolesExist: roles of the platform and of the company; of any      *)
(* company for a user of none.                                             *)
RolesExist(roles, company) ==
    \A x \in roles \cap Custom : company = Nil \/ HomeOf[x] \in {Nil, company}

AssertAssignable(q, roles) == q.super \/ \A x \in roles : ~IsPrivileged(x)

(* PUT /users/:id/roles.                                                   *)
AssignRoles(r, u, roles) ==
    /\ Runs(r, "user", "assignRoles")
    /\ account[u].present /\ InScope(req[r], u)
    /\ RolesExist(roles, account[u].company) /\ AssertAssignable(req[r], roles)
    /\ Change(r, [account EXCEPT ![u].roles = roles], role)

(* POST /users for the email of a removed account, and a row of a bulk     *)
(* import: the account is taken up again, with the roles of the body.      *)
Rehire(r, u, roles) ==
    LET q == req[r]
        home == account[u].company
    IN
    /\ ~account[u].present
    /\ \/ Runs(r, "user", "create") /\ (home = q.company \/ (q.super /\ home # Nil))
       \/ Runs(r, "user", "importUsers") /\ home = q.company /\ home # Nil /\ roles = {}
    /\ RolesExist(roles, home) /\ AssertAssignable(q, roles)
    /\ Change(r, [account EXCEPT ![u] =
                     [present |-> TRUE, company |-> home, roles |-> roles]], role)

(* PUT /roles/:id with permissions or a name, of which only its being      *)
(* taken in the company is checked.  System roles cannot be modified.      *)
UpdateRole(r, x, perms) ==
    /\ Runs(r, "role", "update")
    /\ req[r].super \/ (HomeOf[x] = req[r].company /\ ~IsPrivileged(x))
    /\ req[r].super \/ perms \cap Privileged = {}
    /\ Title \in perms /\ HomeOf[x] # Nil =>
          \A y \in Custom \ {x} : HomeOf[y] = HomeOf[x] => Title \notin role[y]
    /\ Change(r, account, [role EXCEPT ![x] = perms])

(* PUT /users/:id with a companyId, which counts only from the platform.   *)
MoveUser(r, u, company) ==
    /\ Runs(r, "user", "update") /\ req[r].super
    /\ account[u].present
    /\ Change(r, [account EXCEPT ![u].company = company], role)

(* DELETE /users/:id, never the caller's own.                              *)
RemoveUser(r, u) ==
    /\ Runs(r, "user", "remove")
    /\ account[u].present /\ InScope(req[r], u) /\ u # req[r].actor
    /\ Change(r, [account EXCEPT ![u].present = FALSE], role)

(* POST /users/:id/restore.                                                *)
RestoreUser(r, u) ==
    /\ Runs(r, "user", "restore")
    /\ ~account[u].present /\ InScope(req[r], u)
    /\ Change(r, [account EXCEPT ![u].present = TRUE], role)

(* The handler ends without a change.                                      *)
End(r) ==
    /\ req[r] # None
    /\ req' = [req EXCEPT ![r] = None]
    /\ UNCHANGED <<account, role, token, since>>

(* Time passes; a token is good for AccessTtl ticks.                       *)
Tick ==
    /\ token' = [t \in Tokens |->
          IF token[t] = None THEN None
          ELSE IF token[t].age = AccessTtl THEN None
          ELSE [token[t] EXCEPT !.age = @ + 1]]
    /\ since' = [u \in Users |-> LET mine == Entitled(u) IN
          [x \in Rights |-> IF x \in mine THEN 0
                            ELSE IF since[u][x] > AccessTtl THEN since[u][x]
                            ELSE since[u][x] + 1]]
    /\ UNCHANGED <<account, role, req>>

Next ==
    \/ Tick
    \/ \E t \in Tokens : Drop(t)
    \/ \E r \in Reqs :
          \/ End(r)
          \/ \E u \in Users : Read(r, u)
          \/ \E t \in Tokens :
                \/ Sign(r, t)
                \/ \E route \in Changing : Admit(r, t, route)
          \/ \E u \in Targets :
                \/ \E roles \in RoleSets : AssignRoles(r, u, roles) \/ Rehire(r, u, roles)
                \/ \E company \in Places : MoveUser(r, u, company)
                \/ RemoveUser(r, u)
                \/ RestoreUser(r, u)
          \/ \E x \in Custom, perms \in Grants : UpdateRole(r, x, perms)

Spec == Init /\ [][Next]_vars

-----------------------------------------------------------------------------
(* A right withdrawn runs out ("Access token: short-lived, carries         *)
(* identity + a permission snapshot", jwt.js:7): no route lets a token in  *)
(* unless its user had, in the company the token names, an account and     *)
(* every permission the route asks for, now or within the life of an       *)
(* access token ago, and none makes its user the platform's owner by what  *)
(* they did not have as late; but for the token of a login or refresh that *)
(* had read the user before the withdrawal and signed after it.            *)
RightsRunOut ==
    \A t \in Tokens :
        LET k == token[t]
            Lately(p) == since[k.user][<<k.company, p>>] <= AccessTtl
        IN
        k # None /\ ~k.late =>
            /\ \A needs \in Asked : Authorize(k, needs) =>
                  \A p \in needs \cup {Member} : Lately(p)
            /\ \A p \in k.perms \cap Ownership : Lately(p)
=============================================================================
