------------------------------ MODULE Accounts ------------------------------
(***************************************************************************)
(* The accounts of one company: hiring and re-hiring, removal and restore, *)
(* status, invites (user.service.js), the roles, their names and who may   *)
(* hand them out (role.service.js), and the tokens of password reset and   *)
(* email verification (auth.service.js).                                   *)
(*                                                                         *)
(* An account is the row that holds its email, which is unique in the      *)
(* company, soft-deleted rows included.  A password is the request that    *)
(* set it.  Request r issues token r.  Of the names of roles one matters,  *)
(* SUPER_ADMIN, which makes platform owners (tenant.js); other names are   *)
(* taken to be free.  What these operations do to sessions is the subject  *)
(* of module Sessions.                                                     *)
(***************************************************************************)
EXTENDS FiniteSets

CONSTANTS
    Users,          \* emails in the company
    Hired,          \* those with an account at the start
    Roles,
    Scope,          \* the company of each role: own, global or other
    System,         \* roles that are seeded and cannot be changed
    Platform,       \* roles that carry * or platform:manage at the start
    Named,          \* roles named SUPER_ADMIN at the start
    Fresh,          \* roles yet to be created
    Given,          \* roles of the accounts there are at the start
    Reqs,           \* requests; each one is used once
    Nil

ASSUME AccountsAssumption ==
    /\ Hired \subseteq Users
    /\ Scope \in [Roles -> {"own", "global", "other"}]
    /\ System \subseteq Roles /\ Platform \subseteq Roles /\ Given \subseteq Roles
    /\ Named \subseteq System \cap Platform
    /\ Fresh \subseteq Roles \ (System \cup Platform \cup Given)
    /\ Nil \notin Users \cup Roles \cup Reqs

VARIABLES
    user,
    role,
    token,      \* rows of "verification_tokens"
    outbox,     \* welcome mails queued: the requests that sent them
    mailbox,    \* the last welcome mail each user has received
    arrived,    \* the welcome mails that have been received
    req,
    (* History.                                                            *)
    crossed,    \* users with two new passwords in the mail at once
    clashed,    \* roles removed and handed out by requests that overlapped
    overtaken,  \* requests one of whose roles was raised to the platform's
    posed,      \* roles that a request has named SUPER_ADMIN
    caught      \* hires whose account appeared while they were under way

mails   == <<outbox, mailbox, arrived>>
history == <<crossed, clashed, overtaken, posed, caught>>
vars == <<user, role, token, mails, req, history>>

-----------------------------------------------------------------------------
Statuses == {"PENDING", "ACTIVE", "SUSPENDED", "DISABLED"}
Actors   == {"tenant", "super"}
Handing  == {"hire", "assign"}
Writing  == {"make", "raise"}
Ops      == Handing \cup Writing \cup {"unrole", "remove", "restore",
                "status", "invite", "forgot", "send", "redeem"}
Steps    == {"idle", "exist", "assignable", "insert", "assign", "make",
             "raise", "unrole", "remove", "restore", "status", "invite", "issue",
             "redeem", "mail", "done", "rejected", "failed"}
Ended    == {"done", "rejected", "failed"}

User == [state: {"none", "present", "deleted"}, status: Statuses,
         verified: BOOLEAN, pw: Reqs \cup {Nil}, roles: SUBSET Roles]

Request == [op: Ops \cup {Nil}, step: Steps, by: Actors, user: Users \cup {Nil},
            roles: SUBSET Roles, token: Reqs \cup {Nil}, rehire: BOOLEAN,
            status: Statuses, grant: {"platform", "plain", "kept"},
            title: {"super", "other", "kept"}]

Role == [state: {"none", "present", "deleted"}, platform: BOOLEAN,
         super: BOOLEAN]

TypeOK ==
    /\ user \in [Users -> User]
    /\ role \in [Roles -> Role]
    /\ token \in [Reqs -> [state: {"none", "open", "used", "expired"},
                           type: {"reset", "verify"}, user: Users \cup {Nil}]]
    /\ outbox \subseteq Reqs
    /\ mailbox \in [Users -> Reqs \cup {Nil}]
    /\ arrived \subseteq Reqs
    /\ req \in [Reqs -> Request]
    /\ crossed \subseteq Users /\ clashed \subseteq Roles
    /\ overtaken \subseteq Reqs /\ posed \subseteq Roles
    /\ caught \subseteq Reqs

Idle == [op |-> Nil, step |-> "idle", by |-> "tenant", user |-> Nil,
         roles |-> {}, token |-> Nil, rehire |-> FALSE, status |-> "ACTIVE",
         grant |-> "kept", title |-> "kept"]

Init ==
    /\ user = [u \in Users |->
           IF u \in Hired
           THEN [state |-> "present", status |-> "PENDING", verified |-> FALSE,
                 pw |-> Nil, roles |-> Given]
           ELSE [state |-> "none", status |-> "PENDING", verified |-> FALSE,
                 pw |-> Nil, roles |-> {}]]
    /\ role = [x \in Roles |->
           [state |-> IF x \in Fresh THEN "none" ELSE "present",
            platform |-> x \in Platform, super |-> x \in Named]]
    /\ token = [t \in Reqs |-> [state |-> "none", type |-> "reset", user |-> Nil]]
    /\ outbox = {} /\ mailbox = [u \in Users |-> Nil] /\ arrived = {}
    /\ req = [r \in Reqs |-> Idle]
    /\ crossed = {} /\ clashed = {} /\ overtaken = {} /\ posed = {}
    /\ caught = {}

-----------------------------------------------------------------------------
At(r, step)   == req[r].step = step
GoTo(r, step) == req' = [req EXCEPT ![r].step = step]
UnderWay(r)   == req[r].step \notin Ended \cup {"idle"}

Present(u) == user[u].state = "present"
Deleted(u) == user[u].state = "deleted"
Set(u, row) == user' = [user EXCEPT ![u] = row]

(* Requests that hand out role x, and requests that remove it.             *)
Hands(r, x)   == UnderWay(r) /\ req[r].op \in Handing /\ x \in req[r].roles
Removes(r, x) == UnderWay(r) /\ req[r].op = "unrole" /\ x \in req[r].roles

(* Request r arrives and has made its first reads.                         *)
Start(r, request) ==
    /\ At(r, "idle")
    /\ req' = [req EXCEPT ![r] = request]
    /\ clashed' = clashed \cup {x \in request.roles :
           \E q \in Reqs : IF request.op = "unrole" THEN Hands(q, x)
                           ELSE request.op \in Handing /\ Removes(q, x)}
    /\ UNCHANGED <<user, role, token, mails, crossed, overtaken, posed, caught>>

(* Account u comes into use: the hires under way had not found it in use.  *)
Appears(u) ==
    caught' = caught \cup {q \in Reqs : UnderWay(q) /\ req[q].op = "hire"
                                                    /\ req[q].user = u}

(* Request r gives account u a password that goes out by mail.             *)
Mailing(r, u) ==
    crossed' = IF \E q \in Reqs \ {r} : /\ req[q].user = u
                                        /\ At(q, "mail") \/ q \in outbox
               THEN crossed \cup {u} ELSE crossed

-----------------------------------------------------------------------------
(* Hire and assignment of roles.                                           *)

Existing == {x \in Roles : role[x].state # "none"}

(* Mutation: an account in use is not told from a removed one.             *)
HireAny(r) ==
    \E u \in Users, given \in SUBSET Existing, by \in Actors :
        Start(r, [Idle EXCEPT !.op = "hire", !.by = by, !.user = u,
                      !.roles = given, !.rehire = (user[u].state # "none"),
                      !.step = IF given = {} THEN "insert" ELSE "exist"])

(* create: the email is free, or its account was removed and is re-hired.  *)
Hire(r) ==
    \E u \in Users, given \in SUBSET Existing, by \in Actors :
        /\ ~Present(u)
        /\ Start(r, [Idle EXCEPT !.op = "hire", !.by = by, !.user = u,
                         !.roles = given, !.rehire = Deleted(u),
                         !.step = IF given = {} THEN "insert" ELSE "exist"])

AssignRoles(r) ==
    \E u \in Users, given \in SUBSET Existing, by \in Actors :
        /\ Present(u)
        /\ Start(r, [Idle EXCEPT !.op = "assign", !.by = by, !.user = u,
                                 !.roles = given, !.step = "exist"])

(* #assertRolesExist: none is deleted or of another company.               *)
CheckExist(r) ==
    /\ At(r, "exist")
    /\ GoTo(r, IF \A x \in req[r].roles : role[x].state = "present"
                                          /\ Scope[x] \in {"own", "global"}
               THEN "assignable" ELSE "rejected")
    /\ UNCHANGED <<user, role, token, mails, history>>

Write(r) == IF req[r].op = "hire" THEN "insert" ELSE "assign"

(* Mutation: only seeded roles are looked at.                              *)
CheckAssignableSystem(r) ==
    /\ At(r, "assignable")
    /\ GoTo(r, IF req[r].by = "super"
                  \/ \A x \in req[r].roles \cap System : ~role[x].platform
               THEN Write(r) ELSE "rejected")
    /\ UNCHANGED <<user, role, token, mails, history>>

(* assertAssignable: a tenant hands out no role with platform permissions. *)
CheckAssignable(r) ==
    /\ At(r, "assignable")
    /\ GoTo(r, IF req[r].by = "super" \/ \A x \in req[r].roles : ~role[x].platform
               THEN Write(r) ELSE "rejected")
    /\ UNCHANGED <<user, role, token, mails, history>>

(* Mutation: a re-hired account keeps its old password.                    *)
InsertOldPassword(r) ==
    LET u == req[r].user IN
    /\ At(r, "insert")
    /\ req[r].rehire \/ user[u].state = "none"
    /\ IF req[r].rehire
       THEN Set(u, [user[u] EXCEPT !.state = "present", !.status = "ACTIVE",
                                   !.roles = req[r].roles])
       ELSE Set(u, [state |-> "present", status |-> "PENDING", verified |-> FALSE,
                    pw |-> r, roles |-> req[r].roles])
    /\ \E next \in {"mail", "done"} : GoTo(r, next)
    /\ Appears(u) /\ Mailing(r, u)
    /\ UNCHANGED <<role, token, mails, clashed, overtaken, posed>>

(* One transaction: the removed row is updated by id, whatever has become  *)
(* of it, or a row is inserted, against the unique index on the email.  A  *)
(* welcome mail is sent if the body asks for one.                          *)
Insert(r) ==
    LET u == req[r].user IN
    /\ At(r, "insert")
    /\ req[r].rehire \/ user[u].state = "none"
    /\ IF req[r].rehire
       THEN Set(u, [user[u] EXCEPT !.state = "present", !.status = "ACTIVE",
                                   !.pw = r, !.roles = req[r].roles])
       ELSE Set(u, [state |-> "present", status |-> "PENDING", verified |-> FALSE,
                    pw |-> r, roles |-> req[r].roles])
    /\ \E next \in {"mail", "done"} : GoTo(r, next)
    /\ Appears(u) /\ Mailing(r, u)
    /\ UNCHANGED <<role, token, mails, clashed, overtaken, posed>>

(* The index refuses the insert.                                           *)
EmailTaken(r) ==
    /\ At(r, "insert")
    /\ ~req[r].rehire /\ user[req[r].user].state # "none"
    /\ GoTo(r, "rejected")
    /\ UNCHANGED <<user, role, token, mails, history>>

(* setRoles, one transaction.                                              *)
Assign(r) ==
    LET u == req[r].user IN
    /\ At(r, "assign")
    /\ Set(u, [user[u] EXCEPT !.roles = req[r].roles])
    /\ GoTo(r, "done")
    /\ UNCHANGED <<role, token, mails, history>>

-----------------------------------------------------------------------------
(* Roles: creation, new permissions or a new name, and removal.            *)

(* create: refused if the company has a role in use by the name, which is  *)
(* not looked at otherwise; assertGrantable: a tenant grants no platform   *)
(* permissions.  A tenant's role is its company's.                         *)
CreateRole(r) ==
    \E x \in Roles \ System, by \in Actors, grant \in {"platform", "plain"},
       title \in {"super", "other"} :
        /\ role[x].state = "none"
        /\ \A q \in Reqs : req[q].op = "make" => x \notin req[q].roles
        /\ by = "super" \/ (Scope[x] = "own" /\ grant = "plain")
        /\ title = "super" =>
               ~\E y \in Roles : /\ role[y].super /\ role[y].state = "present"
                                /\ Scope[y] = Scope[x] /\ Scope[y] # "other"
        /\ Start(r, [Idle EXCEPT !.op = "make", !.step = "make", !.by = by,
                                 !.roles = {x}, !.grant = grant, !.title = title])

Writable(by, x) ==
    /\ role[x].state = "present" /\ x \notin System
    /\ by = "super" \/ (Scope[x] = "own" /\ ~role[x].platform)

(* update with permissions, a name or both.  The name is not looked at.    *)
UpdateRole(r) ==
    \E x \in Roles, by \in Actors, grant \in {"platform", "plain", "kept"},
       title \in {"super", "other", "kept"} :
        /\ Writable(by, x)
        /\ grant = "platform" => by = "super"
        /\ ~(grant = "kept" /\ title = "kept")
        /\ Start(r, [Idle EXCEPT !.op = "raise", !.step = "raise", !.by = by,
                                 !.roles = {x}, !.grant = grant, !.title = title])

(* The unique index on company and name, of which other companies' roles   *)
(* and the global ones (companyId null) keep clear.                        *)
NameTaken(r) ==
    /\ req[r].title = "super"
    /\ \E x \in req[r].roles, y \in Roles :
           y # x /\ Scope[x] = "own" /\ Scope[y] = "own" /\ role[y].super

RoleNameTaken(r) ==
    /\ At(r, "make") \/ At(r, "raise")
    /\ NameTaken(r)
    /\ GoTo(r, "rejected")
    /\ UNCHANGED <<user, role, token, mails, history>>

(* What request r makes of a role's row.                                   *)
Written(r, row) ==
    [state    |-> IF At(r, "make") THEN "present" ELSE row.state,
     platform |-> IF req[r].grant = "kept" THEN row.platform
                  ELSE req[r].grant = "platform",
     super    |-> IF req[r].title = "kept" THEN row.super
                  ELSE req[r].title = "super"]

(* The insert of create, the update by id of update.                       *)
WriteRole(r) ==
    /\ At(r, "make") \/ At(r, "raise")
    /\ ~NameTaken(r)
    /\ role' = [x \in Roles |-> IF x \in req[r].roles THEN Written(r, role[x])
                                ELSE role[x]]
    /\ overtaken' = IF req[r].grant # "platform" THEN overtaken
                    ELSE overtaken \cup
                         {q \in Reqs : \E x \in req[r].roles : Hands(q, x)}
    /\ posed' = IF req[r].title = "super" THEN posed \cup req[r].roles ELSE posed
    /\ GoTo(r, "done")
    /\ UNCHANGED <<user, token, mails, crossed, clashed, caught>>

(* Mutation: the roles of removed accounts are not counted.                *)
RemoveRoleUncounted(r) ==
    \E x \in Roles, by \in Actors :
        /\ Writable(by, x)
        /\ \A u \in Users : Present(u) => x \notin user[u].roles
        /\ Start(r, [Idle EXCEPT !.op = "unrole", !.step = "unrole", !.by = by,
                                 !.roles = {x}])

(* remove: refused (ROLE_IN_USE) while any account, a removed one too, has *)
(* the role.                                                               *)
RemoveRole(r) ==
    \E x \in Roles, by \in Actors :
        /\ Writable(by, x)
        /\ \A u \in Users : x \notin user[u].roles
        /\ Start(r, [Idle EXCEPT !.op = "unrole", !.step = "unrole", !.by = by,
                                 !.roles = {x}])

DeleteRole(r) ==
    /\ At(r, "unrole")
    /\ role' = [x \in Roles |-> IF x \in req[r].roles
                                THEN [role[x] EXCEPT !.state = "deleted"]
                                ELSE role[x]]
    /\ GoTo(r, "done")
    /\ UNCHANGED <<user, token, mails, history>>

-----------------------------------------------------------------------------
(* Removal, restore, status, invite: a read, and a write by id.  Callers   *)
(* are other accounts: remove refuses the caller's own.                    *)

Manage(r) ==
    \E u \in Users, op \in {"remove", "restore", "status", "invite"}, s \in Statuses :
        /\ IF op = "restore" THEN Deleted(u) ELSE Present(u)
        /\ op # "status" => s = "ACTIVE"
        /\ Start(r, [Idle EXCEPT !.op = op, !.step = op, !.user = u, !.status = s])

Remove(r) ==
    LET u == req[r].user IN
    /\ At(r, "remove")
    /\ Set(u, [user[u] EXCEPT !.state = "deleted"])
    /\ GoTo(r, "done")
    /\ UNCHANGED <<role, token, mails, history>>

Restore(r) ==
    LET u == req[r].user IN
    /\ At(r, "restore")
    /\ Set(u, [user[u] EXCEPT !.state = "present"])
    /\ Appears(u)
    /\ GoTo(r, "done")
    /\ UNCHANGED <<role, token, mails, crossed, clashed, overtaken, posed>>

UpdateStatus(r) ==
    LET u == req[r].user IN
    /\ At(r, "status")
    /\ Set(u, [user[u] EXCEPT !.status = req[r].status])
    /\ GoTo(r, "done")
    /\ UNCHANGED <<role, token, mails, history>>

(* resendInvite: a fresh password, which then goes out.                    *)
ResendInvite(r) ==
    LET u == req[r].user IN
    /\ At(r, "invite")
    /\ Set(u, [user[u] EXCEPT !.pw = r])
    /\ GoTo(r, "mail")
    /\ Mailing(r, u)
    /\ UNCHANGED <<role, token, mails, clashed, overtaken, posed, caught>>

Receive(r) ==
    /\ mailbox' = [mailbox EXCEPT ![req[r].user] = r]
    /\ arrived' = arrived \cup {r}

(* enqueueEmail: queued; or, if that fails, sent directly, though the job  *)
(* may be in the queue; or neither succeeds.                               *)
EnqueueEmail(r) ==
    /\ At(r, "mail")
    /\ \/ outbox' = outbox \cup {r} /\ UNCHANGED <<mailbox, arrived>>
       \/ Receive(r) /\ outbox' \in {outbox, outbox \cup {r}}
       \/ UNCHANGED mails
    /\ GoTo(r, "done")
    /\ UNCHANGED <<user, role, token, history>>

(* The worker takes mails in any order, may send one twice, and gives up   *)
(* after three attempts.                                                   *)
Deliver(r) ==
    /\ r \in outbox
    /\ \/ Receive(r) /\ outbox' \in {outbox, outbox \ {r}}
       \/ outbox' = outbox \ {r} /\ UNCHANGED <<mailbox, arrived>>
    /\ UNCHANGED <<user, role, token, req, history>>

-----------------------------------------------------------------------------
(* Tokens.                                                                 *)

(* forgotPassword finds accounts in use; sendVerificationEmail, the        *)
(* caller's account, unless its email has been verified.                   *)
Forgot(r) ==
    \E u \in Users, op \in {"forgot", "send"} :
        /\ IF op = "forgot" THEN Present(u)
           ELSE user[u].state # "none" /\ ~user[u].verified
        /\ Start(r, [Idle EXCEPT !.op = op, !.step = "issue", !.user = u])

Issue(r) ==
    /\ At(r, "issue")
    /\ token' = [token EXCEPT ![r] =
           [state |-> "open", user |-> req[r].user,
            type |-> IF req[r].op = "forgot" THEN "reset" ELSE "verify"]]
    /\ GoTo(r, "done")
    /\ UNCHANGED <<user, role, mails, history>>

Expire(t) ==
    /\ token[t].state = "open"
    /\ token' = [token EXCEPT ![t].state = "expired"]
    /\ UNCHANGED <<user, role, mails, req, history>>

(* Mutation: that it has been used is not looked at.                       *)
FindTokenUsed(r) ==
    \E t \in Reqs :
        /\ token[t].state \in {"open", "used"}
        /\ Start(r, [Idle EXCEPT !.op = "redeem", !.step = "redeem",
                                 !.token = t, !.user = token[t].user])

(* resetPassword and verifyEmail: the token is found unused and in time.   *)
FindToken(r) ==
    \E t \in Reqs :
        /\ token[t].state = "open"
        /\ Start(r, [Idle EXCEPT !.op = "redeem", !.step = "redeem",
                                 !.token = t, !.user = token[t].user])

(* Mutation: the token is stored with its user's row, not its id.          *)
RedeemWhole(r) ==
    LET t == req[r].token IN
    /\ At(r, "redeem")
    /\ token' = [token EXCEPT ![t] = [state |-> "used", user |-> user[@.user],
                                      type |-> @.type]]
    /\ GoTo(r, "done")
    /\ UNCHANGED <<user, role, mails, history>>

(* One transaction: the account, removed or not, and usedAt, by id.  The   *)
(* status becomes ACTIVE whatever it was.                                  *)
Redeem(r) ==
    LET t == req[r].token
        u == req[r].user IN
    /\ At(r, "redeem")
    /\ IF token[t].type = "reset"
       THEN Set(u, [user[u] EXCEPT !.pw = r])
       ELSE Set(u, [user[u] EXCEPT !.verified = TRUE, !.status = "ACTIVE"])
    /\ token' = [token EXCEPT ![t].state = "used"]
    /\ GoTo(r, "done")
    /\ UNCHANGED <<role, mails, history>>

-----------------------------------------------------------------------------
(* A request dies between two of its steps.                                *)
Abort(r) ==
    /\ UnderWay(r)
    /\ GoTo(r, "failed")
    /\ UNCHANGED <<user, role, token, mails, history>>

Next == \E r \in Reqs :
    \/ Hire(r) \/ AssignRoles(r) \/ CheckExist(r) \/ CheckAssignable(r)
    \/ Insert(r) \/ EmailTaken(r) \/ Assign(r)
    \/ CreateRole(r) \/ UpdateRole(r) \/ RoleNameTaken(r) \/ WriteRole(r)
    \/ RemoveRole(r) \/ DeleteRole(r)
    \/ Manage(r) \/ Remove(r) \/ Restore(r) \/ UpdateStatus(r)
    \/ ResendInvite(r) \/ EnqueueEmail(r) \/ Deliver(r)
    \/ Forgot(r) \/ Issue(r) \/ Expire(r) \/ FindToken(r) \/ Redeem(r)
    \/ Abort(r)

Spec == Init /\ [][Next]_vars
-----------------------------------------------------------------------------
(* What must hold.                                                         *)

(* isSuperAdmin: by permissions or by the name SUPER_ADMIN.                *)
Owns(x) == role[x].platform \/ role[x].super

Ownerships == {o \in Users \X Roles : o[2] \in user[o[1]].roles /\ Owns(o[2])}

(* "NO tenant may create, grant, or assign a role carrying platform-level  *)
(* permissions": who comes to be a platform owner by a role, through its   *)
(* permissions or its name, got it by a step of a platform owner, or of a  *)
(* tenant whose role an owner raised while it was being handed out.        *)
(* Excepted are roles that have the name but not the permissions, and      *)
(* were given the name by a request: names are not guarded, so a tenant    *)
(* may name a role SUPER_ADMIN and hand it out.                            *)
NoEscalation ==
    [][\A o \in Ownerships' \ Ownerships :
           \E r \in Reqs :
               /\ req'[r].step # req[r].step
               /\ \/ req[r].by = "super" \/ r \in overtaken
                  \/ o[2] \in posed' /\ ~role'[o[2]].platform]_vars

(* A role that has been removed is held by no account, neither one in use  *)
(* nor one that may be restored; excepted are roles that were removed and  *)
(* handed out by requests that overlapped.                                 *)
RemovedRoleIsUnheld ==
    \A x \in Roles \ clashed : role[x].state = "deleted" =>
        \A u \in Users : x \notin user[u].roles

(* A hire that is about to write has an account before it that is not in   *)
(* use (EMAIL_TAKEN), unless it came into use, by another hire or a        *)
(* restore, since the hire looked for the email.                           *)
HireSparesAccountsInUse ==
    \A r \in Reqs \ caught : At(r, "insert") => ~Present(req[r].user)

(* The password in the last welcome mail a user has received is the        *)
(* account's, or one was set since that has not come by mail; excepted are *)
(* users with two such mails under way at once.                            *)
MailedPasswordWorks ==
    \A u \in Users \ crossed :
        mailbox[u] # Nil => user[u].pw \in {mailbox[u]} \cup (Reqs \ arrived)

(* A reset or verification that has found token t open.                    *)
Holds(r, t) == req[r].token = t /\ At(r, "redeem")

Phase(t) ==
    IF token[t].state \in {"none", "open"} THEN token[t].state
    ELSE IF \E r \in Reqs : Holds(r, t) THEN "draining" ELSE "dead"

Token == INSTANCE OneTimeToken WITH
    Tokens  <- Reqs,
    phase   <- [t \in Reqs |-> Phase(t)],
    effects <- [t \in Reqs |-> {r \in Reqs : req[r].token = t /\ At(r, "done")}]

(* A token takes effect once, but for the requests that had found it open  *)
(* (findFirst and the transaction that sets usedAt are two calls).         *)
TokenIsOneTime == Token!Spec

=============================================================================
