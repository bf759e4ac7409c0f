--------------------------- MODULE AccountsProofs ---------------------------
(***************************************************************************)
(* Theorems about Accounts, for any emails, roles and requests.            *)
(***************************************************************************)
EXTENDS Accounts, TLAPS

OfUser == {"exist", "assignable", "insert", "assign", "remove", "restore",
           "status", "invite", "issue", "redeem", "mail"}

(* What a request carries at step p.                                       *)
WellFormed(q) ==
    /\ q.step \in OfUser => q.user \in Users
    /\ q.step \in {"exist", "assignable"} => q.op \in Handing
    /\ q.step = "insert" => q.op = "hire"
    /\ q.step = "assign" => q.op = "assign"
    /\ q.step \in Writing =>
           /\ q.op \in Writing /\ (q.grant = "platform" => q.by = "super")
           /\ q.roles \cap System = {}
    /\ q.step = "unrole" => q.op = "unrole"
    /\ q.step = "redeem" => q.token \in Reqs

RequestsWellFormed == \A r \in Reqs : WellFormed(req[r])

TokensWellFormed == \A t \in Reqs : token[t].state = "open" => token[t].user \in Users

Shape == TypeOK /\ RequestsWellFormed /\ TokensWellFormed

USE AccountsAssumption DEF Writing

TokenRow == [state: {"none", "open", "used", "expired"},
           type: {"reset", "verify"}, user: Users \cup {Nil}]

LEMMA InitShape == Init => Shape
<1> SUFFICES ASSUME Init PROVE Shape
  OBVIOUS
<1>1. Idle \in Request /\ WellFormed(Idle)
  BY DEF Idle, Request, Steps, Statuses, Actors, WellFormed, OfUser
<1>2. TypeOK
  BY <1>1 DEF Init, TypeOK, User, Role, Statuses
<1>3. RequestsWellFormed /\ TokensWellFormed
  BY <1>1 DEF Init, RequestsWellFormed, TokensWellFormed
<1> QED
  BY <1>2, <1>3 DEF Shape

(* Request r moves to step p and keeps what it carries.                    *)
LEMMA GoToFields ==
    ASSUME TypeOK, NEW r \in Reqs, NEW p \in Steps, GoTo(r, p)
    PROVE  /\ req' \in [Reqs -> Request]
           /\ \A q \in Reqs \ {r} : req'[q] = req[q]
           /\ req'[r].step = p /\ req'[r].op = req[r].op
           /\ req'[r].by = req[r].by /\ req'[r].user = req[r].user
           /\ req'[r].roles = req[r].roles /\ req'[r].token = req[r].token
           /\ req'[r].rehire = req[r].rehire /\ req'[r].grant = req[r].grant
           /\ req'[r].status = req[r].status
<1>1. req \in [Reqs -> Request] /\ req[r] \in Request
  BY DEF TypeOK
<1>2. PICK q : q = [req[r] EXCEPT !.step = p]
  OBVIOUS
<1>3. /\ q \in Request
      /\ q.step = p /\ q.op = req[r].op /\ q.by = req[r].by
      /\ q.user = req[r].user /\ q.roles = req[r].roles
      /\ q.token = req[r].token /\ q.rehire = req[r].rehire
      /\ q.grant = req[r].grant /\ q.status = req[r].status
  BY <1>1, <1>2 DEF Request
<1>4. req' = [req EXCEPT ![r] = q]
  BY <1>1, <1>2 DEF GoTo
<1> QED
  BY <1>1, <1>3, <1>4

(* Request r takes a step and the rows are written with what has their     *)
(* type.                                                                   *)
LEMMA StepShape ==
    ASSUME Shape, NEW r \in Reqs, NEW p \in Steps, GoTo(r, p),
           p \in OfUser => req[r].step \in OfUser,
           p \in {"exist", "make", "raise", "unrole", "redeem"} => FALSE,
           p = "assignable" => req[r].op \in Handing,
           p = "insert" => req[r].op = "hire",
           p = "assign" => req[r].op = "assign",
           user' \in [Users -> User], role' \in [Roles -> Role],
           token' \in [Reqs -> TokenRow], TokensWellFormed',
           outbox' \subseteq Reqs, mailbox' \in [Users -> Reqs \cup {Nil}],
           arrived' \subseteq Reqs,
           crossed' \subseteq Users, clashed' \subseteq Roles,
           overtaken' \subseteq Reqs, posed' \subseteq Roles,
           caught' \subseteq Reqs
    PROVE  Shape'
<1>1. /\ req' \in [Reqs -> Request]
      /\ \A q \in Reqs \ {r} : req'[q] = req[q]
      /\ req'[r].step = p /\ req'[r].op = req[r].op
      /\ req'[r].user = req[r].user
  BY GoToFields DEF Shape
<1>2. WellFormed(req'[r])
  BY <1>1 DEF Shape, RequestsWellFormed, WellFormed
<1>3. RequestsWellFormed'
  BY <1>1, <1>2 DEF Shape, RequestsWellFormed
<1>4. TypeOK'
  BY <1>1 DEF TypeOK, TokenRow, Role
<1> QED
  BY <1>3, <1>4 DEF Shape

(* Request r arrives.                                                      *)
LEMMA StartShape ==
    ASSUME Shape, NEW r \in Reqs, NEW q \in Request, WellFormed(q), Start(r, q)
    PROVE  /\ Shape'
           /\ req'[r] = q
           /\ \A p \in Reqs \ {r} : req'[p] = req[p]
<1>1. /\ req' \in [Reqs -> Request] /\ req'[r] = q
      /\ \A p \in Reqs \ {r} : req'[p] = req[p]
  BY DEF Start, Shape, TypeOK
<1>2. RequestsWellFormed'
  BY <1>1 DEF Shape, RequestsWellFormed
<1>3. clashed' \subseteq Roles
  BY DEF Start, Shape, TypeOK, Request
<1>4. TypeOK'
  BY <1>1, <1>3 DEF Start, Shape, TypeOK, mails
<1>5. TokensWellFormed'
  BY DEF Start, Shape, TokensWellFormed
<1> QED
  BY <1>1, <1>2, <1>4, <1>5 DEF Shape

(* The rows stay as they are.                                              *)
LEMMA MoveShape ==
    ASSUME Shape, NEW r \in Reqs, NEW p \in Steps, GoTo(r, p),
           p \in OfUser => req[r].step \in OfUser,
           p \in {"exist", "make", "raise", "unrole", "redeem"} => FALSE,
           p = "assignable" => req[r].op \in Handing,
           p = "insert" => req[r].op = "hire",
           p = "assign" => req[r].op = "assign",
           UNCHANGED <<user, role, token, mails, history>>
    PROVE  Shape'
<1>1. /\ user' \in [Users -> User] /\ role' \in [Roles -> Role]
      /\ token' \in [Reqs -> TokenRow] /\ TokensWellFormed'
      /\ outbox' \subseteq Reqs /\ mailbox' \in [Users -> Reqs \cup {Nil}]
      /\ arrived' \subseteq Reqs
      /\ crossed' \subseteq Users /\ clashed' \subseteq Roles
      /\ overtaken' \subseteq Reqs /\ posed' \subseteq Roles
      /\ caught' \subseteq Reqs
  BY DEF Shape, TypeOK, TokensWellFormed, TokenRow, Role, mails, history
<1> QED
  BY <1>1, StepShape

LEMMA ShapeParts ==
    ASSUME Shape
    PROVE  /\ req \in [Reqs -> Request]
           /\ user \in [Users -> User] /\ role \in [Roles -> Role]
           /\ token \in [Reqs -> TokenRow] /\ TokensWellFormed
           /\ outbox \subseteq Reqs /\ mailbox \in [Users -> Reqs \cup {Nil}]
           /\ arrived \subseteq Reqs
           /\ crossed \subseteq Users /\ clashed \subseteq Roles
           /\ overtaken \subseteq Reqs /\ posed \subseteq Roles
           /\ caught \subseteq Reqs
           /\ \A r \in Reqs : req[r] \in Request /\ WellFormed(req[r])
  BY DEF Shape, TypeOK, RequestsWellFormed, TokenRow, Role

-----------------------------------------------------------------------------
(* Arrivals.                                                               *)

LEMMA HireArrives ==
    ASSUME Shape, NEW r \in Reqs, Hire(r)
    PROVE  \E q \in Request :
               /\ Start(r, q) /\ WellFormed(q) /\ q.op = "hire"
               /\ q.step \in {"insert", "exist"}
               /\ (q.step = "insert" <=> q.roles = {})
               /\ q.user \in Users /\ ~Present(q.user) /\ q.token = Nil
<1>1. PICK u \in Users, given \in SUBSET Existing, by \in Actors :
          /\ ~Present(u)
          /\ Start(r, [Idle EXCEPT !.op = "hire", !.by = by, !.user = u,
                         !.roles = given, !.rehire = Deleted(u),
                         !.step = IF given = {} THEN "insert" ELSE "exist"])
  BY DEF Hire
<1>2. PICK q : q = [Idle EXCEPT !.op = "hire", !.by = by, !.user = u,
                         !.roles = given, !.rehire = Deleted(u),
                         !.step = IF given = {} THEN "insert" ELSE "exist"]
  OBVIOUS
<1>3. Deleted(u) \in BOOLEAN
  BY DEF Deleted
<1>4. /\ q \in Request /\ q.token = Nil
      /\ q.op = "hire" /\ q.user = u /\ q.roles = given
      /\ q.step = IF given = {} THEN "insert" ELSE "exist"
  BY <1>2, <1>3 DEF Idle, Request, Ops, Handing, Existing, Steps, Statuses, Actors
<1>5. WellFormed(q)
  BY <1>4 DEF WellFormed, Handing
<1>6. q.step \in {"insert", "exist"} /\ (q.step = "insert" <=> q.roles = {})
  BY <1>4
<1>7. Start(r, q) /\ q.user \in Users /\ ~Present(q.user)
  BY <1>1, <1>2, <1>4
<1> QED
  BY <1>4, <1>5, <1>6, <1>7

LEMMA AssignRolesArrives ==
    ASSUME Shape, NEW r \in Reqs, AssignRoles(r)
    PROVE  \E q \in Request : /\ Start(r, q) /\ WellFormed(q) /\ q.op = "assign"
                              /\ q.step = "exist" /\ q.token = Nil
<1>1. PICK u \in Users, given \in SUBSET Existing, by \in Actors :
          Start(r, [Idle EXCEPT !.op = "assign", !.by = by, !.user = u,
                                 !.roles = given, !.step = "exist"])
  BY DEF AssignRoles
<1>2. PICK q : q = [Idle EXCEPT !.op = "assign", !.by = by, !.user = u,
                                 !.roles = given, !.step = "exist"]
  OBVIOUS
<1>3. /\ q \in Request /\ q.token = Nil
      /\ q.op = "assign" /\ q.user = u /\ q.step = "exist"
  BY <1>2 DEF Idle, Request, Ops, Handing, Existing, Steps, Statuses,
              Actors
<1>4. WellFormed(q)
  BY <1>3 DEF WellFormed, Handing
<1> QED
  BY <1>1, <1>2, <1>3, <1>4

(* A request that writes role x.                                           *)
LEMMA WritingArrives ==
    ASSUME Shape, NEW r \in Reqs, NEW x \in Roles \ System, NEW op \in Writing,
           NEW by \in Actors, NEW grant \in {"platform", "plain", "kept"},
           NEW title \in {"super", "other", "kept"},
           grant = "platform" => by = "super",
           Start(r, [Idle EXCEPT !.op = op, !.step = op, !.by = by,
                                 !.roles = {x}, !.grant = grant, !.title = title])
    PROVE  \E q \in Request : /\ Start(r, q) /\ WellFormed(q) /\ q.op \in Writing
                              /\ q.step \in Writing /\ q.token = Nil
<1>1. PICK q : q = [Idle EXCEPT !.op = op, !.step = op, !.by = by,
                                !.roles = {x}, !.grant = grant, !.title = title]
  OBVIOUS
<1>2. /\ q \in Request /\ q.token = Nil
      /\ q.op = op /\ q.step = op /\ q.by = by
      /\ q.grant = grant /\ q.roles = {x}
  BY <1>1 DEF Idle, Request, Ops, Writing, Steps, Statuses, Actors
<1>3. WellFormed(q)
  BY <1>2 DEF WellFormed, OfUser, Writing
<1> QED
  BY <1>1, <1>2, <1>3

LEMMA CreateRoleArrives ==
    ASSUME Shape, NEW r \in Reqs, CreateRole(r)
    PROVE  \E q \in Request : /\ Start(r, q) /\ WellFormed(q) /\ q.op \in Writing
                              /\ q.step \in Writing /\ q.token = Nil
<1>1. PICK x \in Roles \ System, by \in Actors, grant \in {"platform", "plain"},
           title \in {"super", "other"} :
          /\ by = "super" \/ grant = "plain"
          /\ Start(r, [Idle EXCEPT !.op = "make", !.step = "make", !.by = by,
                                 !.roles = {x}, !.grant = grant, !.title = title])
  BY Zenon DEF CreateRole
<1> QED
  BY <1>1, WritingArrives DEF Writing

LEMMA UpdateRoleArrives ==
    ASSUME Shape, NEW r \in Reqs, UpdateRole(r)
    PROVE  \E q \in Request : /\ Start(r, q) /\ WellFormed(q) /\ q.op \in Writing
                              /\ q.step \in Writing /\ q.token = Nil
<1>1. PICK x \in Roles, by \in Actors, grant \in {"platform", "plain", "kept"},
           title \in {"super", "other", "kept"} :
          /\ x \notin System
          /\ grant = "platform" => by = "super"
          /\ Start(r, [Idle EXCEPT !.op = "raise", !.step = "raise", !.by = by,
                                 !.roles = {x}, !.grant = grant, !.title = title])
  BY Zenon DEF UpdateRole, Writable
<1> QED
  BY <1>1, WritingArrives DEF Writing

LEMMA RemoveRoleArrives ==
    ASSUME Shape, NEW r \in Reqs, RemoveRole(r)
    PROVE  \E q \in Request :
               /\ Start(r, q) /\ WellFormed(q) /\ q.op = "unrole"
               /\ q.step = "unrole" /\ q.token = Nil
               /\ \A x \in q.roles, u \in Users : x \notin user[u].roles
<1>1. PICK x \in Roles, by \in Actors :
          /\ \A u \in Users : x \notin user[u].roles
          /\ Start(r, [Idle EXCEPT !.op = "unrole", !.step = "unrole", !.by = by,
                                 !.roles = {x}])
  BY DEF RemoveRole
<1>2. PICK q : q = [Idle EXCEPT !.op = "unrole", !.step = "unrole", !.by = by,
                                 !.roles = {x}]
  OBVIOUS
<1>3. /\ q \in Request /\ q.token = Nil
      /\ q.op = "unrole" /\ q.step = "unrole" /\ q.roles = {x}
  BY <1>2 DEF Idle, Request, Ops, Handing, Steps, Statuses, Actors
<1>4. WellFormed(q)
  BY <1>3 DEF WellFormed, OfUser
<1>5. Start(r, q) /\ \A y \in q.roles, u \in Users : y \notin user[u].roles
  BY <1>1, <1>2, <1>3
<1> QED
  BY <1>3, <1>4, <1>5

LEMMA ManageArrives ==
    ASSUME Shape, NEW r \in Reqs, Manage(r)
    PROVE  \E q \in Request : /\ Start(r, q) /\ WellFormed(q)
                              /\ q.op \in {"remove", "restore", "status", "invite"}
                              /\ q.step = q.op /\ q.token = Nil
<1>1. PICK u \in Users, op \in {"remove", "restore", "status", "invite"},
           s \in Statuses :
          Start(r, [Idle EXCEPT !.op = op, !.step = op, !.user = u, !.status = s])
  BY DEF Manage
<1>2. PICK q : q = [Idle EXCEPT !.op = op, !.step = op, !.user = u, !.status = s]
  OBVIOUS
<1>3. q \in Request /\ q.token = Nil /\ q.op = op /\ q.step = op /\ q.user = u
  BY <1>2 DEF Idle, Request, Ops, Handing, Steps, Statuses, Actors
<1>4. WellFormed(q)
  BY <1>3 DEF WellFormed
<1> QED
  BY <1>1, <1>2, <1>3, <1>4

LEMMA ForgotArrives ==
    ASSUME Shape, NEW r \in Reqs, Forgot(r)
    PROVE  \E q \in Request : /\ Start(r, q) /\ WellFormed(q)
                              /\ q.op \in {"forgot", "send"} /\ q.step = "issue"
                              /\ q.token = Nil
<1>1. PICK u \in Users, op \in {"forgot", "send"} :
          Start(r, [Idle EXCEPT !.op = op, !.step = "issue", !.user = u])
  BY DEF Forgot
<1>2. PICK q : q = [Idle EXCEPT !.op = op, !.step = "issue", !.user = u]
  OBVIOUS
<1>3. q \in Request /\ q.token = Nil /\ q.op = op /\ q.step = "issue" /\ q.user = u
  BY <1>2 DEF Idle, Request, Ops, Handing, Steps, Statuses, Actors
<1>4. WellFormed(q)
  BY <1>3 DEF WellFormed
<1> QED
  BY <1>1, <1>2, <1>3, <1>4

LEMMA FindTokenArrives ==
    ASSUME Shape, NEW r \in Reqs, FindToken(r)
    PROVE  \E q \in Request : /\ Start(r, q) /\ WellFormed(q) /\ q.op = "redeem"
                              /\ q.step = "redeem" /\ q.token \in Reqs
                              /\ token[q.token].state = "open"
<1>1. PICK t \in Reqs :
          /\ token[t].state = "open"
          /\ Start(r, [Idle EXCEPT !.op = "redeem", !.step = "redeem",
                                   !.token = t, !.user = token[t].user])
  BY DEF FindToken
<1>2. PICK q : q = [Idle EXCEPT !.op = "redeem", !.step = "redeem",
                                !.token = t, !.user = token[t].user]
  OBVIOUS
<1>3. token[t].user \in Users
  BY <1>1 DEF Shape, TokensWellFormed
<1>4. /\ q \in Request /\ q.op = "redeem" /\ q.step = "redeem" /\ q.token = t
      /\ q.user = token[t].user
  BY <1>2, <1>3 DEF Idle, Request, Ops, Handing, Steps, Statuses, Actors
<1>5. WellFormed(q)
  BY <1>3, <1>4 DEF WellFormed
<1> QED
  BY <1>1, <1>2, <1>4, <1>5

-----------------------------------------------------------------------------
(* Steps that write.                                                       *)

(* One row of "users" is replaced.                                         *)
LEMMA SetShape ==
    ASSUME Shape, NEW r \in Reqs, NEW p \in {"done", "mail"}, GoTo(r, p),
           req[r].step \in OfUser, NEW u \in Users, NEW row \in User, Set(u, row),
           UNCHANGED <<role, mails, clashed, overtaken, posed>>,
           token' \in [Reqs -> TokenRow], TokensWellFormed',
           crossed' \subseteq Users, caught' \subseteq Reqs
    PROVE  Shape'
<1>1. user' \in [Users -> User]
  BY ShapeParts DEF Set
<1>2. /\ role' \in [Roles -> Role] /\ outbox' \subseteq Reqs
      /\ mailbox' \in [Users -> Reqs \cup {Nil}] /\ arrived' \subseteq Reqs
      /\ clashed' \subseteq Roles /\ overtaken' \subseteq Reqs
      /\ posed' \subseteq Roles
  BY ShapeParts DEF mails
<1>3. p \in Steps
  BY DEF Steps
<1> QED
  BY <1>1, <1>2, <1>3, StepShape

LEMMA InsertShape ==
    ASSUME Shape, NEW r \in Reqs, Insert(r)
    PROVE  Shape'
<1>1. /\ req[r] \in Request /\ req[r].user \in Users /\ req[r].step \in OfUser
      /\ user[req[r].user] \in User
  BY ShapeParts DEF Insert, At, WellFormed, OfUser
<1>2. PICK p \in {"mail", "done"} : GoTo(r, p)
  BY DEF Insert
<1>3. \E row \in User : Set(req[r].user, row)
  <2>1. CASE req[r].rehire
    BY <1>1, <2>1 DEF Insert, User, Statuses, Request
  <2>2. CASE ~req[r].rehire
    BY <1>1, <2>2 DEF Insert, User, Statuses, Request
  <2> QED
    BY <2>1, <2>2
<1>4. crossed' \subseteq Users /\ caught' \subseteq Reqs
  BY <1>1, ShapeParts DEF Insert, Appears, Mailing
<1>5. token' \in [Reqs -> TokenRow] /\ TokensWellFormed'
  BY ShapeParts DEF Insert, TokensWellFormed
<1> QED
  BY <1>1, <1>2, <1>3, <1>4, <1>5, SetShape DEF Insert

LEMMA ManagedShape ==
    ASSUME Shape, NEW r \in Reqs,
           \/ Assign(r) \/ Remove(r) \/ Restore(r) \/ UpdateStatus(r)
           \/ ResendInvite(r)
    PROVE  Shape'
<1>1. /\ req[r] \in Request /\ req[r].user \in Users /\ req[r].step \in OfUser
      /\ user[req[r].user] \in User
  BY ShapeParts DEF Assign, Remove, Restore, UpdateStatus, ResendInvite, At,
                    WellFormed, OfUser
<1>2. token' \in [Reqs -> TokenRow] /\ TokensWellFormed'
  BY ShapeParts DEF Assign, Remove, Restore, UpdateStatus, ResendInvite,
                    TokensWellFormed
<1>3. CASE Assign(r)
  <2>1. PICK row : row = [user[req[r].user] EXCEPT !.roles = req[r].roles]
    OBVIOUS
  <2>2. row \in User /\ Set(req[r].user, row)
    BY <1>1, <1>3, <2>1 DEF Assign, User, Request
  <2> QED
    BY <1>1, <1>2, <1>3, <2>2, SetShape, ShapeParts DEF Assign, history
<1>4. CASE Remove(r)
  <2>1. PICK row : row = [user[req[r].user] EXCEPT !.state = "deleted"]
    OBVIOUS
  <2>2. row \in User /\ Set(req[r].user, row)
    BY <1>1, <1>4, <2>1 DEF Remove, User
  <2> QED
    BY <1>1, <1>2, <1>4, <2>2, SetShape, ShapeParts DEF Remove, history
<1>5. CASE Restore(r)
  <2>1. PICK row : row = [user[req[r].user] EXCEPT !.state = "present"]
    OBVIOUS
  <2>2. row \in User /\ Set(req[r].user, row)
    BY <1>1, <1>5, <2>1 DEF Restore, User
  <2>3. crossed' \subseteq Users /\ caught' \subseteq Reqs
    BY <1>5, ShapeParts DEF Restore, Appears
  <2> QED
    BY <1>1, <1>2, <1>5, <2>2, <2>3, SetShape DEF Restore
<1>6. CASE UpdateStatus(r)
  <2>1. PICK row : row = [user[req[r].user] EXCEPT !.status = req[r].status]
    OBVIOUS
  <2>2. row \in User /\ Set(req[r].user, row)
    BY <1>1, <1>6, <2>1 DEF UpdateStatus, User, Request
  <2> QED
    BY <1>1, <1>2, <1>6, <2>2, SetShape, ShapeParts DEF UpdateStatus, history
<1>7. CASE ResendInvite(r)
  <2>1. PICK row : row = [user[req[r].user] EXCEPT !.pw = r]
    OBVIOUS
  <2>2. row \in User /\ Set(req[r].user, row)
    BY <1>1, <1>7, <2>1 DEF ResendInvite, User
  <2>3. crossed' \subseteq Users /\ caught' \subseteq Reqs
    BY <1>1, <1>7, ShapeParts DEF ResendInvite, Mailing
  <2> QED
    BY <1>1, <1>2, <1>7, <2>2, <2>3, SetShape DEF ResendInvite
<1> QED
  BY <1>3, <1>4, <1>5, <1>6, <1>7

LEMMA RoleShape ==
    ASSUME Shape, NEW r \in Reqs, WriteRole(r) \/ DeleteRole(r)
    PROVE  Shape'
<1>1. /\ user' \in [Users -> User] /\ token' \in [Reqs -> TokenRow]
      /\ TokensWellFormed' /\ outbox' \subseteq Reqs
      /\ mailbox' \in [Users -> Reqs \cup {Nil}] /\ arrived' \subseteq Reqs
      /\ crossed' \subseteq Users /\ clashed' \subseteq Roles
      /\ caught' \subseteq Reqs
  BY ShapeParts DEF WriteRole, DeleteRole, TokensWellFormed, mails, history
<1>2. overtaken' \subseteq Reqs /\ posed' \subseteq Roles
  <2>1. CASE WriteRole(r)
    <3>1. req[r].roles \subseteq Roles
      BY ShapeParts DEF Request
    <3> QED
      BY <2>1, <3>1, ShapeParts DEF WriteRole
  <2>2. CASE DeleteRole(r)
    BY <2>2, ShapeParts DEF DeleteRole, history
  <2> QED
    BY <2>1, <2>2
<1>3. role' \in [Roles -> Role]
  <2>1. CASE WriteRole(r)
    <3>1. ASSUME NEW x \in Roles PROVE Written(r, role[x]) \in Role
      BY ShapeParts DEF Written, Role
    <3> QED
      BY <2>1, <3>1, ShapeParts DEF WriteRole
  <2>2. CASE DeleteRole(r)
    BY <2>2, ShapeParts DEF DeleteRole, Role
  <2> QED
    BY <2>1, <2>2
<1>4. GoTo(r, "done") /\ "done" \in Steps
  BY DEF WriteRole, DeleteRole, Steps
<1> QED
  BY <1>1, <1>2, <1>3, <1>4, StepShape DEF OfUser

LEMMA MailShape ==
    ASSUME Shape, NEW r \in Reqs, EnqueueEmail(r) \/ Deliver(r)
    PROVE  Shape'
<1>1. CASE EnqueueEmail(r)
  <2>1. /\ user' \in [Users -> User] /\ role' \in [Roles -> Role]
        /\ token' \in [Reqs -> TokenRow] /\ TokensWellFormed'
        /\ crossed' \subseteq Users /\ clashed' \subseteq Roles
        /\ overtaken' \subseteq Reqs /\ posed' \subseteq Roles
      /\ caught' \subseteq Reqs
    BY <1>1, ShapeParts DEF EnqueueEmail, TokensWellFormed, history
  <2>2. /\ outbox' \subseteq Reqs /\ mailbox' \in [Users -> Reqs \cup {Nil}]
        /\ arrived' \subseteq Reqs
    BY <1>1, ShapeParts DEF EnqueueEmail, Receive, mails
  <2>3. GoTo(r, "done") /\ "done" \in Steps
    BY <1>1 DEF EnqueueEmail, Steps
  <2> QED
    BY <2>1, <2>2, <2>3, StepShape DEF OfUser
<1>2. CASE Deliver(r)
  <2>1. TypeOK'
    BY <1>2 DEF Shape, TypeOK, Deliver, Receive, history
  <2> QED
    BY <1>2, <2>1 DEF Shape, Deliver, RequestsWellFormed, WellFormed,
                      TokensWellFormed
<1> QED
  BY <1>1, <1>2

LEMMA TokenShape ==
    ASSUME Shape, NEW r \in Reqs, Issue(r) \/ Expire(r) \/ Redeem(r)
    PROVE  Shape'
<1>1. /\ req[r] \in Request /\ WellFormed(req[r])
      /\ user \in [Users -> User] /\ token \in [Reqs -> TokenRow]
      /\ TokensWellFormed
  BY ShapeParts
<1>2. CASE Issue(r)
  <2>1. req[r].user \in Users
    BY <1>1, <1>2 DEF Issue, At, WellFormed, OfUser
  <2>2. PICK row : row = [state |-> "open", user |-> req[r].user,
                 type |-> IF req[r].op = "forgot" THEN "reset" ELSE "verify"]
    OBVIOUS
  <2>3. row \in TokenRow /\ row.user \in Users
    BY <2>1, <2>2 DEF TokenRow
  <2>4. token' = [token EXCEPT ![r] = row]
    BY <1>2, <2>2 DEF Issue
  <2>5. token' \in [Reqs -> TokenRow] /\ TokensWellFormed'
    BY <1>1, <2>3, <2>4 DEF TokensWellFormed
  <2>6. /\ user' \in [Users -> User] /\ role' \in [Roles -> Role]
        /\ outbox' \subseteq Reqs /\ mailbox' \in [Users -> Reqs \cup {Nil}]
        /\ arrived' \subseteq Reqs
        /\ crossed' \subseteq Users /\ clashed' \subseteq Roles
        /\ overtaken' \subseteq Reqs /\ posed' \subseteq Roles
      /\ caught' \subseteq Reqs
    BY <1>2, ShapeParts DEF Issue, mails, history
  <2>7. GoTo(r, "done") /\ "done" \in Steps
    BY <1>2 DEF Issue, Steps
  <2> QED
    BY <2>5, <2>6, <2>7, StepShape DEF OfUser
<1>3. CASE Expire(r)
  <2>1. token' \in [Reqs -> TokenRow] /\ TokensWellFormed'
    BY <1>1, <1>3 DEF Expire, TokenRow, TokensWellFormed
  <2>2. TypeOK'
    BY <1>3, <2>1 DEF Shape, TypeOK, TokenRow, Expire, mails, history
  <2> QED
    BY <1>3, <2>1, <2>2 DEF Shape, Expire, RequestsWellFormed, WellFormed
<1>4. CASE Redeem(r)
  <2>1. req[r].user \in Users /\ req[r].token \in Reqs /\ req[r].step \in OfUser
    BY <1>1, <1>4 DEF Redeem, At, WellFormed, OfUser
  <2>2. token' = [token EXCEPT ![req[r].token].state = "used"]
    BY <1>4 DEF Redeem
  <2>3. token' \in [Reqs -> TokenRow] /\ TokensWellFormed'
    BY <1>1, <2>1, <2>2 DEF TokenRow, TokensWellFormed
  <2>4. \E row \in User : Set(req[r].user, row)
    <3>1. user[req[r].user] \in User
      BY <1>1, <2>1
    <3>2. [user[req[r].user] EXCEPT !.pw = r] \in User
      BY <3>1 DEF User
    <3>3. PICK row : row = [user[req[r].user] EXCEPT !.verified = TRUE,
                                                     !.status = "ACTIVE"]
      OBVIOUS
    <3>4. row \in User
      BY <3>1, <3>3 DEF User, Statuses
    <3> QED
      BY <1>4, <3>2, <3>3, <3>4 DEF Redeem
  <2>5. /\ GoTo(r, "done") /\ UNCHANGED <<role, mails, clashed, overtaken, posed>>
        /\ crossed' \subseteq Users /\ caught' \subseteq Reqs
    BY <1>4, ShapeParts DEF Redeem, history
  <2> QED
    BY <2>1, <2>3, <2>4, <2>5, SetShape
<1> QED
  BY <1>2, <1>3, <1>4

LEMMA ChecksShape ==
    ASSUME Shape, NEW r \in Reqs,
           CheckExist(r) \/ CheckAssignable(r) \/ EmailTaken(r)
           \/ RoleNameTaken(r) \/ Abort(r)
    PROVE  Shape'
<1>1. req[r] \in Request /\ WellFormed(req[r])
  BY ShapeParts
<1>2. CASE CheckExist(r)
  <2>1. PICK p \in {"assignable", "rejected"} : GoTo(r, p)
    BY <1>2 DEF CheckExist
  <2>2. req[r].step \in OfUser /\ req[r].op \in Handing
    BY <1>1, <1>2 DEF CheckExist, At, WellFormed, OfUser
  <2> QED
    BY <1>2, <2>1, <2>2, MoveShape DEF CheckExist, OfUser, Steps
<1>3. CASE CheckAssignable(r)
  <2>1. PICK p \in {Write(r), "rejected"} : GoTo(r, p)
    BY <1>3 DEF CheckAssignable
  <2>2. req[r].step \in OfUser /\ req[r].op \in Handing
    BY <1>1, <1>3 DEF CheckAssignable, At, WellFormed, OfUser
  <2>3. /\ p \in {"insert", "assign", "rejected"}
        /\ p = "insert" => req[r].op = "hire"
        /\ p = "assign" => req[r].op = "assign"
    BY <2>1, <2>2 DEF Write, Handing
  <2>4. p \in Steps
    BY <2>3 DEF Steps
  <2> QED
    BY <1>3, <2>1, <2>2, <2>3, <2>4, MoveShape DEF CheckAssignable
<1>4. CASE EmailTaken(r) \/ RoleNameTaken(r)
  BY <1>4, MoveShape DEF EmailTaken, RoleNameTaken, OfUser, Steps
<1>5. CASE Abort(r)
  BY <1>5, MoveShape DEF Abort, OfUser, Steps
<1> QED
  BY <1>2, <1>3, <1>4, <1>5

Arrives(r) == \/ Hire(r) \/ AssignRoles(r) \/ CreateRole(r) \/ UpdateRole(r)
              \/ RemoveRole(r) \/ Manage(r) \/ Forgot(r) \/ FindToken(r)

LEMMA ArrivesShape ==
    ASSUME Shape, NEW r \in Reqs, Arrives(r)
    PROVE  Shape' /\ \E q \in Request : Start(r, q) /\ WellFormed(q)
<1>1. \E q \in Request : Start(r, q) /\ WellFormed(q)
  BY HireArrives, AssignRolesArrives, CreateRoleArrives, UpdateRoleArrives,
     RemoveRoleArrives, ManageArrives, ForgotArrives, FindTokenArrives DEF Arrives
<1> QED
  BY <1>1, StartShape

Checks(r)  == \/ CheckExist(r) \/ CheckAssignable(r) \/ EmailTaken(r)
              \/ RoleNameTaken(r) \/ Abort(r)
Manages(r) == \/ Assign(r) \/ Remove(r) \/ Restore(r) \/ UpdateStatus(r)
              \/ ResendInvite(r)
Mails(r)   == EnqueueEmail(r) \/ Deliver(r)
Tokens(r)  == Issue(r) \/ Expire(r) \/ Redeem(r)

(* The actions, sorted.                                                    *)
LEMMA NextCases ==
    ASSUME Next
    PROVE  \E r \in Reqs :
               \/ Arrives(r) \/ Checks(r) \/ Insert(r) \/ Manages(r)
               \/ WriteRole(r) \/ DeleteRole(r) \/ Mails(r) \/ Tokens(r)
  BY DEF Next, Arrives, Checks, Manages, Mails, Tokens

LEMMA NextShape == ASSUME Shape, [Next]_vars PROVE Shape'
<1>1. CASE Next
  <2>1. PICK r \in Reqs :
            \/ Arrives(r) \/ Checks(r) \/ Insert(r) \/ Manages(r)
            \/ WriteRole(r) \/ DeleteRole(r) \/ Mails(r) \/ Tokens(r)
    BY <1>1, NextCases
  <2> QED
    BY <2>1, ArrivesShape, ChecksShape, InsertShape, ManagedShape, RoleShape,
       MailShape, TokenShape DEF Checks, Manages, Mails, Tokens
<1>2. CASE UNCHANGED vars
  BY <1>2 DEF vars, mails, history, Shape, TypeOK, RequestsWellFormed,
              WellFormed, TokensWellFormed
<1> QED
  BY <1>1, <1>2

LEMMA ShapeInvariance == Spec => []Shape
  BY InitShape, NextShape, PTL DEF Spec

(* Requests, roles, accounts and tokens are what the model says they are.  *)
THEOREM AccountsTypeCorrect == Spec => []TypeOK
<1>1. Shape => TypeOK
  BY DEF Shape
<1> QED
  BY <1>1, ShapeInvariance, PTL

-----------------------------------------------------------------------------
(* How a request moves.                                                    *)

(* Request r goes on, with what it carries.                                *)
Carries(r) ==
    /\ req'[r].op = req[r].op /\ req'[r].by = req[r].by
    /\ req'[r].user = req[r].user /\ req'[r].roles = req[r].roles
    /\ req'[r].token = req[r].token /\ req'[r].grant = req[r].grant
    /\ UnderWay(r) /\ req'[r].step \notin {"idle", "issue"}
    /\ req'[r].step \in {"exist", "make", "raise", "unrole", "redeem"} =>
           req'[r].step = req[r].step
    /\ req'[r].step \in {"insert", "assign"} =>
           req'[r].step = req[r].step \/ CheckAssignable(r)
    /\ At(r, "exist") => CheckExist(r) \/ Abort(r)
    /\ At(r, "redeem") => Redeem(r) \/ Abort(r)

LEMMA ActionMoves ==
    ASSUME Shape, NEW r \in Reqs,
           \/ Checks(r) \/ Insert(r) \/ Manages(r) \/ WriteRole(r)
           \/ DeleteRole(r) \/ Mails(r) \/ Tokens(r)
    PROVE  \/ UNCHANGED req
           \/ /\ Carries(r)
              /\ \A q \in Reqs \ {r} : req'[q] = req[q]
<1>1. CASE Deliver(r) \/ Expire(r)
  BY <1>1 DEF Deliver, Expire
<1>2. CASE ~(Deliver(r) \/ Expire(r))
  <2>1. PICK p \in Steps :
            /\ GoTo(r, p)
            /\ p \notin {"exist", "make", "raise", "unrole", "redeem", "idle",
                         "issue"}
            /\ p \in {"insert", "assign"} => CheckAssignable(r)
    <3>1. CASE CheckAssignable(r)
      BY <3>1 DEF CheckAssignable, Write, Steps
    <3>2. CASE CheckExist(r)
      BY <3>2 DEF CheckExist, Steps
    <3>3. CASE Insert(r)
      BY <3>3 DEF Insert, Steps
    <3>4. CASE Abort(r) \/ EmailTaken(r) \/ RoleNameTaken(r) \/ ResendInvite(r)
      BY <3>4 DEF Abort, EmailTaken, RoleNameTaken, ResendInvite, Steps
    <3>5. CASE \/ Assign(r) \/ Remove(r) \/ Restore(r) \/ UpdateStatus(r)
               \/ WriteRole(r) \/ DeleteRole(r) \/ EnqueueEmail(r)
               \/ Issue(r) \/ Redeem(r)
      BY <3>5 DEF Assign, Remove, Restore, UpdateStatus, WriteRole,
                  DeleteRole, EnqueueEmail, Issue, Redeem, Steps
    <3> QED
      BY <1>2, <3>1, <3>2, <3>3, <3>4, <3>5 DEF Checks, Manages, Mails, Tokens
  <2>2. UnderWay(r)
    BY <1>2 DEF Checks, Insert, Manages, Mails, Tokens, CheckExist,
       CheckAssignable, EmailTaken, RoleNameTaken, Abort, Assign, Remove, Restore,
       UpdateStatus, ResendInvite, WriteRole, DeleteRole, EnqueueEmail,
       Issue, Redeem, At, UnderWay, Ended
  <2>3. /\ req \in [Reqs -> Request]
        /\ \A q \in Reqs \ {r} : req'[q] = req[q]
        /\ req'[r].step = p /\ req'[r].op = req[r].op
        /\ req'[r].by = req[r].by /\ req'[r].user = req[r].user
        /\ req'[r].roles = req[r].roles /\ req'[r].token = req[r].token
        /\ req'[r].grant = req[r].grant
    BY <2>1, GoToFields DEF Shape, TypeOK
  <2>4. At(r, "exist") => CheckExist(r) \/ Abort(r)
    BY <1>2 DEF Checks, Insert, Manages, Mails, Tokens,
       CheckAssignable, EmailTaken, RoleNameTaken, Assign, Remove, Restore,
       UpdateStatus, ResendInvite, WriteRole, DeleteRole, EnqueueEmail,
       Issue, Redeem, At
  <2>5. At(r, "redeem") => Redeem(r) \/ Abort(r)
    BY <1>2 DEF Checks, Insert, Manages, Mails, Tokens, CheckExist,
       CheckAssignable, EmailTaken, RoleNameTaken, Assign, Remove, Restore,
       UpdateStatus, ResendInvite, WriteRole, DeleteRole, EnqueueEmail,
       Issue, At
  <2> QED
    BY <2>1, <2>2, <2>3, <2>4, <2>5 DEF Carries
<1> QED
  BY <1>1, <1>2

(* Request q stays, goes on, or arrives.                                   *)
LEMMA RequestMoves ==
    ASSUME Shape, Next, NEW q \in Reqs
    PROVE  \/ req'[q] = req[q]
           \/ Carries(q)
           \/ Arrives(q) /\ req'[q] \in Request /\ Start(q, req'[q])
<1>1. PICK r \in Reqs :
          \/ Arrives(r) \/ Checks(r) \/ Insert(r) \/ Manages(r)
          \/ WriteRole(r) \/ DeleteRole(r) \/ Mails(r) \/ Tokens(r)
  BY NextCases
<1>2. CASE Arrives(r)
  <2>1. PICK x \in Request : Start(r, x) /\ WellFormed(x)
    BY <1>2, ArrivesShape
  <2>2. req'[r] = x /\ \A p \in Reqs \ {r} : req'[p] = req[p]
    BY <2>1, StartShape
  <2> QED
    BY <1>2, <2>1, <2>2
<1>3. CASE ~Arrives(r)
  BY <1>1, <1>3, ActionMoves
<1> QED
  BY <1>2, <1>3

-----------------------------------------------------------------------------
(* Hires.                                                                  *)

(* The account a hire is about has not come into use.                      *)
HiresAreFree ==
    \A r \in Reqs \ caught :
        UnderWay(r) /\ req[r].op = "hire" => ~Present(req[r].user)

(* An account comes into use by a hire or a restore.                       *)
LEMMA WhoAppears ==
    ASSUME Shape, Next, NEW u \in Users, ~Present(u), Present(u)'
    PROVE  Appears(u)
<1>1. PICK r \in Reqs :
          \/ Arrives(r) \/ Checks(r) \/ Insert(r) \/ Manages(r)
          \/ WriteRole(r) \/ DeleteRole(r) \/ Mails(r) \/ Tokens(r)
  BY NextCases
<1>2. user \in [Users -> User]
  BY ShapeParts
<1>3. ~Arrives(r)
  <2> SUFFICES ASSUME Arrives(r) PROVE FALSE
    OBVIOUS
  <2>1. UNCHANGED user
    BY ArrivesShape DEF Start
  <2> QED
    BY <2>1 DEF Present
<1>4. ~(Checks(r) \/ WriteRole(r) \/ DeleteRole(r) \/ Mails(r))
  <2> SUFFICES ASSUME Checks(r) \/ WriteRole(r) \/ DeleteRole(r) \/ Mails(r)
               PROVE  FALSE
    OBVIOUS
  <2>1. UNCHANGED user
    BY DEF Checks, Mails, CheckExist, CheckAssignable, EmailTaken, RoleNameTaken, Abort,
           WriteRole, DeleteRole, EnqueueEmail, Deliver
  <2> QED
    BY <2>1 DEF Present
<1>5. ~Tokens(r)
  <2>1. CASE Issue(r) \/ Expire(r)
    BY <2>1 DEF Issue, Expire, Present
  <2>2. ~Redeem(r)
    <3> SUFFICES ASSUME Redeem(r) PROVE FALSE
      OBVIOUS
    <3>1. \E row : /\ user' = [user EXCEPT ![req[r].user] = row]
                   /\ row.state = user[req[r].user].state
      <4>1. PICK v : v = user[req[r].user]
        OBVIOUS
      <4>2. v \in User
        BY <4>1, ShapeParts DEF Redeem, At, WellFormed, OfUser
      <4>3. /\ [v EXCEPT !.pw = r].state = v.state
            /\ [v EXCEPT !.verified = TRUE, !.status = "ACTIVE"].state = v.state
        BY <4>2 DEF User
      <4>4. \/ user' = [user EXCEPT ![req[r].user] = [v EXCEPT !.pw = r]]
            \/ user' = [user EXCEPT ![req[r].user] =
                           [v EXCEPT !.verified = TRUE, !.status = "ACTIVE"]]
        BY <4>1 DEF Redeem, Set
      <4> QED
        BY <4>1, <4>3, <4>4
    <3> QED
      BY <1>2, <3>1 DEF Present
  <2> QED
    BY <2>1, <2>2 DEF Tokens
<1>6. ~(Assign(r) \/ Remove(r) \/ UpdateStatus(r) \/ ResendInvite(r))
  BY <1>2 DEF Assign, Remove, UpdateStatus, ResendInvite, Present, Set, User
<1>7. CASE Insert(r)
  <2>1. u = req[r].user
    BY <1>2, <1>7 DEF Insert, Present, Set
  <2> QED
    BY <1>7, <2>1 DEF Insert
<1>8. CASE Restore(r)
  <2>1. u = req[r].user
    BY <1>2, <1>8 DEF Restore, Present, Set
  <2> QED
    BY <1>8, <2>1 DEF Restore
<1> QED
  BY <1>1, <1>3, <1>4, <1>5, <1>6, <1>7, <1>8 DEF Manages

LEMMA HistoryGrows ==
    ASSUME Next
    PROVE  /\ caught \subseteq caught' /\ overtaken \subseteq overtaken'
           /\ clashed \subseteq clashed' /\ posed \subseteq posed'
<1>1. PICK r \in Reqs :
          \/ Arrives(r) \/ Checks(r) \/ Insert(r) \/ Manages(r)
          \/ WriteRole(r) \/ DeleteRole(r) \/ Mails(r) \/ Tokens(r)
  BY NextCases
<1>2. CASE Arrives(r)
  <2>1. \E q : Start(r, q)
    BY <1>2 DEF Arrives, Hire, AssignRoles, CreateRole, UpdateRole,
                RemoveRole, Manage, Forgot, FindToken
  <2> QED
    BY <2>1 DEF Start
<1>3. CASE Insert(r) \/ Restore(r)
  BY <1>3 DEF Insert, Restore, Appears
<1>4. CASE WriteRole(r)
  BY <1>4 DEF WriteRole
<1>5. CASE \/ Checks(r) \/ Assign(r) \/ Remove(r) \/ UpdateStatus(r)
           \/ ResendInvite(r) \/ DeleteRole(r) \/ Mails(r) \/ Tokens(r)
  BY <1>5 DEF Checks, CheckExist, CheckAssignable, EmailTaken, RoleNameTaken, Abort, Assign,
     Remove, UpdateStatus, ResendInvite, DeleteRole, Mails, EnqueueEmail,
     Deliver, Tokens, Issue, Expire, Redeem, history
<1> QED
  BY <1>1, <1>2, <1>3, <1>4, <1>5 DEF Manages

(* A request that hires has arrived as a hire.                             *)
LEMMA ArrivedAs ==
    ASSUME Shape, NEW r \in Reqs, Arrives(r), NEW q \in Request, Start(r, q)
    PROVE  /\ req'[r] = q
           /\ q.op = "hire" => Hire(r) /\ q.user \in Users /\ ~Present(q.user)
           /\ q.step = "insert" => q.roles = {}
           /\ q.step \notin Ended \cup {"idle", "assign"}
           /\ q.op \in Handing => q.step = "exist" \/ q.roles = {}
           /\ q.op = "unrole" =>
                  \A x \in q.roles, u \in Users : x \notin user[u].roles
           /\ \/ q.token = Nil
              \/ /\ q.step = "redeem" /\ q.token \in Reqs
                 /\ token[q.token].state = "open"
<1>1. req'[r] = q /\ \A x \in Request : Start(r, x) => x = q
  BY DEF Start, Shape, TypeOK
<1>2. CASE Hire(r)
  BY <1>1, <1>2, HireArrives DEF Ended
<1>3. CASE AssignRoles(r)
  BY <1>1, <1>3, AssignRolesArrives DEF Ended
<1>4. CASE CreateRole(r) \/ UpdateRole(r)
  BY <1>1, <1>4, CreateRoleArrives, UpdateRoleArrives DEF Handing, Writing, Ended
<1>5. CASE RemoveRole(r)
  BY <1>1, <1>5, RemoveRoleArrives DEF Handing, Ended
<1>6. CASE Manage(r)
  BY <1>1, <1>6, ManageArrives DEF Handing, Ended
<1>7. CASE Forgot(r)
  BY <1>1, <1>7, ForgotArrives DEF Handing, Ended
<1>8. CASE FindToken(r)
  BY <1>1, <1>8, FindTokenArrives DEF Handing, Ended
<1> QED
  BY <1>2, <1>3, <1>4, <1>5, <1>6, <1>7, <1>8 DEF Arrives

LEMMA HireStaysFree ==
    ASSUME Shape, HiresAreFree, Next, NEW r \in Reqs \ caught',
           UnderWay(r)', req'[r].op = "hire"
    PROVE  ~Present(req[r].user)'
<1>1. r \in Reqs /\ r \notin caught
  BY HistoryGrows
<1>2. CASE req'[r] = req[r] \/ Carries(r)
  <2>1. UnderWay(r) /\ req[r].op = "hire" /\ req'[r].user = req[r].user
    BY <1>2 DEF Carries, UnderWay
  <2>2. req[r].user \in Users
    BY <1>1, <2>1, ShapeParts DEF UnderWay, WellFormed, OfUser, Request, Steps,
                                  Ended
  <2>3. ~Present(req[r].user)
    BY <1>1, <2>1 DEF HiresAreFree
  <2>4. CASE Present(req[r].user)'
    <3>1. Appears(req[r].user)
      <4>1. PICK u : u = req[r].user
        OBVIOUS
      <4>2. Present(u)' /\ ~Present(u)
        BY <2>1, <2>3, <2>4, <4>1 DEF Present
      <4> QED
        BY <2>2, <4>1, <4>2, WhoAppears
    <3> QED
      BY <1>1, <2>1, <3>1 DEF Appears
  <2> QED
    BY <2>1, <2>4 DEF Present
<1>3. CASE Arrives(r) /\ req'[r] \in Request /\ Start(r, req'[r])
  <2>1. ~Present(req'[r].user)
    BY <1>1, <1>3, ArrivedAs
  <2>2. UNCHANGED user
    BY <1>3 DEF Start
  <2> QED
    BY <2>1, <2>2 DEF Present
<1> QED
  BY <1>1, <1>2, <1>3, RequestMoves

LEMMA HiresInvariance == Spec => [](Shape /\ HiresAreFree)
<1>1. Init => HiresAreFree
  BY DEF Init, HiresAreFree, UnderWay, Idle
<1>2. Shape /\ HiresAreFree /\ [Next]_vars => HiresAreFree'
  <2> SUFFICES ASSUME Shape, HiresAreFree, [Next]_vars PROVE HiresAreFree'
    OBVIOUS
  <2>1. CASE Next
    BY <2>1, HireStaysFree DEF HiresAreFree
  <2>2. CASE UNCHANGED vars
    BY <2>2 DEF vars, history, HiresAreFree, UnderWay, Present
  <2> QED
    BY <2>1, <2>2
<1> QED
  BY <1>1, <1>2, InitShape, NextShape, PTL DEF Spec

(* A hire writes no account in use, unless it came into use meanwhile.     *)
THEOREM HiresSpare == Spec => []HireSparesAccountsInUse
<1>1. Shape /\ HiresAreFree => HireSparesAccountsInUse
  BY DEF Shape, RequestsWellFormed, WellFormed, HiresAreFree,
         HireSparesAccountsInUse, At, UnderWay, Ended
<1> QED
  BY <1>1, HiresInvariance, PTL

-----------------------------------------------------------------------------
(* Platform permissions.                                                   *)

(* What a tenant is about to write carries none, or has been overtaken.    *)
TenantsOfferNone ==
    \A r \in Reqs \ overtaken :
        req[r].step \in {"insert", "assign"} /\ req[r].by # "super" =>
            \A x \in req[r].roles : ~role[x].platform

(* A role comes by them by a request of a platform owner, and requests     *)
(* that hand it out at that moment count as overtaken.                     *)
LEMMA WhoRaises ==
    ASSUME Shape, Next, NEW x \in Roles, ~role[x].platform, role'[x].platform
    PROVE  \E r \in Reqs : /\ req[r].by = "super" /\ req'[r].step # req[r].step
                           /\ UNCHANGED user
                           /\ \A q \in Reqs \ {r} : req'[q] = req[q]
                           /\ \A q \in Reqs : Hands(q, x) => q \in overtaken'
<1>1. PICK r \in Reqs :
          \/ Arrives(r) \/ Checks(r) \/ Insert(r) \/ Manages(r)
          \/ WriteRole(r) \/ DeleteRole(r) \/ Mails(r) \/ Tokens(r)
  BY NextCases
<1>2. role \in [Roles -> Role] /\ req[r] \in Request /\ WellFormed(req[r])
  BY ShapeParts
<1>3. ~Arrives(r)
  BY ArrivesShape DEF Start
<1>4. ~(\/ Checks(r) \/ Insert(r) \/ Manages(r) \/ Mails(r) \/ Tokens(r))
  BY DEF Checks, CheckExist, CheckAssignable, EmailTaken, RoleNameTaken,
     Abort, Insert, Manages, Assign, Remove, Restore, UpdateStatus, ResendInvite, Mails,
     EnqueueEmail, Deliver, Tokens, Issue, Expire, Redeem
<1>5. ~DeleteRole(r)
  BY <1>2 DEF DeleteRole, Role
<1>6. CASE WriteRole(r)
  <2>1. x \in req[r].roles /\ req[r].grant = "platform"
    BY <1>2, <1>6 DEF WriteRole, Written, Role
  <2>2. req[r].by = "super"
    BY <1>2, <1>6, <2>1 DEF WriteRole, At, WellFormed
  <2>3. req'[r].step = "done" /\ \A q \in Reqs \ {r} : req'[q] = req[q]
    BY <1>6, GoToFields DEF WriteRole, Shape, Steps
  <2> QED
    BY <1>6, <2>1, <2>2, <2>3 DEF WriteRole, At
<1> QED
  BY <1>1, <1>3, <1>4, <1>5, <1>6

LEMMA OfferStaysHarmless ==
    ASSUME Shape, TenantsOfferNone, Next, NEW r \in Reqs \ overtaken',
           req'[r].step \in {"insert", "assign"}, req'[r].by # "super",
           NEW x \in req'[r].roles
    PROVE  ~role'[x].platform
<1>1. r \in Reqs /\ r \notin overtaken
  BY HistoryGrows
<1>2. CASE req'[r] = req[r] \/ (Carries(r) /\ req'[r].step = req[r].step)
  <2>1. /\ req[r].step \in {"insert", "assign"} /\ req[r].by # "super"
        /\ x \in req[r].roles
    BY <1>2 DEF Carries
  <2>2. x \in Roles /\ ~role[x].platform
    BY <1>1, <2>1, ShapeParts DEF TenantsOfferNone, Request
  <2>3. Hands(r, x)
    BY <1>1, <2>1, ShapeParts DEF Hands, UnderWay, Ended, WellFormed, Handing
  <2> QED
    BY <1>1, <2>2, <2>3, WhoRaises
<1>3. CASE Carries(r) /\ CheckAssignable(r)
  <2>1. UNCHANGED role
    BY <1>3 DEF CheckAssignable
  <2>2. req'[r].step = IF \/ req[r].by = "super"
                          \/ \A y \in req[r].roles : ~role[y].platform
                       THEN Write(r) ELSE "rejected"
    <3>1. req \in [Reqs -> Request] /\ req[r] \in Request
      BY <1>1, ShapeParts
    <3> QED
      BY <1>1, <1>3, <3>1 DEF CheckAssignable, GoTo, Request
  <2> QED
    BY <1>3, <2>1, <2>2 DEF Carries
<1>4. CASE Arrives(r) /\ req'[r] \in Request /\ Start(r, req'[r])
  BY <1>1, <1>4, ArrivedAs
<1> QED
  BY <1>1, <1>2, <1>3, <1>4, RequestMoves DEF Carries

(* Who comes to hold platform permissions has a role in the step that      *)
(* gives them.                                                             *)
LEMMA WhoHandsOut ==
    ASSUME Shape, Next, NEW u \in Users, NEW x \in user'[u].roles,
           x \notin user[u].roles
    PROVE  \E r \in Reqs : /\ req[r].step \in {"insert", "assign"}
                           /\ x \in req[r].roles /\ UNCHANGED role
                           /\ req'[r].step # req[r].step
<1>1. PICK r \in Reqs :
          \/ Arrives(r) \/ Checks(r) \/ Insert(r) \/ Manages(r)
          \/ WriteRole(r) \/ DeleteRole(r) \/ Mails(r) \/ Tokens(r)
  BY NextCases
<1>2. /\ user \in [Users -> User] /\ req[r] \in Request /\ WellFormed(req[r])
      /\ req \in [Reqs -> Request]
  BY ShapeParts
<1>3. ~Arrives(r)
  BY ArrivesShape DEF Start
<1>4. ~(\/ Checks(r) \/ WriteRole(r) \/ DeleteRole(r) \/ Mails(r))
  BY DEF Checks, CheckExist, CheckAssignable, EmailTaken, RoleNameTaken, Abort,
     WriteRole, DeleteRole, Mails, EnqueueEmail, Deliver
<1>5. ~(Remove(r) \/ Restore(r) \/ UpdateStatus(r) \/ ResendInvite(r))
  BY <1>2 DEF Remove, Restore, UpdateStatus, ResendInvite, Set, User
<1>6. ~(Issue(r) \/ Expire(r))
  BY DEF Issue, Expire
<1>7. ~Redeem(r)
  <2> SUFFICES ASSUME Redeem(r) PROVE FALSE
    OBVIOUS
  <2>1. user[req[r].user] \in User
    BY <1>2 DEF Redeem, At, WellFormed, OfUser
  <2>2. \E row : /\ user' = [user EXCEPT ![req[r].user] = row]
                 /\ row.roles = user[req[r].user].roles
    <3>1. PICK v : v = user[req[r].user]
      OBVIOUS
    <3>2. /\ [v EXCEPT !.pw = r].roles = v.roles
          /\ [v EXCEPT !.verified = TRUE, !.status = "ACTIVE"].roles = v.roles
      BY <2>1, <3>1 DEF User
    <3>3. \/ user' = [user EXCEPT ![req[r].user] = [v EXCEPT !.pw = r]]
          \/ user' = [user EXCEPT ![req[r].user] =
                         [v EXCEPT !.verified = TRUE, !.status = "ACTIVE"]]
      BY <3>1 DEF Redeem, Set
    <3> QED
      BY <3>1, <3>2, <3>3
  <2> QED
    BY <1>2, <2>2
<1>8. CASE Insert(r)
  <2>1. \E row : /\ user' = [user EXCEPT ![req[r].user] = row]
                 /\ row.roles = req[r].roles
    <3>1. PICK v : v = user[req[r].user]
      OBVIOUS
    <3>2. v \in User
      BY <1>2, <1>8, <3>1 DEF Insert, At, WellFormed, OfUser
    <3>3. [v EXCEPT !.state = "present", !.status = "ACTIVE", !.pw = r,
                    !.roles = req[r].roles].roles = req[r].roles
      BY <3>2 DEF User
    <3>4. \/ user' = [user EXCEPT ![req[r].user] =
                [v EXCEPT !.state = "present", !.status = "ACTIVE", !.pw = r,
                          !.roles = req[r].roles]]
          \/ user' = [user EXCEPT ![req[r].user] =
                [state |-> "present", status |-> "PENDING", verified |-> FALSE,
                 pw |-> r, roles |-> req[r].roles]]
      BY <1>8, <3>1 DEF Insert, Set
    <3> QED
      BY <3>3, <3>4
  <2>2. req'[r].step \in {"mail", "done"}
    BY <1>2, <1>8 DEF Insert, GoTo, Request
  <2> QED
    BY <1>2, <1>8, <2>1, <2>2 DEF Insert, At
<1>9. CASE Assign(r)
  <2>1. \E row : /\ user' = [user EXCEPT ![req[r].user] = row]
                 /\ row.roles = req[r].roles
    <3>1. PICK v : v = user[req[r].user]
      OBVIOUS
    <3>2. v \in User
      BY <1>2, <1>9, <3>1 DEF Assign, At, WellFormed, OfUser
    <3>3. [v EXCEPT !.roles = req[r].roles].roles = req[r].roles
      BY <3>2 DEF User
    <3> QED
      BY <1>9, <3>1, <3>3 DEF Assign, Set
  <2>2. req'[r].step = "done"
    BY <1>2, <1>9 DEF Assign, GoTo, Request
  <2> QED
    BY <1>2, <1>9, <2>1, <2>2 DEF Assign, At
<1> QED
  BY <1>1, <1>3, <1>4, <1>5, <1>6, <1>7, <1>8, <1>9 DEF Manages, Tokens

(* Only a request, or the seed, names a role SUPER_ADMIN; the seeded one   *)
(* cannot be changed.                                                      *)
NamesAreGuarded ==
    \A x \in Roles : role[x].super =>
        x \in posed \/ (x \in System /\ role[x].platform)

(* A role's name or permissions change by one request; the others stay.    *)
LEMMA WhoWritesRoles ==
    ASSUME Shape, Next, NEW x \in Roles,
           ~(role'[x].super => role[x].super)
           \/ ~(role[x].platform => role'[x].platform)
    PROVE  \E r \in Reqs : WriteRole(r) /\ x \in req[r].roles
<1>1. PICK r \in Reqs :
          \/ Arrives(r) \/ Checks(r) \/ Insert(r) \/ Manages(r)
          \/ WriteRole(r) \/ DeleteRole(r) \/ Mails(r) \/ Tokens(r)
  BY NextCases
<1>2. role \in [Roles -> Role]
  BY ShapeParts
<1>3. ~Arrives(r)
  BY ArrivesShape DEF Start
<1>4. ~(\/ Checks(r) \/ Insert(r) \/ Manages(r) \/ Mails(r) \/ Tokens(r))
  BY DEF Checks, CheckExist, CheckAssignable, EmailTaken, RoleNameTaken, Abort,
     Insert, Manages, Assign, Remove, Restore, UpdateStatus, ResendInvite,
     Mails, EnqueueEmail, Deliver, Tokens, Issue, Expire, Redeem
<1>5. ~DeleteRole(r)
  BY <1>2 DEF DeleteRole, Role
<1>6. CASE WriteRole(r)
  BY <1>2, <1>6 DEF WriteRole
<1> QED
  BY <1>1, <1>3, <1>4, <1>5, <1>6

(* What the writing of a role makes of it.                                 *)
LEMMA RoleWritten ==
    ASSUME Shape, NEW r \in Reqs, WriteRole(r), NEW x \in Roles,
           x \in req[r].roles
    PROVE  /\ role'[x].super => x \in posed' \/ role[x].super
           /\ x \notin System
           /\ req'[r].step # req[r].step
           /\ posed \subseteq posed' /\ UNCHANGED user
<1>1. /\ role \in [Roles -> Role] /\ req \in [Reqs -> Request]
      /\ req[r] \in Request /\ WellFormed(req[r])
  BY ShapeParts
<1>2. role'[x] = Written(r, role[x])
  BY <1>1 DEF WriteRole
<1>3. role'[x].super => x \in posed' \/ role[x].super
  BY <1>2 DEF WriteRole, Written
<1>4. x \notin System
  BY <1>1 DEF WriteRole, At, WellFormed, Writing
<1>5. req'[r].step = "done"
  BY <1>1 DEF WriteRole, GoTo, Request
<1> QED
  BY <1>3, <1>4, <1>5 DEF WriteRole, At

LEMMA NamesStep ==
    ASSUME Shape, NamesAreGuarded, Next
    PROVE  NamesAreGuarded'
<1> SUFFICES ASSUME NEW x \in Roles, role'[x].super
             PROVE  x \in posed' \/ (x \in System /\ role'[x].platform)
  BY DEF NamesAreGuarded
<1>1. posed \subseteq posed'
  BY HistoryGrows
<1>2. CASE role[x].super
  <2>1. x \in posed \/ (x \in System /\ role[x].platform)
    BY <1>2 DEF NamesAreGuarded
  <2>2. CASE x \in System /\ role[x].platform
    <3>1. CASE ~role'[x].platform
      <4>1. PICK r \in Reqs : WriteRole(r) /\ x \in req[r].roles
        BY <2>2, <3>1, WhoWritesRoles
      <4> QED
        BY <2>2, <4>1, RoleWritten
    <3> QED
      BY <2>2, <3>1
  <2> QED
    BY <1>1, <2>1, <2>2
<1>3. CASE ~role[x].super
  <2>1. PICK r \in Reqs : WriteRole(r) /\ x \in req[r].roles
    BY <1>3, WhoWritesRoles
  <2> QED
    BY <1>3, <2>1, RoleWritten
<1> QED
  BY <1>2, <1>3

(* Who becomes a platform owner by role x.                                 *)
Earned(x) ==
    \E r \in Reqs : /\ req'[r].step # req[r].step
                    /\ \/ req[r].by = "super" \/ r \in overtaken
                       \/ x \in posed' /\ ~role'[x].platform

LEMMA EscalationStep ==
    ASSUME Shape, TenantsOfferNone, NamesAreGuarded, Next,
           NEW u \in Users, NEW x \in Roles, x \in user'[u].roles, Owns(x)',
           ~(x \in user[u].roles /\ Owns(x))
    PROVE  Earned(x)
<1>1. CASE x \in user[u].roles
  <2>1. ~role[x].platform /\ ~role[x].super
    BY <1>1 DEF Owns
  <2>2. CASE role'[x].platform
    BY <2>1, <2>2, WhoRaises DEF Earned
  <2>3. CASE ~role'[x].platform
    <3>1. role'[x].super
      BY <2>3 DEF Owns
    <3>2. PICK r \in Reqs : WriteRole(r) /\ x \in req[r].roles
      BY <2>1, <3>1, WhoWritesRoles
    <3>3. x \in posed' /\ req'[r].step # req[r].step
      BY <2>1, <3>1, <3>2, RoleWritten
    <3> QED
      BY <2>3, <3>3 DEF Earned
  <2> QED
    BY <2>2, <2>3
<1>2. CASE x \notin user[u].roles
  <2>1. PICK r \in Reqs :
            /\ req[r].step \in {"insert", "assign"} /\ x \in req[r].roles
            /\ UNCHANGED role /\ req'[r].step # req[r].step
    BY <1>2, WhoHandsOut
  <2>2. CASE role[x].platform
    BY <2>1, <2>2 DEF TenantsOfferNone, Earned
  <2>3. CASE ~role[x].platform
    <3>1. role[x].super
      BY <2>1, <2>3 DEF Owns
    <3>2. x \in posed /\ posed \subseteq posed'
      BY <2>3, <3>1, HistoryGrows DEF NamesAreGuarded
    <3> QED
      BY <2>1, <2>3, <3>2 DEF Earned
  <2> QED
    BY <2>2, <2>3
<1> QED
  BY <1>1, <1>2

(* Whoever comes to be a platform owner by a role, be it through its       *)
(* permissions or its name, got it from a platform owner, or while one was *)
(* raising the role, or by a role that a request has named SUPER_ADMIN and *)
(* that does not carry the permissions.                                    *)
THEOREM TenantsDoNotEscalate == Spec => NoEscalation
<1> DEFINE Inv == Shape /\ TenantsOfferNone /\ NamesAreGuarded
<1>1. Init => Inv
  <2> SUFFICES ASSUME Init PROVE Inv
    OBVIOUS
  <2>1. TenantsOfferNone
    BY DEF Init, TenantsOfferNone, Idle
  <2>2. ASSUME NEW x \in Roles, role[x].super PROVE x \in System /\ role[x].platform
    <3>1. role[x].super = (x \in Named) /\ role[x].platform = (x \in Platform)
      BY DEF Init
    <3> QED
      BY <2>2, <3>1
  <2> QED
    BY <2>1, <2>2, InitShape DEF NamesAreGuarded
<1>2. Inv /\ [Next]_vars => Inv'
  <2> SUFFICES ASSUME Inv, [Next]_vars PROVE Inv'
    OBVIOUS
  <2>1. CASE Next
    <3>1. TenantsOfferNone'
      BY <2>1, OfferStaysHarmless DEF TenantsOfferNone
    <3> QED
      BY <2>1, <3>1, NextShape, NamesStep
  <2>2. CASE UNCHANGED vars
    BY <2>2, NextShape DEF vars, history, TenantsOfferNone, NamesAreGuarded
  <2> QED
    BY <2>1, <2>2
<1>3. Inv /\ [Next]_vars =>
          [\A o \in Ownerships' \ Ownerships :
               \E r \in Reqs :
                   /\ req'[r].step # req[r].step
                   /\ \/ req[r].by = "super" \/ r \in overtaken
                      \/ o[2] \in posed' /\ ~role'[o[2]].platform]_vars
  <2> SUFFICES ASSUME Inv, Next, NEW o \in Ownerships' \ Ownerships
               PROVE  Earned(o[2])
    BY DEF Earned
  <2>1. /\ o[1] \in Users /\ o[2] \in Roles
        /\ o[2] \in user'[o[1]].roles /\ Owns(o[2])'
        /\ ~(o[2] \in user[o[1]].roles /\ Owns(o[2]))
    BY DEF Ownerships, Owns
  <2> QED
    BY <2>1, EscalationStep
<1> QED
  BY <1>1, <1>2, <1>3, PTL DEF Spec, NoEscalation

-----------------------------------------------------------------------------
(* Removed roles.                                                          *)

Unheld(x) == \A u \in Users : x \notin user[u].roles

(* Where no removal has met a request that hands the role out: a removed   *)
(* role is not past the check of existence, and a role about to be removed *)
(* is handed out by nobody.                                                *)
RemovalsAreAlone ==
    \A x \in Roles \ clashed :
        /\ role[x].state = "deleted" =>
               Unheld(x) /\ \A q \in Reqs : Hands(q, x) => At(q, "exist")
        /\ \A r \in Reqs : Removes(r, x) =>
               Unheld(x) /\ \A q \in Reqs : ~Hands(q, x)

LEMMA WhoDeletes ==
    ASSUME Shape, Next, NEW x \in Roles, role[x].state # "deleted",
           role'[x].state = "deleted"
    PROVE  \E r \in Reqs : /\ Removes(r, x) /\ UNCHANGED user
                           /\ \A q \in Reqs \ {r} : req'[q] = req[q]
                           /\ req'[r].step = "done" /\ req[r].op = "unrole"
                           /\ req'[r].op = req[r].op
<1>1. PICK r \in Reqs :
          \/ Arrives(r) \/ Checks(r) \/ Insert(r) \/ Manages(r)
          \/ WriteRole(r) \/ DeleteRole(r) \/ Mails(r) \/ Tokens(r)
  BY NextCases
<1>2. role \in [Roles -> Role] /\ req[r] \in Request /\ WellFormed(req[r])
  BY ShapeParts
<1>3. ~Arrives(r)
  BY ArrivesShape DEF Start
<1>4. ~(\/ Checks(r) \/ Insert(r) \/ Manages(r) \/ Mails(r) \/ Tokens(r))
  BY DEF Checks, CheckExist, CheckAssignable, EmailTaken, RoleNameTaken,
     Abort, Insert, Manages, Assign, Remove, Restore, UpdateStatus, ResendInvite, Mails,
     EnqueueEmail, Deliver, Tokens, Issue, Expire, Redeem
<1>5. ~WriteRole(r)
  BY <1>2 DEF WriteRole, Written, Role
<1>6. CASE DeleteRole(r)
  <2>1. x \in req[r].roles
    BY <1>2, <1>6 DEF DeleteRole
  <2>2. req[r].op = "unrole" /\ UnderWay(r)
    BY <1>2, <1>6 DEF DeleteRole, At, WellFormed, UnderWay, Ended
  <2>3. /\ req'[r].step = "done" /\ req'[r].op = req[r].op
        /\ \A q \in Reqs \ {r} : req'[q] = req[q]
    BY <1>6, GoToFields DEF DeleteRole, Shape, Steps
  <2> QED
    BY <1>6, <2>1, <2>2, <2>3 DEF DeleteRole, Removes
<1> QED
  BY <1>1, <1>3, <1>4, <1>5, <1>6

(* A request that hands out a role has done so before, or arrives.         *)
LEMMA HandsBefore ==
    ASSUME Shape, Next, NEW q \in Reqs, NEW x \in Roles, Hands(q, x)'
    PROVE  \/ Hands(q, x) /\ (req'[q] = req[q] \/ Carries(q))
           \/ /\ At(q, "idle") /\ At(q, "exist")'
              /\ \A r \in Reqs : Removes(r, x) => x \in clashed'
<1>1. CASE req'[q] = req[q] \/ Carries(q)
  BY <1>1 DEF Hands, Carries, UnderWay
<1>2. CASE Arrives(q) /\ req'[q] \in Request /\ Start(q, req'[q])
  <2>1. req'[q].op \in Handing /\ x \in req'[q].roles
    BY DEF Hands
  <2>2. req'[q].step = "exist"
    BY <1>2, <2>1, ArrivedAs
  <2>3. \A r \in Reqs : Removes(r, x) => x \in clashed'
    BY <1>2, <2>1 DEF Start, Handing
  <2> QED
    BY <1>2, <2>2, <2>3 DEF Start, At
<1> QED
  BY <1>1, <1>2, RequestMoves

LEMMA NobodyTakes ==
    ASSUME Shape, Next, NEW x \in Roles, Unheld(x),
           \A q \in Reqs : Hands(q, x) => At(q, "exist")
    PROVE  Unheld(x)'
<1> SUFFICES ASSUME NEW u \in Users, x \in user'[u].roles PROVE FALSE
  BY DEF Unheld
<1>1. PICK r \in Reqs : req[r].step \in {"insert", "assign"} /\ x \in req[r].roles
  BY WhoHandsOut DEF Unheld
<1>2. Hands(r, x)
  BY <1>1, ShapeParts DEF Hands, UnderWay, Ended, WellFormed, Handing
<1> QED
  BY <1>1, <1>2 DEF At

LEMMA RemovalStays ==
    ASSUME Shape, RemovalsAreAlone, Next, NEW x \in Roles \ clashed',
           NEW r \in Reqs, Removes(r, x)'
    PROVE  (Unheld(x) /\ \A q \in Reqs : ~Hands(q, x))'
<1>1. x \in Roles /\ x \notin clashed
  BY HistoryGrows
<1>2. CASE Removes(r, x)
  <2>1. Unheld(x) /\ \A q \in Reqs : ~Hands(q, x)
    BY <1>1, <1>2 DEF RemovalsAreAlone
  <2>2. Unheld(x)'
    BY <1>1, <2>1, NobodyTakes
  <2>3. ASSUME NEW q \in Reqs PROVE ~Hands(q, x)'
    BY <1>1, <1>2, <2>1, HandsBefore
  <2> QED
    BY <2>2, <2>3
<1>3. CASE ~Removes(r, x)
  <2>1. Arrives(r) /\ req'[r] \in Request /\ Start(r, req'[r])
    BY <1>3, RequestMoves DEF Removes, Carries, UnderWay
  <2>2. req'[r].op = "unrole" /\ x \in req'[r].roles
    BY DEF Removes
  <2>3. Unheld(x) /\ UNCHANGED user
    BY <2>1, <2>2, ArrivedAs DEF Unheld, Start
  <2>4. \A q \in Reqs : ~Hands(q, x)
    BY <1>1, <2>1, <2>2 DEF Start
  <2>5. \A q \in Reqs \ {r} : req'[q] = req[q]
    BY <2>1 DEF Start, Shape, TypeOK
  <2>6. \A q \in Reqs : ~Hands(q, x)'
    BY <2>2, <2>4, <2>5 DEF Hands, UnderWay, Handing
  <2> QED
    BY <2>3, <2>6 DEF Unheld
<1> QED
  BY <1>2, <1>3

LEMMA RemovedStays ==
    ASSUME Shape, RemovalsAreAlone, Next, NEW x \in Roles \ clashed',
           role'[x].state = "deleted"
    PROVE  (Unheld(x) /\ \A q \in Reqs : Hands(q, x) => At(q, "exist"))'
<1>1. x \in Roles /\ x \notin clashed
  BY HistoryGrows
<1>2. CASE role[x].state = "deleted"
  <2>1. Unheld(x) /\ \A q \in Reqs : Hands(q, x) => At(q, "exist")
    BY <1>1, <1>2 DEF RemovalsAreAlone
  <2>2. Unheld(x)'
    BY <1>1, <2>1, NobodyTakes
  <2>3. ASSUME NEW q \in Reqs, Hands(q, x)' PROVE At(q, "exist")'
    <3>1. CASE Hands(q, x) /\ Carries(q)
      <4>1. At(q, "exist") /\ x \in req[q].roles
        BY <2>1, <3>1 DEF Hands
      <4>2. ~CheckExist(q) \/ req'[q].step = "rejected"
        <5>1. req \in [Reqs -> Request] /\ req[q] \in Request
          BY ShapeParts
        <5> QED
          BY <1>2, <4>1, <5>1 DEF CheckExist, GoTo, Request
      <4>3. ~Abort(q) \/ req'[q].step = "failed"
        <5>1. req \in [Reqs -> Request] /\ req[q] \in Request
          BY ShapeParts
        <5> QED
          BY <5>1 DEF Abort, GoTo, Request
      <4> QED
        BY <2>3, <3>1, <4>1, <4>2, <4>3 DEF Carries, Hands, UnderWay, Ended, At
    <3>2. CASE Hands(q, x) /\ req'[q] = req[q]
      BY <2>1, <3>2 DEF At
    <3> QED
      BY <1>1, <2>3, <3>1, <3>2, HandsBefore
  <2> QED
    BY <2>2, <2>3
<1>3. CASE role[x].state # "deleted"
  <2>1. PICK r \in Reqs :
            /\ Removes(r, x) /\ UNCHANGED user
            /\ \A q \in Reqs \ {r} : req'[q] = req[q]
            /\ req'[r].step = "done" /\ req[r].op = "unrole"
    BY <1>1, <1>3, WhoDeletes
  <2>2. Unheld(x) /\ \A q \in Reqs : ~Hands(q, x)
    BY <1>1, <2>1 DEF RemovalsAreAlone
  <2>3. \A q \in Reqs : ~Hands(q, x)'
    BY <2>1, <2>2 DEF Hands, UnderWay, Ended
  <2> QED
    BY <2>1, <2>2, <2>3 DEF Unheld
<1> QED
  BY <1>2, <1>3

(* A removed role is held by no account, unless its removal and a request  *)
(* that hands it out have met.                                             *)
THEOREM RemovedRolesUnheld == Spec => []RemovedRoleIsUnheld
<1>1. Init => RemovalsAreAlone
  BY DEF Init, RemovalsAreAlone, Removes, UnderWay, Idle
<1>2. Shape /\ RemovalsAreAlone /\ [Next]_vars => RemovalsAreAlone'
  <2> SUFFICES ASSUME Shape, RemovalsAreAlone, [Next]_vars
               PROVE  RemovalsAreAlone'
    OBVIOUS
  <2>1. CASE Next
    BY <2>1, RemovedStays, RemovalStays DEF RemovalsAreAlone
  <2>2. CASE UNCHANGED vars
    BY <2>2 DEF vars, history, RemovalsAreAlone, Unheld, Hands, Removes,
                UnderWay, At
  <2> QED
    BY <2>1, <2>2
<1>3. RemovalsAreAlone => RemovedRoleIsUnheld
  BY DEF RemovalsAreAlone, RemovedRoleIsUnheld, Unheld
<1> QED
  BY <1>1, <1>2, <1>3, InitShape, NextShape, PTL DEF Spec
-----------------------------------------------------------------------------
(* Tokens.                                                                 *)

EffectsOf(t) == {r \in Reqs : req[r].token = t /\ At(r, "done")}
PhaseMap     == [t \in Reqs |-> Phase(t)]
EffectsMap   == [t \in Reqs |-> EffectsOf(t)]

TokensFollow ==
    \A r \in Reqs :
        /\ req[r].token # Nil => req[r].step \in {"redeem", "done", "failed"}
        /\ req[r].step \in {"idle", "issue"} => token[r].state = "none"
        /\ At(r, "redeem") => token[req[r].token].state # "none"

LEMMA WhoWritesTokens ==
    ASSUME Shape, Next
    PROVE  UNCHANGED token \/ \E r \in Reqs : Tokens(r)
<1>1. PICK r \in Reqs :
          \/ Arrives(r) \/ Checks(r) \/ Insert(r) \/ Manages(r)
          \/ WriteRole(r) \/ DeleteRole(r) \/ Mails(r) \/ Tokens(r)
  BY NextCases
<1>2. CASE Arrives(r)
  BY <1>2, ArrivesShape DEF Start
<1>3. CASE \/ Checks(r) \/ Insert(r) \/ Manages(r) \/ WriteRole(r)
           \/ DeleteRole(r) \/ Mails(r)
  BY <1>3 DEF Checks, Insert, Manages, WriteRole, DeleteRole, Mails,
     CheckExist, CheckAssignable, EmailTaken, RoleNameTaken, Abort, Assign, Remove, Restore,
     UpdateStatus, ResendInvite, EnqueueEmail, Deliver
<1> QED
  BY <1>1, <1>2, <1>3

(* What the three writes of a token do.                                    *)
LEMMA IssueWrites ==
    ASSUME Shape, NEW r \in Reqs, Issue(r)
    PROVE  /\ token'[r].state = "open"
           /\ \A t \in Reqs \ {r} : token'[t] = token[t]
           /\ At(r, "issue") /\ req'[r].step = "done"
           /\ req'[r].token = req[r].token
           /\ \A q \in Reqs \ {r} : req'[q] = req[q]
<1>1. token \in [Reqs -> TokenRow]
  BY ShapeParts
<1>2. /\ req'[r].step = "done" /\ req'[r].token = req[r].token
      /\ \A q \in Reqs \ {r} : req'[q] = req[q]
  BY GoToFields DEF Issue, Shape, Steps
<1> QED
  BY <1>1, <1>2 DEF Issue

LEMMA ExpireWrites ==
    ASSUME Shape, NEW r \in Reqs, Expire(r)
    PROVE  /\ token[r].state = "open" /\ token'[r].state = "expired"
           /\ \A t \in Reqs \ {r} : token'[t] = token[t]
           /\ UNCHANGED req
<1>1. token \in [Reqs -> TokenRow] /\ token[r] \in TokenRow
  BY ShapeParts
<1> QED
  BY <1>1 DEF Expire, TokenRow

LEMMA RedeemWrites ==
    ASSUME Shape, NEW r \in Reqs, Redeem(r)
    PROVE  /\ req[r].token \in Reqs /\ At(r, "redeem")
           /\ token'[req[r].token].state = "used"
           /\ \A t \in Reqs \ {req[r].token} : token'[t] = token[t]
           /\ req'[r].step = "done" /\ req'[r].token = req[r].token
           /\ \A q \in Reqs \ {r} : req'[q] = req[q]
<1>1. req[r].token \in Reqs /\ At(r, "redeem")
  BY ShapeParts DEF Redeem, At, WellFormed
<1>2. token \in [Reqs -> TokenRow] /\ token[req[r].token] \in TokenRow
  BY <1>1, ShapeParts
<1>3. /\ token'[req[r].token].state = "used"
      /\ \A t \in Reqs \ {req[r].token} : token'[t] = token[t]
  BY <1>1, <1>2 DEF Redeem, TokenRow
<1>4. /\ req'[r].step = "done" /\ req'[r].token = req[r].token
      /\ \A q \in Reqs \ {r} : req'[q] = req[q]
  BY GoToFields DEF Redeem, Shape, Steps
<1> QED
  BY <1>1, <1>3, <1>4

LEMMA TokensFollowStep ==
    ASSUME Shape, TokensFollow, Next
    PROVE  TokensFollow'
<1>1. \A t \in Reqs : token[t].state # "none" => token'[t].state # "none"
  BY WhoWritesTokens, IssueWrites, ExpireWrites, RedeemWrites DEF Tokens
<1>2. \A t \in Reqs : token[t].state = "none" =>
          token'[t].state = "none" \/ Issue(t)
  <2>1. ASSUME NEW r \in Reqs, Redeem(r) PROVE token[req[r].token].state # "none"
    BY <2>1, RedeemWrites DEF TokensFollow
  <2> QED
    BY <2>1, WhoWritesTokens, IssueWrites, ExpireWrites, RedeemWrites DEF Tokens
<1> SUFFICES ASSUME NEW q \in Reqs
             PROVE  /\ req'[q].token # Nil =>
                           req'[q].step \in {"redeem", "done", "failed"}
                    /\ req'[q].step \in {"idle", "issue"} =>
                           token'[q].state = "none"
                    /\ req'[q].step = "redeem" =>
                           token'[req'[q].token].state # "none"
  BY DEF TokensFollow, At
<1>3. CASE req'[q] = req[q]
  <2>1. req[q].step \in {"idle", "issue"} => ~Issue(q)
    BY <1>3, IssueWrites DEF At
  <2>2. req[q].step = "redeem" => req[q].token \in Reqs
    BY ShapeParts DEF WellFormed
  <2> QED
    BY <1>1, <1>2, <1>3, <2>1, <2>2 DEF TokensFollow, At
<1>4. CASE Carries(q)
  <2>1. req[q].token # Nil => At(q, "redeem")
    BY <1>4 DEF TokensFollow, Carries, UnderWay, Ended, At
  <2>2. Redeem(q) => req'[q].step = "done"
    BY RedeemWrites
  <2>3. Abort(q) => req'[q].step = "failed"
    BY GoToFields DEF Abort, Shape, Steps
  <2>4. req'[q].step # "redeem"
    BY <1>4, <2>2, <2>3 DEF Carries, At
  <2> QED
    BY <1>4, <2>1, <2>2, <2>3, <2>4 DEF Carries
<1>5. CASE Arrives(q) /\ req'[q] \in Request /\ Start(q, req'[q])
  <2>1. /\ req'[q].token # Nil =>
              req'[q].step = "redeem" /\ token[req'[q].token].state = "open"
    BY <1>5, ArrivedAs
  <2>2. At(q, "idle") /\ UNCHANGED token
    BY <1>5 DEF Start
  <2>3. token'[q].state = "none"
    BY <2>2 DEF TokensFollow, At
  <2>4. req'[q].step = "redeem" => req'[q].token # Nil
    BY NextShape, ShapeParts DEF Shape, RequestsWellFormed, WellFormed
  <2> QED
    BY <2>1, <2>2, <2>3, <2>4
<1> QED
  BY <1>3, <1>4, <1>5, RequestMoves

LEMMA TokensInvariance == Spec => [](Shape /\ TokensFollow)
<1>1. Init => TokensFollow
  BY DEF Init, TokensFollow, Idle, At
<1>2. Shape /\ TokensFollow /\ [Next]_vars => TokensFollow'
  <2> SUFFICES ASSUME Shape, TokensFollow, [Next]_vars PROVE TokensFollow'
    OBVIOUS
  <2>1. CASE UNCHANGED vars
    BY <2>1 DEF vars, TokensFollow, At
  <2> QED
    BY <2>1, TokensFollowStep
<1> QED
  BY <1>1, <1>2, InitShape, NextShape, PTL DEF Spec
LEMMA TokenInit == Init => Token!Init
<1> SUFFICES ASSUME Init PROVE Token!Init
  OBVIOUS
<1>1. \A t \in Reqs : Phase(t) = "none" /\ EffectsOf(t) = {}
  BY DEF Init, Idle, Phase, EffectsOf, At
<1> QED
  BY <1>1 DEF Token!Init, EffectsOf

LEMMA PhaseTyped ==
    \A t \in Reqs : Phase(t) \in {"none", "open", "draining", "dead"}
BY DEF Phase

(* The phase and the effects of a token change with its state and with the *)
(* requests that hold it or have spent it.                                 *)
LEMMA TokenFrame ==
    ASSUME NEW t \in Reqs, token'[t].state = token[t].state,
           \A q \in Reqs : /\ (Holds(q, t)' <=> Holds(q, t))
                             \/ token[t].state = "open"
    PROVE  Phase(t)' = Phase(t)
BY DEF Phase

LEMMA EffectsFrame ==
    ASSUME NEW t \in Reqs,
           \A q \in Reqs : (req'[q].token = t /\ req'[q].step = "done")
                            <=> (req[q].token = t /\ req[q].step = "done")
    PROVE  EffectsOf(t)' = EffectsOf(t)
BY DEF EffectsOf, At

(* The step of one token: as it changes, the others stay.                  *)
LEMMA OneTokenMoves ==
    ASSUME NEW t \in Reqs, \A x \in Reqs \ {t} : Phase(x)' = Phase(x)
    PROVE  PhaseMap' = [PhaseMap EXCEPT ![t] = Phase(t)']
BY DEF PhaseMap

LEMMA IssueRefines ==
    ASSUME Shape, TokensFollow, NEW r \in Reqs, Issue(r)
    PROVE  Token!Next
<1>1. /\ token'[r].state = "open"
      /\ \A t \in Reqs \ {r} : token'[t] = token[t]
      /\ At(r, "issue") /\ req'[r].step = "done"
      /\ req'[r].token = req[r].token
      /\ \A q \in Reqs \ {r} : req'[q] = req[q]
  BY IssueWrites
<1>2. token[r].state = "none" /\ req[r].token = Nil
  BY <1>1 DEF TokensFollow, At
<1>3. Phase(r) = "none" /\ Phase(r)' = "open"
  BY <1>1, <1>2 DEF Phase
<1>4. ASSUME NEW t \in Reqs \ {r} PROVE Phase(t)' = Phase(t)
  BY <1>1, <1>2, TokenFrame DEF Holds, At
<1>5. ASSUME NEW t \in Reqs PROVE EffectsOf(t)' = EffectsOf(t)
  BY <1>1, <1>2, EffectsFrame
<1>6. PhaseMap' = [PhaseMap EXCEPT ![r] = "open"] /\ EffectsMap' = EffectsMap
  BY <1>3, <1>4, <1>5, OneTokenMoves DEF EffectsMap
<1>7. Token!Issue(r)
  BY <1>3, <1>6 DEF Token!Issue, Token!Becomes, PhaseMap, EffectsMap, EffectsOf
<1> QED
  BY <1>7 DEF Token!Next

LEMMA ExpireRefines ==
    ASSUME Shape, TokensFollow, NEW r \in Reqs, Expire(r)
    PROVE  Token!Next
<1>1. /\ token[r].state = "open" /\ token'[r].state = "expired"
      /\ \A t \in Reqs \ {r} : token'[t] = token[t]
      /\ UNCHANGED req
  BY ExpireWrites
<1>2. Phase(r) = "open" /\ Phase(r)' \in {"draining", "dead"}
  BY <1>1 DEF Phase
<1>3. ASSUME NEW t \in Reqs \ {r} PROVE Phase(t)' = Phase(t)
  BY <1>1, TokenFrame DEF Holds, At
<1>4. PhaseMap' = [PhaseMap EXCEPT ![r] = Phase(r)'] /\ EffectsMap' = EffectsMap
  BY <1>1, <1>3, OneTokenMoves DEF EffectsMap, EffectsOf, At
<1>5. Token!Close(r)
  BY <1>2, <1>4 DEF Token!Close, Token!Becomes, PhaseMap, EffectsMap, EffectsOf
<1> QED
  BY <1>5 DEF Token!Next

LEMMA RedeemRefines ==
    ASSUME Shape, TokensFollow, NEW r \in Reqs, Redeem(r)
    PROVE  Token!Next
<1>1. PICK t \in Reqs : t = req[r].token
  BY RedeemWrites
<1>2. /\ At(r, "redeem") /\ token'[t].state = "used"
      /\ \A x \in Reqs \ {t} : token'[x] = token[x]
      /\ req'[r].step = "done" /\ req'[r].token = t
      /\ \A q \in Reqs \ {r} : req'[q] = req[q]
  BY <1>1, RedeemWrites
<1>3. Phase(t) \in {"open", "draining"} /\ Phase(t)' \in {"draining", "dead"}
  BY <1>1, <1>2 DEF Phase, Holds, TokensFollow
<1>4. ASSUME NEW x \in Reqs \ {t}
      PROVE  Phase(x)' = Phase(x) /\ EffectsOf(x)' = EffectsOf(x)
  BY <1>1, <1>2, TokenFrame, EffectsFrame DEF Holds, At
<1>5. EffectsOf(t) \subseteq EffectsOf(t)'
  BY <1>1, <1>2 DEF EffectsOf, At
<1>6. PhaseMap' = [PhaseMap EXCEPT ![t] = Phase(t)']
  BY <1>4, OneTokenMoves
<1>7. /\ EffectsMap[t] \subseteq EffectsMap'[t]
      /\ \A x \in Reqs \ {t} : EffectsMap'[x] = EffectsMap[x]
  BY <1>4, <1>5 DEF EffectsMap
<1>8. Token!TakeEffect(t)
  BY <1>3, <1>6, <1>7
  DEF Token!TakeEffect, Token!Becomes, PhaseMap, EffectsMap, EffectsOf
<1> QED
  BY <1>8 DEF Token!Next

(* A redemption gives up.                                                  *)
LEMMA AbortRefines ==
    ASSUME Shape, TokensFollow, NEW r \in Reqs, Abort(r), At(r, "redeem")
    PROVE  [Token!Next]_<<PhaseMap, EffectsMap>>
<1>1. PICK t \in Reqs : t = req[r].token
  BY ShapeParts DEF WellFormed, At
<1>2. /\ req'[r].step = "failed" /\ req'[r].token = t /\ UNCHANGED token
      /\ \A q \in Reqs \ {r} : req'[q] = req[q]
  BY <1>1, GoToFields DEF Abort, Shape, Steps
<1>3. ASSUME NEW x \in Reqs PROVE EffectsOf(x)' = EffectsOf(x)
  BY <1>2, EffectsFrame DEF At
<1>4. ASSUME NEW x \in Reqs \ {t} PROVE Phase(x)' = Phase(x)
  BY <1>1, <1>2, TokenFrame DEF Holds, At
<1>5. PhaseMap' = [PhaseMap EXCEPT ![t] = Phase(t)'] /\ EffectsMap' = EffectsMap
  BY <1>3, <1>4, OneTokenMoves DEF EffectsMap
<1>6. CASE Phase(t)' = Phase(t)
  BY <1>4, <1>5, <1>6 DEF PhaseMap
<1>7. CASE Phase(t)' # Phase(t)
  <2>1. Phase(t) = "draining" /\ Phase(t)' = "dead"
    BY <1>1, <1>2, <1>7 DEF Phase, Holds
  <2>2. Token!Drain(t)
    BY <1>5, <2>1 DEF Token!Drain, Token!Becomes, PhaseMap, EffectsMap, EffectsOf
  <2> QED
    BY <2>2 DEF Token!Next
<1> QED
  BY <1>6, <1>7

(* Every other step leaves the phases and the effects as they are.         *)
LEMMA OthersRefine ==
    ASSUME Shape, TokensFollow, Next, \A q \in Reqs : ~Tokens(q),
           \A q \in Reqs : Abort(q) => ~At(q, "redeem")
    PROVE  UNCHANGED <<PhaseMap, EffectsMap>>
<1>1. UNCHANGED token
  BY WhoWritesTokens
<1>2. ASSUME NEW q \in Reqs, NEW t \in Reqs
      PROVE  /\ \/ (Holds(q, t)' <=> Holds(q, t))
                \/ token[t].state = "open"
             /\ (req'[q].token = t /\ req'[q].step = "done")
                  <=> (req[q].token = t /\ req[q].step = "done")
  <2>1. CASE req'[q] = req[q]
    BY <2>1 DEF Holds, At
  <2>2. CASE Carries(q)
    <3>1. ~At(q, "redeem")
      BY <2>2 DEF Carries, Tokens
    <3>2. req[q].token = Nil
      BY <2>2, <3>1 DEF TokensFollow, Carries, UnderWay, Ended, At
    <3> QED
      BY <2>2, <3>2 DEF Carries, Holds
  <2>3. CASE Arrives(q) /\ req'[q] \in Request /\ Start(q, req'[q])
    <3>1. /\ req'[q].step # "done" /\ req[q].step = "idle"
          /\ req'[q].token # Nil => token[req'[q].token].state = "open"
      BY <2>3, ArrivedAs DEF Start, Ended, At
    <3> QED
      BY <3>1 DEF Holds, At
  <2> QED
    BY <2>1, <2>2, <2>3, RequestMoves
<1>3. \A t \in Reqs : Phase(t)' = Phase(t) /\ EffectsOf(t)' = EffectsOf(t)
  BY <1>1, <1>2, TokenFrame, EffectsFrame
<1> QED
  BY <1>3 DEF PhaseMap, EffectsMap

LEMMA TokenStep ==
    ASSUME Shape, TokensFollow, [Next]_vars
    PROVE  [Token!Next]_<<PhaseMap, EffectsMap>>
<1>1. CASE UNCHANGED vars
  BY <1>1 DEF vars, PhaseMap, EffectsMap, Phase, EffectsOf, Holds, At
<1>2. CASE Next /\ \E q \in Reqs : Tokens(q)
  BY <1>2, IssueRefines, ExpireRefines, RedeemRefines DEF Tokens
<1>3. CASE Next /\ \E q \in Reqs : Abort(q) /\ At(q, "redeem")
  BY <1>3, AbortRefines
<1>4. CASE /\ Next /\ \A q \in Reqs : ~Tokens(q)
           /\ \A q \in Reqs : Abort(q) => ~At(q, "redeem")
  BY <1>4, OthersRefine
<1> QED
  BY <1>1, <1>2, <1>3, <1>4

(* Password reset and email verification implement the one-time token: a   *)
(* token takes effect once, but for the requests that had found it open.   *)
THEOREM TokensAreOneTime == Spec => TokenIsOneTime
<1>1. Shape /\ TokensFollow /\ [Next]_vars =>
        [Token!Next]_<<PhaseMap, EffectsMap>>
  BY TokenStep
<1> QED
  BY <1>1, TokenInit, TokensInvariance, PTL
  DEF Spec, TokenIsOneTime, Token!Spec, PhaseMap, EffectsMap, EffectsOf

(* A token that is dead stays so, and takes no effect.                     *)
LEMMA DeadStaysDead ==
    ASSUME [Token!Next]_<<PhaseMap, EffectsMap>>, NEW t \in Reqs,
           Phase(t) = "dead"
    PROVE  Phase(t)' = "dead" /\ EffectsOf(t)' = EffectsOf(t)
<1>1. /\ PhaseMap[t] = Phase(t) /\ PhaseMap'[t] = Phase(t)'
      /\ EffectsMap[t] = EffectsOf(t) /\ EffectsMap'[t] = EffectsOf(t)'
  BY DEF PhaseMap, EffectsMap
<1>2. PhaseMap'[t] = PhaseMap[t] /\ EffectsMap'[t] = EffectsMap[t]
  <2>1. ASSUME NEW x \in Reqs,
               \/ Token!Issue(x) \/ Token!Close(x)
               \/ Token!Drain(x) \/ Token!TakeEffect(x)
        PROVE  PhaseMap'[t] = PhaseMap[t] /\ EffectsMap'[t] = EffectsMap[t]
    <3>1. x # t
      BY <1>1, <2>1 DEF Token!Issue, Token!Close, Token!Drain,
         Token!TakeEffect, PhaseMap
    <3> QED
      BY <2>1, <3>1 DEF Token!Issue, Token!Close, Token!Drain,
         Token!TakeEffect, Token!Becomes, PhaseMap, EffectsMap, EffectsOf
  <2> QED
    BY <2>1 DEF Token!Next
<1> QED
  BY <1>1, <1>2

(* A reset or verification token that has been used or has expired, and    *)
(* that no request under way has found open, takes no effect any more,     *)
(* however often its mail is opened: resetPassword and verifyEmail reject  *)
(* it.  It follows from TokensAreOneTime, that is, from what OneTimeToken  *)
(* promises of a token that is dead.                                       *)
THEOREM SpentTokensDoNothing ==
    Spec => [][\A t \in Reqs :
                 /\ token[t].state \notin {"none", "open"}
                 /\ \A r \in Reqs : ~Holds(r, t)
                 => Phase(t)' = "dead" /\ EffectsOf(t)' = EffectsOf(t)]_vars
<1> DEFINE Spent == \A t \in Reqs :
                 /\ token[t].state \notin {"none", "open"}
                 /\ \A r \in Reqs : ~Holds(r, t)
                 => Phase(t)' = "dead" /\ EffectsOf(t)' = EffectsOf(t)
<1>1. [Token!Next]_<<PhaseMap, EffectsMap>> => [Spent]_vars
  BY DeadStaysDead DEF Phase
<1> QED
  BY <1>1, TokensAreOneTime, PTL
  DEF TokenIsOneTime, Token!Spec, PhaseMap, EffectsMap, EffectsOf
-----------------------------------------------------------------------------
(* Welcome mails.                                                          *)

Posting == {"hire", "invite"}
InTransit(q, u) == req[q].user = u /\ (At(q, "mail") \/ q \in outbox)

(* A password is one of the request that is about its account; a mail goes *)
(* out for a hire or an invite, and once: a reset sends none.              *)
MailsSent ==
    /\ \A r \in Reqs :
           /\ At(r, "invite") => req[r].op = "invite"
           /\ At(r, "redeem") => req[r].op = "redeem"
           /\ At(r, "mail") => req[r].op \in Posting
           /\ r \in outbox \cup arrived =>
                  At(r, "done") /\ req[r].op \in Posting /\ req[r].user \in Users
    /\ \A u \in Users : user[u].pw # Nil =>
           /\ req[user[u].pw].user = u
           /\ req[user[u].pw].step \in {"mail", "done", "failed"}

(* What is on its way to a user, and what has come, is the password or     *)
(* older than one no mail brings.                                          *)
PasswordsMatch(u) ==
    /\ \A q \in Reqs : InTransit(q, u) =>
           \/ user[u].pw = q
           \/ user[u].pw \in Reqs /\ req[user[u].pw].op = "redeem"
    /\ mailbox[u] # Nil =>
           user[u].pw = mailbox[u] \/ user[u].pw \in Reqs \ arrived

MailsFollow == MailsSent /\ \A u \in Users \ crossed : PasswordsMatch(u)

(* A step of request r that sets no password and sends no mail.            *)
LEMMA QuietMails ==
    ASSUME Shape, MailsFollow, NEW r \in Reqs,
           \A q \in Reqs \ {r} : req'[q] = req[q],
           \/ req'[r] = req[r]
           \/ /\ At(r, "idle") /\ req'[r].step \notin {"mail", "idle"}
              /\ At(r, "invite")' => req'[r].op = "invite"
              /\ At(r, "redeem")' => req'[r].op = "redeem"
           \/ /\ UnderWay(r) /\ req'[r].op = req[r].op /\ req'[r].user = req[r].user
              /\ req'[r].step \notin {"mail", "invite", "redeem"}
              /\ At(r, "mail") => req'[r].step = "failed",
           UNCHANGED <<mails, crossed>>,
           \A u \in Users : user'[u].pw = user[u].pw
    PROVE  MailsFollow'
<1>1. /\ UNCHANGED <<outbox, mailbox, arrived, crossed>>
      /\ \A u \in Users : user[u].pw \in Reqs \cup {Nil}
  BY ShapeParts DEF mails, User
<1>2. req'[r] # req[r] => r \notin outbox \cup arrived
  BY DEF MailsFollow, MailsSent, At, UnderWay, Ended
<1>3. MailsSent'
  <2>1. ASSUME NEW q \in Reqs
        PROVE  /\ At(q, "invite")' => req'[q].op = "invite"
               /\ At(q, "redeem")' => req'[q].op = "redeem"
               /\ At(q, "mail")' => req'[q].op \in Posting
               /\ q \in outbox \cup arrived =>
                     /\ At(q, "done")' /\ req'[q].op \in Posting
                     /\ req'[q].user \in Users
    <3>1. CASE req'[q] = req[q]
      BY <3>1 DEF MailsFollow, MailsSent, At
    <3>2. CASE q = r /\ req'[r] # req[r]
      BY <1>2, <3>2 DEF At
    <3> QED
      BY <3>1, <3>2
  <2>2. ASSUME NEW u \in Users, user[u].pw # Nil
        PROVE  /\ req'[user[u].pw].user = u
               /\ req'[user[u].pw].step \in {"mail", "done", "failed"}
    <3>1. /\ user[u].pw \in Reqs /\ req[user[u].pw].user = u
          /\ req[user[u].pw].step \in {"mail", "done", "failed"}
      BY <1>1, <2>2 DEF MailsFollow, MailsSent
    <3> QED
      BY <3>1 DEF At, UnderWay, Ended
  <2> QED
    BY <1>1, <2>1, <2>2 DEF MailsSent
<1>4. ASSUME NEW u \in Users \ crossed
      PROVE  PasswordsMatch(u)'
  <2>1. PasswordsMatch(u) /\ user'[u].pw = user[u].pw
    BY DEF MailsFollow
  <2>2. \A q \in Reqs : InTransit(q, u)' => InTransit(q, u)
    BY <1>1, <1>2 DEF InTransit, At
  <2>3. \A q \in Reqs : q = user[u].pw => req'[q].op = req[q].op
    BY DEF MailsFollow, MailsSent, At
  <2> QED
    BY <1>1, <2>1, <2>2, <2>3 DEF PasswordsMatch
<1> QED
  BY <1>1, <1>3, <1>4 DEF MailsFollow

(* Request r sets a password.                                              *)
LEMMA PasswordSet ==
    ASSUME Shape, MailsFollow, NEW r \in Reqs, NEW u \in Users, NEW p \in {"mail", "done"},
           GoTo(r, p), UNCHANGED mails, user'[u].pw = r, req[r].user = u,
           \A v \in Users \ {u} : user'[v].pw = user[v].pw,
           UnderWay(r), ~At(r, "mail"), crossed \subseteq crossed',
           \/ req[r].op \in Posting /\ Mailing(r, u)
           \/ req[r].op = "redeem" /\ p = "done"
    PROVE  MailsFollow'
<1>1. /\ UNCHANGED <<outbox, mailbox, arrived>>
      /\ \A v \in Users : user[v].pw \in Reqs \cup {Nil}
  BY ShapeParts DEF mails, User
<1>2. /\ \A q \in Reqs \ {r} : req'[q] = req[q]
      /\ req'[r].step = p /\ req'[r].op = req[r].op /\ req'[r].user = u
  BY GoToFields DEF Shape, Steps
<1>3. r \notin outbox \cup arrived /\ \A v \in Users : user[v].pw # r
  <2>1. r \notin outbox \cup arrived
    BY DEF MailsFollow, MailsSent, At, UnderWay, Ended
  <2>2. \A v \in Users : user[v].pw # r
    BY DEF MailsFollow, MailsSent, At, UnderWay, Ended
  <2> QED
    BY <2>1, <2>2
<1>4. MailsSent'
  <2>1. ASSUME NEW q \in Reqs
        PROVE  /\ At(q, "invite")' => req'[q].op = "invite"
               /\ At(q, "redeem")' => req'[q].op = "redeem"
               /\ At(q, "mail")' => req'[q].op \in Posting
               /\ q \in outbox \cup arrived =>
                     /\ At(q, "done")' /\ req'[q].op \in Posting
                     /\ req'[q].user \in Users
    <3>1. CASE q # r
      BY <1>2, <3>1 DEF MailsFollow, MailsSent, At
    <3>2. CASE q = r
      BY <1>2, <1>3, <3>2 DEF At
    <3> QED
      BY <3>1, <3>2
  <2>2. ASSUME NEW v \in Users, user'[v].pw # Nil
        PROVE  /\ req'[user'[v].pw].user = v
               /\ req'[user'[v].pw].step \in {"mail", "done", "failed"}
    <3>1. CASE v = u
      BY <1>2, <3>1
    <3>2. CASE v # u
      <4>1. user'[v].pw = user[v].pw /\ user[v].pw \in Reqs \ {r}
        BY <1>1, <1>3, <2>2, <3>2
      <4> QED
        BY <1>2, <4>1 DEF MailsFollow, MailsSent
    <3> QED
      BY <3>1, <3>2
  <2> QED
    BY <1>1, <2>1, <2>2 DEF MailsSent
<1>5. ASSUME NEW v \in Users \ crossed'
      PROVE  PasswordsMatch(v)'
  <2>1. PasswordsMatch(v)
    BY DEF MailsFollow
  <2>2. CASE v = u
    <3>1. CASE req[r].op = "redeem"
      BY <1>1, <1>2, <1>3, <2>2, <3>1 DEF PasswordsMatch
    <3>2. CASE Mailing(r, u)
      <4>1. \A q \in Reqs \ {r} : ~InTransit(q, u)
        BY <2>2, <3>2 DEF Mailing, InTransit
      <4>2. \A q \in Reqs \ {r} : ~InTransit(q, u)'
        BY <1>1, <1>2, <4>1 DEF InTransit, At
      <4> QED
        BY <1>1, <1>3, <2>2, <4>2 DEF PasswordsMatch
    <3> QED
      BY <3>1, <3>2
  <2>3. CASE v # u
    <3>1. \A q \in Reqs : InTransit(q, v)' => InTransit(q, v)
      BY <1>1, <1>2, <2>3 DEF InTransit, At
    <3>2. \A q \in Reqs : req'[q].op = req[q].op
      BY <1>2
    <3> QED
      BY <1>1, <2>1, <2>3, <3>1, <3>2 DEF PasswordsMatch
  <2> QED
    BY <2>2, <2>3
<1> QED
  BY <1>4, <1>5 DEF MailsFollow

(* A mail is queued, sent or lost.                                         *)
LEMMA MailComes ==
    ASSUME Shape, MailsFollow, NEW r \in Reqs, Mails(r)
    PROVE  MailsFollow'
<1>1. /\ UNCHANGED <<user, crossed>> /\ outbox' \subseteq outbox \cup {r}
      /\ Receive(r) \/ UNCHANGED <<mailbox, arrived>>
      /\ At(r, "mail") \/ r \in outbox
  <2>1. CASE EnqueueEmail(r)
    <3>1. /\ At(r, "mail") /\ UNCHANGED <<user, crossed>>
          /\ \/ outbox' = outbox \cup {r} /\ UNCHANGED <<mailbox, arrived>>
             \/ Receive(r) /\ outbox' \in {outbox, outbox \cup {r}}
             \/ UNCHANGED <<outbox, mailbox, arrived>>
      BY <2>1 DEF EnqueueEmail, mails, history
    <3>2. outbox' \subseteq outbox \cup {r}
      BY <3>1
    <3> QED
      BY <3>1, <3>2
  <2>2. CASE Deliver(r)
    <3>1. /\ r \in outbox /\ UNCHANGED <<user, crossed>>
          /\ \/ Receive(r) /\ outbox' \in {outbox, outbox \ {r}}
             \/ outbox' = outbox \ {r} /\ UNCHANGED <<mailbox, arrived>>
      BY <2>2 DEF Deliver, history
    <3>2. outbox' \subseteq outbox \cup {r}
      BY <3>1
    <3> QED
      BY <3>1, <3>2
  <2> QED
    BY <2>1, <2>2 DEF Mails
<1>2. req[r].user \in Users /\ req[r].op \in Posting
  BY <1>1, ShapeParts DEF MailsFollow, MailsSent, At, WellFormed, OfUser
<1>3. /\ \A q \in Reqs \ {r} : req'[q] = req[q]
      /\ req'[r].step = "done" /\ req'[r].op = req[r].op
      /\ req'[r].user = req[r].user
  <2>1. CASE EnqueueEmail(r)
    BY <2>1, GoToFields DEF EnqueueEmail, Shape, Steps
  <2>2. CASE Deliver(r)
    BY <2>2 DEF Deliver, MailsFollow, MailsSent, At
  <2> QED
    BY <2>1, <2>2 DEF Mails
<1>4. arrived' \subseteq arrived \cup {r}
  BY <1>1 DEF Receive
<1>5. /\ \A u \in Users : user[u].pw \in Reqs \cup {Nil}
      /\ mailbox \in [Users -> Reqs \cup {Nil}]
  BY ShapeParts DEF User
<1>6. MailsSent'
  <2>1. ASSUME NEW q \in Reqs
        PROVE  /\ At(q, "invite")' => req'[q].op = "invite"
               /\ At(q, "redeem")' => req'[q].op = "redeem"
               /\ At(q, "mail")' => req'[q].op \in Posting
               /\ q \in outbox' \cup arrived' =>
                     /\ At(q, "done")' /\ req'[q].op \in Posting
                     /\ req'[q].user \in Users
    <3>1. CASE q # r
      BY <1>1, <1>3, <1>4, <3>1 DEF MailsFollow, MailsSent, At
    <3>2. CASE q = r
      BY <1>2, <1>3, <3>2 DEF At
    <3> QED
      BY <3>1, <3>2
  <2>2. ASSUME NEW u \in Users, user[u].pw # Nil
        PROVE  /\ req'[user[u].pw].user = u
               /\ req'[user[u].pw].step \in {"mail", "done", "failed"}
    BY <1>3, <1>5, <2>2 DEF MailsFollow, MailsSent
  <2> QED
    BY <1>1, <2>1, <2>2 DEF MailsSent
<1>7. ASSUME NEW u \in Users \ crossed
      PROVE  PasswordsMatch(u)'
  <2>1. PasswordsMatch(u)
    BY DEF MailsFollow
  <2>2. \A q \in Reqs : InTransit(q, u)' => InTransit(q, u)
    BY <1>1, <1>3 DEF InTransit, At
  <2>3. \A q \in Reqs : req'[q].op = req[q].op
    BY <1>3
  <2>4. ASSUME mailbox'[u] # Nil
        PROVE  user[u].pw = mailbox'[u] \/ user[u].pw \in Reqs \ arrived'
    <3>1. CASE UNCHANGED <<mailbox, arrived>>
      BY <2>1, <2>4, <3>1 DEF PasswordsMatch
    <3>2. CASE Receive(r) /\ u = req[r].user
      <4>1. mailbox'[u] = r
        BY <1>5, <3>2 DEF Receive
      <4>2. InTransit(r, u)
        BY <1>1, <3>2 DEF InTransit
      <4>3. \/ user[u].pw = r
            \/ user[u].pw \in Reqs /\ req[user[u].pw].op = "redeem"
        BY <2>1, <4>2 DEF PasswordsMatch
      <4>4. ASSUME user[u].pw \in Reqs, req[user[u].pw].op = "redeem"
            PROVE  user[u].pw \notin arrived'
        <5>1. user[u].pw \notin arrived
          BY <4>4 DEF MailsFollow, MailsSent, Posting
        <5> QED
          BY <1>2, <1>4, <4>4, <5>1 DEF Posting
      <4> QED
        BY <4>1, <4>3, <4>4
    <3>3. CASE Receive(r) /\ u # req[r].user
      <4>1. mailbox'[u] = mailbox[u]
        BY <1>5, <3>3 DEF Receive
      <4>2. user[u].pw # r
        BY <3>3 DEF MailsFollow, MailsSent
      <4> QED
        BY <1>4, <2>1, <2>4, <4>1, <4>2 DEF PasswordsMatch
    <3> QED
      BY <1>1, <3>1, <3>2, <3>3
  <2> QED
    BY <1>1, <2>1, <2>2, <2>3, <2>4 DEF PasswordsMatch
<1> QED
  BY <1>1, <1>6, <1>7 DEF MailsFollow

LEMMA MailsFollowStep ==
    ASSUME Shape, MailsFollow, Next
    PROVE  MailsFollow'
<1>1. PICK r \in Reqs :
          \/ Arrives(r) \/ Checks(r) \/ Insert(r) \/ Manages(r)
          \/ WriteRole(r) \/ DeleteRole(r) \/ Mails(r) \/ Tokens(r)
  BY NextCases
<1>2. user \in [Users -> User] /\ req[r].step \in Steps
  BY ShapeParts DEF Request
<1>3. CASE Arrives(r)
  <2>1. PICK q \in Request :
            /\ Start(r, q) /\ q.step \notin {"mail", "idle"}
            /\ q.step = "invite" => q.op = "invite"
            /\ q.step = "redeem" => q.op = "redeem"
    BY <1>3, HireArrives, AssignRolesArrives, CreateRoleArrives,
       UpdateRoleArrives, RemoveRoleArrives,
       ManageArrives, ForgotArrives, FindTokenArrives DEF Arrives
  <2>2. req'[r] = q /\ \A p \in Reqs \ {r} : req'[p] = req[p]
    BY <2>1 DEF Start, Shape, TypeOK
  <2> QED
    BY <2>1, <2>2, QuietMails DEF Start, At
<1>4. ASSUME NEW p \in {"done", "failed", "rejected", "assignable", "insert", "assign"},
             GoTo(r, p), UnderWay(r), At(r, "mail") => p = "failed",
             UNCHANGED <<mails, crossed>>, \A u \in Users : user'[u].pw = user[u].pw
      PROVE  MailsFollow'
  <2>1. /\ \A q \in Reqs \ {r} : req'[q] = req[q]
        /\ req'[r].step = p /\ req'[r].op = req[r].op /\ req'[r].user = req[r].user
    BY <1>4, GoToFields DEF Shape, Steps
  <2> QED
    BY <1>4, <2>1, QuietMails
<1>5. CASE Checks(r)
  <2>1. UNCHANGED <<mails, crossed, user>> /\ UnderWay(r)
    BY <1>5 DEF Checks, CheckExist, CheckAssignable, EmailTaken, RoleNameTaken, Abort, history,
                UnderWay, At, Ended
  <2>2. \E p \in {"failed", "rejected", "assignable", "insert", "assign"} :
            GoTo(r, p) /\ (At(r, "mail") => p = "failed")
    BY <1>5 DEF Checks, CheckExist, CheckAssignable, EmailTaken, RoleNameTaken, Abort, Write, At
  <2> QED
    BY <1>4, <2>1, <2>2
<1>6. CASE WriteRole(r) \/ DeleteRole(r) \/ Issue(r)
  <2>1. /\ UNCHANGED <<mails, crossed, user>> /\ UnderWay(r) /\ ~At(r, "mail")
        /\ GoTo(r, "done")
    BY <1>6 DEF WriteRole, DeleteRole, Issue, history, UnderWay, At, Ended
  <2> QED
    BY <1>4, <2>1
<1>7. CASE Expire(r)
  BY <1>7, QuietMails DEF Expire, history
<1>8. CASE Assign(r) \/ Remove(r) \/ Restore(r) \/ UpdateStatus(r)
  <2>1. /\ UNCHANGED <<mails, crossed>> /\ UnderWay(r) /\ ~At(r, "mail")
        /\ GoTo(r, "done")
    BY <1>8 DEF Assign, Remove, Restore, UpdateStatus, history, UnderWay, At, Ended
  <2>2. req[r].user \in Users
    BY <1>8, ShapeParts DEF Assign, Remove, Restore, UpdateStatus, At, WellFormed, OfUser
  <2>3. PICK row : Set(req[r].user, row) /\ row.pw = user[req[r].user].pw
    <3>1. PICK old \in User : old = user[req[r].user]
      BY <1>2, <2>2
    <3> QED
      BY <1>8, <3>1 DEF Assign, Remove, Restore, UpdateStatus, User
  <2>4. \A u \in Users : user'[u].pw = user[u].pw
    BY <1>2, <2>2, <2>3 DEF Set
  <2> QED
    BY <1>4, <2>1, <2>4
<1>9. CASE Redeem(r)
  <2>1. /\ UNCHANGED <<mails, crossed>> /\ UnderWay(r) /\ ~At(r, "mail")
        /\ GoTo(r, "done") /\ At(r, "redeem")
    BY <1>9 DEF Redeem, history, UnderWay, At, Ended
  <2>2. PICK u \in Users : u = req[r].user
    BY <2>1, ShapeParts DEF At, WellFormed, OfUser
  <2>3. PICK old \in User : old = user[u]
    BY <1>2
  <2>4. req[r].op = "redeem"
    BY <2>1 DEF MailsFollow, MailsSent
  <2>5. CASE token[req[r].token].type = "reset"
    <3>1. PICK row : Set(u, row) /\ row.pw = r
      BY <1>9, <2>2, <2>3, <2>5 DEF Redeem, User
    <3>2. user'[u].pw = r /\ \A v \in Users \ {u} : user'[v].pw = user[v].pw
      BY <1>2, <3>1 DEF Set
    <3> QED
      BY <2>1, <2>2, <2>4, <3>2, PasswordSet
  <2>6. CASE token[req[r].token].type # "reset"
    <3>1. PICK row : Set(u, row) /\ row.pw = old.pw
      <4>1. PICK row : row = [old EXCEPT !.verified = TRUE, !.status = "ACTIVE"]
        OBVIOUS
      <4>2. row.pw = old.pw
        BY <2>3, <4>1 DEF User
      <4>3. Set(u, row)
        BY <1>9, <2>2, <2>3, <2>6, <4>1 DEF Redeem
      <4> QED
        BY <4>2, <4>3
    <3>2. \A v \in Users : user'[v].pw = user[v].pw
      BY <1>2, <2>3, <3>1 DEF Set
    <3> QED
      BY <1>4, <2>1, <3>2
  <2> QED
    BY <2>5, <2>6
<1>10. CASE Insert(r) \/ ResendInvite(r)
  <2>1. /\ UNCHANGED mails /\ UnderWay(r) /\ ~At(r, "mail")
        /\ \E p \in {"mail", "done"} : GoTo(r, p)
        /\ At(r, "insert") \/ At(r, "invite")
    BY <1>10 DEF Insert, ResendInvite, UnderWay, At, Ended
  <2>2. PICK u \in Users : u = req[r].user
    BY <2>1, ShapeParts DEF At, WellFormed, OfUser
  <2>3. PICK old \in User : old = user[u]
    BY <1>2
  <2>4. req[r].op \in Posting
    BY <2>1, ShapeParts DEF At, WellFormed, MailsFollow, MailsSent, Posting
  <2>5. PICK row : Set(u, row) /\ row.pw = r
    <3>1. CASE Insert(r) /\ req[r].rehire
      <4>1. PICK row : row = [old EXCEPT !.state = "present", !.status = "ACTIVE",
                                         !.pw = r, !.roles = req[r].roles]
        OBVIOUS
      <4>2. row.pw = r
        BY <2>3, <4>1 DEF User
      <4>3. Set(u, row)
        BY <2>2, <2>3, <3>1, <4>1 DEF Insert
      <4> QED
        BY <4>2, <4>3
    <3>2. CASE Insert(r) /\ ~req[r].rehire
      BY <2>2, <3>2 DEF Insert
    <3>3. CASE ResendInvite(r)
      BY <2>2, <2>3, <3>3 DEF ResendInvite, User
    <3> QED
      BY <1>10, <3>1, <3>2, <3>3
  <2>6. user'[u].pw = r /\ \A v \in Users \ {u} : user'[v].pw = user[v].pw
    BY <1>2, <2>5 DEF Set
  <2>7. Mailing(r, u) /\ crossed \subseteq crossed'
    BY <1>10, <2>2 DEF Insert, ResendInvite, Mailing
  <2> QED
    BY <2>1, <2>2, <2>4, <2>6, <2>7, PasswordSet
<1> QED
  BY <1>1, <1>3, <1>5, <1>6, <1>7, <1>8, <1>9, <1>10, MailComes DEF Manages, Tokens

(* The password in the last welcome mail a user has received is the        *)
(* account's, or a reset or a mail still to come has set another since,    *)
(* unless two such mails were under way at once: a mail that waits in the  *)
(* queue, is sent twice or comes late brings no password that was replaced.*)
THEOREM MailedPasswordsWork == Spec => []MailedPasswordWorks
<1>1. Init => MailsFollow
  <2> SUFFICES ASSUME Init PROVE MailsFollow
    OBVIOUS
  <2>1. \A r \in Reqs : req[r].step = "idle"
    BY DEF Init, Idle
  <2>2. \A u \in Users : user[u].pw = Nil /\ mailbox[u] = Nil
    BY DEF Init
  <2>3. outbox = {} /\ arrived = {}
    BY DEF Init
  <2> QED
    BY <2>1, <2>2, <2>3 DEF MailsFollow, MailsSent, PasswordsMatch, InTransit, At
<1>2. Shape /\ MailsFollow /\ [Next]_vars => MailsFollow'
  <2> SUFFICES ASSUME Shape, MailsFollow, [Next]_vars PROVE MailsFollow'
    OBVIOUS
  <2>1. CASE UNCHANGED vars
    BY <2>1 DEF vars, mails, history, MailsFollow, MailsSent, PasswordsMatch,
                InTransit, At
  <2> QED
    BY <2>1, MailsFollowStep
<1>3. MailsFollow => MailedPasswordWorks
  BY DEF MailsFollow, PasswordsMatch, MailedPasswordWorks
<1> QED
  BY <1>1, <1>2, <1>3, InitShape, NextShape, PTL DEF Spec
=============================================================================
