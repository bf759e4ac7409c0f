----------------------------- MODULE Directory -----------------------------
(***************************************************************************)
(* The HR records and the people they name.  The resources of            *)
(* hr/index.js and documents are one program, the CRUD factory           *)
(* (crudModule.js), run over different declarations: what a resource     *)
(* declares is a record here (Departments, Onboarding, ...), and the     *)
(* factory is the actions.  User accounts take part with their HR profile  *)
(* (user.service.js: #hrPatch).                                          *)
(*                                                                       *)
(* A row stores whom it refers to twice, the id and the name read beside *)
(* it, "so reads stay join-free".  The k-th name of x is <<x, k>>: a     *)
(* name says whose it is and how old.  Columns that refer to nothing are *)
(* left out.  The workflow of leaves is module Leaves, the checklist of  *)
(* onboardings module Onboarding, who may call what module Access.       *)
(***************************************************************************)
EXTENDS Naturals, FiniteSets

CONSTANTS
    People,     \* rows of "users"
    Staff,      \* those hired before the start
    Rows,       \* rows of the other tables
    Kinds,      \* the resources they may belong to
    Home,       \* the company of each row
    Email,      \* of each person; two companies may know the same one
    Callers,    \* companies requests act for; Nil is the platform
    Texts,      \* what a body may give, by kind of reference
    Reqs,
    Nil,
    Typed,      \* a name typed in by hand
    MaxRefs,    \* bound: references in a body, by resource
    MaxName,    \* bound: names a row has in a behaviour
    MaxBegun    \* bound: requests in a behaviour

VARIABLES
    row,
    req,
    files,      \* files in storage
    begun,
    (* History.                                                            *)
    bosses,     \* who has been whose manager: <<person, manager>>
    excused     \* departments and heads that need not agree

history == <<begun, bosses, excused>>
vars == <<row, req, files, history>>

-----------------------------------------------------------------------------
(* What the resources declare: the references of a body in the order they  *)
(* are resolved, those a new row must have, and the columns an update    *)
(* clears when the body does not give them.                              *)
Ref(slot, by) == [slot |-> slot, by |-> by]

Declare(refs, needs, wiped) == [refs |-> refs, needs |-> needs, wiped |-> wiped]

Employee == Ref("employee", "person")

(* No mapInput: the body is the row, and refers to nothing.              *)
Plain == Declare(<<>>, {}, {})

Departments  == Declare(<<Ref("head", "person"), Ref("headText", "typed")>>, {}, {})
Designations == Declare(<<Ref("department", "department")>>, {}, {})
Attendance   == Declare(<<Employee, Ref("checkIn", "plain"), Ref("checkOut", "plain")>>,
                        {"employee"}, {"checkIn", "checkOut"})
LeaveTypes   == Plain
Holidays     == Plain
Payroll      == Declare(<<Employee>>, {"employee"}, {})
Jobs         == Plain
Candidates   == Plain
Interviews   == Declare(<<Ref("candidate", "candidate")>>, {"candidate"}, {})
Onboarding   == Declare(<<Employee, Ref("buddy", "person"), Ref("manager", "hire")>>,
                        {"employee"}, {})
Reviews      == Declare(<<Employee, Ref("reviewer", "person")>>,
                        {"employee", "reviewer"}, {})
Goals        == Plain
Courses      == Plain
Assets       == Plain
Expenses     == Declare(<<Employee>>, {"employee"}, {})
Tickets      == Declare(<<Ref("requester", "person"), Ref("assignee", "person")>>,
                        {"requester"}, {})
Documents    == Declare(<<Ref("file", "upload")>>, {}, {})
Profiles     == Declare(<<Ref("department", "label"), Ref("designation", "label"),
                          Ref("manager", "person")>>, {}, {})

Resource ==
    [users |-> Profiles, departments |-> Departments,
     designations |-> Designations, attendance |-> Attendance,
     leaveTypes |-> LeaveTypes, holidays |-> Holidays, payroll |-> Payroll,
     jobs |-> Jobs, candidates |-> Candidates, interviews |-> Interviews,
     onboarding |-> Onboarding, reviews |-> Reviews, goals |-> Goals,
     courses |-> Courses, assets |-> Assets, expenses |-> Expenses,
     tickets |-> Tickets, documents |-> Documents]

(* Resources whose rows have a name that others store.                   *)
Named == {"users", "departments", "designations", "candidates"}

Refs(kind)    == {Resource[kind].refs[n] : n \in DOMAIN Resource[kind].refs}
Columns(kind) == {f.slot : f \in Refs(kind)} \ {"headText"}

(* A stored reference.                                                   *)
Pair(id, name) == [id |-> id, name |-> name]
NoRef          == Pair(Nil, Nil)
NoRefs         == [slot \in {} |-> NoRef]

Ids == People \cup Rows

ASSUME DirectoryAssumption ==
    /\ Staff \subseteq People
    /\ People \cap Rows = {}
    /\ Kinds \subseteq DOMAIN Resource \ {"users"}
    /\ DOMAIN Home = Ids /\ DOMAIN Email = People
    /\ \A p \in People : Email[p] \notin People
    /\ MaxRefs \in [DOMAIN Resource -> Nat] /\ MaxName \in Nat /\ MaxBegun \in Nat
    /\ Nil \notin Ids \cup Reqs \cup {Typed} \cup DOMAIN Resource
    /\ \A kind \in DOMAIN Resource : \A f \in Refs(kind) :
           f.by # "hire" => f.by \in DOMAIN Texts
    /\ Texts["typed"] \subseteq {Typed, Nil}
    /\ IsFiniteSet(Reqs)

-----------------------------------------------------------------------------
Idle == [pc |-> "idle"]

Init ==
    /\ row = [i \in Ids |->
          [state |-> IF i \in Staff THEN "live" ELSE "absent",
           kind |-> IF i \in People THEN "users" ELSE Nil,
           name |-> 0,
           ref |-> IF i \in People THEN [s \in Columns("users") |-> NoRef]
                   ELSE NoRefs]]
    /\ req = [r \in Reqs |-> Idle]
    /\ files = 0 /\ begun = 0
    /\ bosses = {} /\ excused = {}

Live(i)  == row[i].state = "live"
Known(i) == row[i].state # "absent"
Name(i)  == <<i, row[i].name>>

End(r) == req' = [req EXCEPT ![r] = Idle]

(* Bodies a request may carry for a row of this kind.                    *)
Bodies ==
    [kind \in DOMAIN Resource |->
        LET given == {f \in Refs(kind) : f.by # "hire"} IN
        UNION {{b \in [{f.slot : f \in some} -> UNION {Texts[f.by] : f \in some}] :
                   \A f \in some : b[f.slot] \in Texts[f.by]} :
               some \in {gs \in SUBSET given : Cardinality(gs) <= MaxRefs[kind]}}]

(* A request is under way; before is the row as it was found.            *)
Begin(r, op, i, by, kind, body, rename) ==
    /\ req[r] = Idle /\ begun < MaxBegun
    /\ begun' = begun + 1
    /\ rename => kind \in Named /\ row[i].name < MaxName
    /\ req' = [req EXCEPT ![r] =
          [pc |-> "open", op |-> op, id |-> i, by |-> by, kind |-> kind,
           body |-> body, rename |-> rename, before |-> row[i],
           got |-> NoRefs, head |-> NoRef]]
    /\ UNCHANGED <<row, files, bosses, excused>>

(* POST /<resource>.                                                     *)
Create(r, i, kind, body) ==
    /\ i \in Rows /\ ~Known(i) /\ kind \in Kinds
    /\ \A q \in Reqs : req[q].pc # "idle" => req[q].id # i
    /\ \A s \in Resource[kind].needs : s \in DOMAIN body /\ body[s] # Nil
    /\ Begin(r, "create", i, Home[i], kind, body, FALSE)

(* POST /users: a new account, or the row of a removed one taken up again. *)
Hire(r, p, body, rename) ==
    /\ p \in People /\ ~Live(p)
    /\ Begin(r, "create", p, Home[p], "users", body, rename)

(* PUT /<resource>/:id and PATCH /users/:id; a profile update carries a  *)
(* name only.  The row must be live, and of the caller's company.        *)
Update(r, i, by, body, rename) ==
    /\ Live(i) /\ by \in {Nil, Home[i]}
    /\ Begin(r, "update", i, by, row[i].kind, body, rename)

-----------------------------------------------------------------------------
(* Reading what a reference refers to: the pairs the read may return.    *)

(* Mutation: the name is looked up, the reference kept as it was spelled.  *)
ResolveUserRaw(text) ==
    LET found == {p \in People : Known(p) /\ text \in {p, Email[p]}} IN
    IF found = {} THEN {Pair(text, Nil)} ELSE {Pair(text, Name(p)) : p \in found}

(* By id or email, of any company, removed people included; a text nobody  *)
(* has is kept as the id.                                                *)
ResolveUser(text) ==
    LET found == {p \in People : Known(p) /\ text \in {p, Email[p]}} IN
    IF text = Nil THEN {NoRef}
    ELSE IF found = {} THEN {Pair(text, Nil)}
    ELSE {Pair(p, Name(p)) : p \in found}

ResolveCandidate(text) ==
    {Pair(text, IF text \in Rows /\ row[text].kind = "candidates"
                THEN Name(text) ELSE Nil)}

(* A department by id or name (another spelling of it); only the id is   *)
(* stored.                                                               *)
ResolveDepartment(text, company) ==
    {Pair(IF /\ text \in Rows /\ row[text].kind = "departments" /\ Live(text)
             /\ company \in {Nil, Home[text]}
          THEN text ELSE Nil, Nil)}

(* The id is stored as given; removed rows still have a name.            *)
RefName(slot, text, company) ==
    LET kind == IF slot = "department" THEN "departments" ELSE "designations" IN
    {Pair(text, IF /\ text \in Rows /\ row[text].kind = kind
                   /\ company \in {Nil, Home[text]}
                THEN Name(text) ELSE Nil)}

(* The manager of the hire, copied with its name.                        *)
Inherit(hire) ==
    {IF hire \in People /\ Known(hire) THEN row[hire].ref.manager ELSE NoRef}

(* A file is stored under a fresh key.                                   *)
SaveFile == {Pair(files + 1, Nil)}

Answers(q, ref) ==
    CASE ref.by = "person"     -> ResolveUser(q.body[ref.slot])
      [] ref.by = "candidate"  -> ResolveCandidate(q.body[ref.slot])
      [] ref.by = "department" -> ResolveDepartment(q.body[ref.slot], q.by)
      [] ref.by = "label"      -> RefName(ref.slot, q.body[ref.slot], Home[q.id])
      [] ref.by = "hire"       -> Inherit(q.got.employee.id)
      [] ref.by = "upload"     -> SaveFile
      [] OTHER                 -> {Pair(q.body[ref.slot], Nil)}

(* The places of the references of q that are still to be resolved.      *)
Pending(q) ==
    LET refs == Resource[q.kind].refs IN
    {n \in DOMAIN refs :
        /\ refs[n].slot \notin DOMAIN q.got
        /\ \/ refs[n].slot \in DOMAIN q.body
           \/ /\ refs[n].by = "hire"
              /\ "employee" \in DOMAIN q.got /\ q.got.employee.id # Nil}

(* The first of them.                                                    *)
Upcoming(q) ==
    Resource[q.kind].refs[CHOOSE n \in Pending(q) : \A m \in Pending(q) : n <= m]

(* Mutation: only the row as it was found is looked at.                  *)
HireBefore(q) == IF q.op = "update" THEN q.before.ref.employee.id ELSE Nil

(* Whom an onboarding is for while its body is being read.               *)
HireOf(q) ==
    IF "employee" \in DOMAIN q.got /\ q.got.employee.id # Nil
    THEN q.got.employee.id
    ELSE IF q.op = "update" THEN q.before.ref.employee.id ELSE Nil

OwnBuddy(q, slot, answer) ==
    slot = "buddy" /\ answer.id # Nil /\ answer.id = HireOf(q)

Keep(got, slot, answer) ==
    [s \in DOMAIN got \cup {slot} |-> IF s = slot THEN answer ELSE got[s]]

(* The next reference is resolved; a file is stored then and there.      *)
Resolve(r) ==
    LET q == req[r] IN
    /\ q.pc = "open" /\ Pending(q) # {}
    /\ LET ref == Upcoming(q) IN
       /\ \E answer \in Answers(q, ref) :
              IF OwnBuddy(q, ref.slot, answer)
              THEN End(r)
              ELSE req' = [req EXCEPT ![r].got = Keep(@, ref.slot, answer)]
       /\ files' = IF ref.by = "upload" THEN files + 1 ELSE files
    /\ UNCHANGED <<row, history>>

-----------------------------------------------------------------------------
(* Mutation: the text typed in is written as a column.                   *)
MergedRaw(q, old) ==
    [s \in Columns(q.kind) \cup DOMAIN q.got |->
        IF s \in DOMAIN q.got THEN q.got[s]
        ELSE IF s \in DOMAIN old.ref THEN old.ref[s] ELSE NoRef]

(* The columns after q is written: those it names, over the row as it is.  *)
Merged(q, old) ==
    [s \in Columns(q.kind) |->
        IF s \in DOMAIN q.got THEN q.got[s]
        ELSE IF s \in Resource[q.kind].wiped THEN NoRef
        ELSE LET kept == IF s \in DOMAIN old.ref THEN old.ref[s] ELSE NoRef IN
             IF s = "head" /\ "headText" \in DOMAIN q.got
             THEN Pair(kept.id, q.got.headText.id) ELSE kept]

(* Mutation: the row is written back as it was found.                    *)
WrittenBack(q, old) ==
    [state |-> IF q.op = "create" THEN "live" ELSE q.before.state,
     kind  |-> q.kind,
     name  |-> IF q.rename THEN old.name + 1 ELSE old.name,
     ref   |-> Merged(q, old)]

Written(q, old) ==
    [state |-> IF q.op = "create" THEN "live" ELSE old.state,
     kind  |-> q.kind,
     name  |-> IF q.rename THEN old.name + 1 ELSE old.name,
     ref   |-> Merged(q, old)]

Headed(p) == {d \in Rows : row[d].kind = "departments" /\ row[d].ref.head.id = p}

(* The write, by id: whatever became of the row since it was found.  A new *)
(* account loses its email to one created meanwhile.                     *)
Write(r) ==
    LET q == req[r]
        new == Written(q, row[q.id])
        reflects == q.kind = "departments" /\ new.ref.head.id # Nil
    IN
    /\ q.pc = "open" /\ Pending(q) = {}
    /\ ~(q.op = "create" /\ Known(q.id) /\ q.before.state = "absent")
    /\ q.rename => row[q.id].name < MaxName
    /\ row' = [row EXCEPT ![q.id] = new]
    /\ IF reflects
       THEN req' = [req EXCEPT ![r].pc = "reflect", ![r].got = NoRefs,
                               ![r].head = Pair(new.ref.head.id, <<q.id, new.name>>)]
       ELSE End(r)
    /\ bosses' = IF q.kind = "users"
                 THEN bosses \cup {<<q.id, new.ref.manager>>} ELSE bosses
    /\ excused' = excused \cup (IF reflects THEN {q.id} ELSE {})
                    \cup (IF q.kind = "users" /\ "department" \in DOMAIN q.got
                          THEN Headed(q.id) ELSE {})
    /\ UNCHANGED <<files, begun>>

(* Mutation: only the head a department starts with is reflected.        *)
ReflectedOnCreate(q) ==
    {p \in People : p = q.head.id /\ Home[p] = Home[q.id] /\ Live(p)
                     /\ q.op = "create"}

(* Whose profile the hook of a department updates.                       *)
Reflected(q) ==
    {p \in People : p = q.head.id /\ Home[p] = Home[q.id] /\ Live(p)}

(* afterWrite: the head's profile names the department.                  *)
Reflect(r) ==
    LET q == req[r] IN
    /\ q.pc = "reflect"
    /\ row' = [p \in Ids |-> IF p \in Reflected(q)
                 THEN [row[p] EXCEPT !.ref.department = Pair(q.id, q.head.name)]
                 ELSE row[p]]
    /\ excused' =
          IF q.head.id \in People /\ Live(q.head.id)
          THEN (excused \cup Headed(q.head.id)) \
                   (IF row[q.id].ref.head.id = q.head.id THEN {q.id} ELSE {})
          ELSE excused
    /\ End(r)
    /\ UNCHANGED <<files, begun, bosses>>

(* DELETE, and POST /users/:id/restore.                                  *)
Remove(i) ==
    /\ Live(i) /\ begun < MaxBegun
    /\ row' = [row EXCEPT ![i].state = "removed"]
    /\ begun' = begun + 1
    /\ UNCHANGED <<req, files, bosses, excused>>

Restore(p) ==
    /\ p \in People /\ row[p].state = "removed" /\ begun < MaxBegun
    /\ row' = [row EXCEPT ![p].state = "live"]
    /\ begun' = begun + 1
    /\ UNCHANGED <<req, files, bosses, excused>>

(* A call fails, an index refuses the row, or the server goes down.      *)
Abort(r) ==
    /\ req[r] # Idle
    /\ End(r)
    /\ UNCHANGED <<row, files, history>>

Next ==
    \/ \E r \in Reqs :
          \/ \E i \in Rows, kind \in Kinds : \E body \in Bodies[kind] :
                 Create(r, i, kind, body)
          \/ \E p \in People, body \in Bodies["users"], rename \in BOOLEAN :
                 Hire(r, p, body, rename)
          \/ \E i \in {j \in Ids : Live(j)}, by \in Callers, rename \in BOOLEAN :
                 \E body \in Bodies[row[i].kind] : Update(r, i, by, body, rename)
          \/ Resolve(r)
          \/ Write(r)
          \/ Reflect(r)
          \/ Abort(r)
    \/ \E i \in Ids : Remove(i)
    \/ \E p \in People : Restore(p)

Spec == Init /\ [][Next]_vars

-----------------------------------------------------------------------------
Names == (Ids \X (0..MaxName)) \cup {Nil, Typed}
Words == UNION {Texts[by] : by \in DOMAIN Texts}
Pairs == [id: Ids \cup Words \cup (0..MaxBegun) \cup {Nil}, name: Names]

(* Rows, requests and the history have the types of the tables and       *)
(* handlers they stand for.                                              *)
TypeOK ==
    /\ \A i \in Ids :
           /\ row[i].state \in {"absent", "live", "removed"}
           /\ row[i].name \in 0..MaxName
           /\ (i \in People => row[i].kind = "users")
           /\ (i \in Rows => row[i].kind \in Kinds \cup {Nil})
           /\ (Known(i) => row[i].kind # Nil)
           /\ (row[i].kind # Nil => row[i].ref \in [Columns(row[i].kind) -> Pairs])
    /\ \A r \in Reqs : req[r] # Idle =>
           /\ req[r].pc \in {"open", "reflect"} /\ req[r].id \in Ids
           /\ req[r].body \in Bodies[req[r].kind]
           /\ DOMAIN req[r].got \subseteq {f.slot : f \in Refs(req[r].kind)}
           /\ (req[r].pc = "reflect" => row[req[r].id].kind = "departments")
    /\ begun \in 0..MaxBegun /\ files \in 0..begun
    /\ excused \subseteq Rows

(* What reads take at its word without a join is true: the name stored   *)
(* beside an id is one that row has had, unless it was typed in          *)
(* (resolveUser, #refName, resolveCandidateName, the department hook); the *)
(* manager of an onboarding has been the manager of its hire; the file of  *)
(* a document is in storage.                                             *)
SnapshotsWereTrue ==
    \A i \in Ids :
        LET ref == row[i].ref IN
        /\ \A s \in DOMAIN ref : ref[s].name \notin {Nil, Typed} =>
               /\ ref[s].name[1] = ref[s].id
               /\ ref[s].name[2] <= row[ref[s].id].name
        /\ row[i].kind = "onboarding" /\ ref.employee.id # Nil /\ ref.manager # NoRef =>
               <<ref.employee.id, ref.manager>> \in bosses
        /\ row[i].kind = "documents" /\ ref.file.id # Nil => ref.file.id <= files

(* "A department head is also a member of that department"               *)
(* (hr/index.js:117): the profile of a head of the same company names the  *)
(* department, unless a write of the department has not been reflected   *)
(* (not yet, or the server went down, or the head was removed), or HR has  *)
(* put the head elsewhere since, or made them head of another department.  *)
HeadIsMember ==
    \A d \in Rows \ excused :
        LET head == row[d].ref.head.id IN
        /\ row[d].kind = "departments" /\ Live(d)
        /\ head \in People /\ Home[head] = Home[d]
        => row[head].ref.department.id = d

(* The name stored beside the id is one that was read.                     *)
Read(ref) == ref.name \notin {Nil, Typed}

(* "A new hire can't be their own onboarding buddy" (hr/index.js:585): a   *)
(* write that names a buddy stores neither the id of the hire, nor, if the *)
(* hire had an account when their id was stored, their email, in whatever  *)
(* spelling the body gave the two.  Excepted are onboardings whose hire    *)
(* was changed by another write since they were found; writes that name    *)
(* the hire only are not compared with the buddy that is there; and a hire *)
(* stored as an email that nobody had is another than the account that     *)
(* takes the email later.                                                  *)
OwnBuddyIsRefused ==
    [][\A r \in Reqs :
          LET q == req[r] IN
          /\ q.pc = "open" /\ q.kind = "onboarding" /\ "buddy" \in DOMAIN q.got
          /\ Write(r)
          /\ q.op = "update" => q.before.ref.employee = row[q.id].ref.employee
          => LET now == row'[q.id].ref IN
             now.buddy.id # Nil =>
                 /\ now.buddy.id # now.employee.id
                 /\ Read(now.employee) /\ now.employee.id \in People =>
                       now.buddy.id # Email[now.employee.id]]_vars

(* Nothing brings a removed row back but the restore or the re-hire of a *)
(* person: an update that was under way writes by id into the removed row  *)
(* and leaves it removed.                                                *)
RemovedStaysRemoved ==
    [][\A i \in Ids : row[i].state = "removed" /\ row'[i].state # "removed" =>
          \/ Restore(i)
          \/ \E r \in Reqs : Write(r) /\ req[r].id = i /\ req[r].op = "create"]_vars
=============================================================================
