--------------------------- MODULE DirectoryProofs ---------------------------
(***************************************************************************)
(* Proofs about Directory, for any resources, rows, people, companies,     *)
(* requests and bodies.  What each action does to the rows and requests is *)
(* said once (BeginEffect, ResolveEffect, WriteEffect, ReflectEffect,      *)
(* MarkEffect, together NextEffects); the invariants are then carried over *)
(* effects, not over the actions:                                          *)
(*   - WellTyped, whose parts say that the columns of a row and the        *)
(*     answers of a request go with the resource, and that files are paid  *)
(*     for by the uploads that have begun;                                 *)
(*   - SoundNames and Linked: names, managers and files in rows and in the *)
(*     answers of requests under way, which is where rows get them;        *)
(*   - HeadIsMember, inductive as it stands with WellTyped;                *)
(*   - BuddiesKept: the buddy a request has found is not its hire;         *)
(*   - RowsHaveState, for removed rows: the write and the hook put a       *)
(*     record into the table by id, after whatever happened since the read.*)
(***************************************************************************)
EXTENDS Directory, FiniteSetTheorems, TLAPS

(***************************************************************************)
(* What the resources declare, in the form the proofs below use it.        *)
(***************************************************************************)
Slots(kind) == {f.slot : f \in Refs(kind)}

Others == {"users", "departments", "designations", "attendance", "interviews",
           "onboarding", "reviews", "tickets", "documents"}

LEMMA Catalogue ==
    \A kind \in DOMAIN Resource :
        \/ kind = "users" /\ Resource[kind] = Profiles
        \/ kind = "departments" /\ Resource[kind] = Departments
        \/ kind = "designations" /\ Resource[kind] = Designations
        \/ kind = "attendance" /\ Resource[kind] = Attendance
        \/ kind = "interviews" /\ Resource[kind] = Interviews
        \/ kind = "onboarding" /\ Resource[kind] = Onboarding
        \/ kind = "reviews" /\ Resource[kind] = Reviews
        \/ kind = "tickets" /\ Resource[kind] = Tickets
        \/ kind = "documents" /\ Resource[kind] = Documents
        \/ kind \notin Others /\ Resource[kind] \in {Payroll, Expenses, Plain}
  BY DEF Resource, Others, LeaveTypes, Holidays, Jobs, Candidates, Goals, Courses,
         Assets

LEMMA Declared ==
    /\ {Profiles.refs[n] : n \in DOMAIN Profiles.refs} =
          {Ref("department", "label"), Ref("designation", "label"),
           Ref("manager", "person")}
    /\ {Departments.refs[n] : n \in DOMAIN Departments.refs} =
          {Ref("head", "person"), Ref("headText", "typed")}
    /\ {Designations.refs[n] : n \in DOMAIN Designations.refs} =
          {Ref("department", "department")}
    /\ {Attendance.refs[n] : n \in DOMAIN Attendance.refs} =
          {Ref("employee", "person"), Ref("checkIn", "plain"),
           Ref("checkOut", "plain")}
    /\ {Interviews.refs[n] : n \in DOMAIN Interviews.refs} =
          {Ref("candidate", "candidate")}
    /\ {Onboarding.refs[n] : n \in DOMAIN Onboarding.refs} =
          {Ref("employee", "person"), Ref("buddy", "person"),
           Ref("manager", "hire")}
    /\ {Reviews.refs[n] : n \in DOMAIN Reviews.refs} =
          {Ref("employee", "person"), Ref("reviewer", "person")}
    /\ {Tickets.refs[n] : n \in DOMAIN Tickets.refs} =
          {Ref("requester", "person"), Ref("assignee", "person")}
    /\ {Documents.refs[n] : n \in DOMAIN Documents.refs} =
          {Ref("file", "upload")}
    /\ {Payroll.refs[n] : n \in DOMAIN Payroll.refs} =
          {Ref("employee", "person")}
    /\ {Expenses.refs[n] : n \in DOMAIN Expenses.refs} =
          {Ref("employee", "person")}
    /\ {Plain.refs[n] : n \in DOMAIN Plain.refs} = {}
<1>1. {Profiles.refs[n] : n \in DOMAIN Profiles.refs} =
          {Ref("department", "label"), Ref("designation", "label"),
           Ref("manager", "person")}
  BY DEF Profiles, Declare
<1>2. {Departments.refs[n] : n \in DOMAIN Departments.refs} =
          {Ref("head", "person"), Ref("headText", "typed")}
  BY DEF Departments, Declare
<1>3. {Designations.refs[n] : n \in DOMAIN Designations.refs} =
          {Ref("department", "department")}
  BY DEF Designations, Declare
<1>4. {Attendance.refs[n] : n \in DOMAIN Attendance.refs} =
          {Ref("employee", "person"), Ref("checkIn", "plain"),
           Ref("checkOut", "plain")}
  BY DEF Attendance, Declare, Employee
<1>5. {Interviews.refs[n] : n \in DOMAIN Interviews.refs} =
          {Ref("candidate", "candidate")}
  BY DEF Interviews, Declare
<1>6. {Onboarding.refs[n] : n \in DOMAIN Onboarding.refs} =
          {Ref("employee", "person"), Ref("buddy", "person"),
           Ref("manager", "hire")}
  BY DEF Onboarding, Declare, Employee
<1>7. {Reviews.refs[n] : n \in DOMAIN Reviews.refs} =
          {Ref("employee", "person"), Ref("reviewer", "person")}
  BY DEF Reviews, Declare, Employee
<1>8. {Tickets.refs[n] : n \in DOMAIN Tickets.refs} =
          {Ref("requester", "person"), Ref("assignee", "person")}
  BY DEF Tickets, Declare
<1>9. {Documents.refs[n] : n \in DOMAIN Documents.refs} =
          {Ref("file", "upload")}
  BY DEF Documents, Declare
<1>10. {Payroll.refs[n] : n \in DOMAIN Payroll.refs} =
          {Ref("employee", "person")}
  BY DEF Payroll, Declare, Employee
<1>11. {Expenses.refs[n] : n \in DOMAIN Expenses.refs} =
          {Ref("employee", "person")}
  BY DEF Expenses, Declare, Employee
<1>12. {Plain.refs[n] : n \in DOMAIN Plain.refs} = {}
  BY DEF Plain, Declare
<1> QED
  BY <1>1, <1>2, <1>3, <1>4, <1>5, <1>6, <1>7, <1>8, <1>9, <1>10, <1>11, <1>12

(* The references of each resource.                                        *)
LEMMA References ==
    ASSUME NEW kind \in DOMAIN Resource
    PROVE  \/ /\ kind = "users"
              /\ Refs(kind) = {Ref("department", "label"),
                               Ref("designation", "label"),
                               Ref("manager", "person")}
           \/ /\ kind = "departments"
              /\ Refs(kind) = {Ref("head", "person"),
                               Ref("headText", "typed")}
           \/ /\ kind = "designations"
              /\ Refs(kind) = {Ref("department", "department")}
           \/ /\ kind = "attendance"
              /\ Refs(kind) = {Ref("employee", "person"),
                               Ref("checkIn", "plain"),
                               Ref("checkOut", "plain")}
           \/ /\ kind = "interviews"
              /\ Refs(kind) = {Ref("candidate", "candidate")}
           \/ /\ kind = "onboarding"
              /\ Refs(kind) = {Ref("employee", "person"),
                               Ref("buddy", "person"),
                               Ref("manager", "hire")}
           \/ /\ kind = "reviews"
              /\ Refs(kind) = {Ref("employee", "person"),
                               Ref("reviewer", "person")}
           \/ /\ kind = "tickets"
              /\ Refs(kind) = {Ref("requester", "person"),
                               Ref("assignee", "person")}
           \/ /\ kind = "documents"
              /\ Refs(kind) = {Ref("file", "upload")}
           \/ /\ kind \notin Others
              /\ Refs(kind) \subseteq {Ref("employee", "person")}
<1> DEFINE Of(d) == {d.refs[n] : n \in DOMAIN d.refs}
<1>1. Refs(kind) = Of(Resource[kind])
  BY DEF Refs
<1>2. /\ Of(Profiles) = {Ref("department", "label"), Ref("designation", "label"),
                         Ref("manager", "person")}
      /\ Of(Departments) = {Ref("head", "person"), Ref("headText", "typed")}
      /\ Of(Designations) = {Ref("department", "department")}
      /\ Of(Attendance) = {Ref("employee", "person"), Ref("checkIn", "plain"),
                           Ref("checkOut", "plain")}
      /\ Of(Interviews) = {Ref("candidate", "candidate")}
      /\ Of(Onboarding) = {Ref("employee", "person"), Ref("buddy", "person"),
                           Ref("manager", "hire")}
      /\ Of(Reviews) = {Ref("employee", "person"), Ref("reviewer", "person")}
      /\ Of(Tickets) = {Ref("requester", "person"), Ref("assignee", "person")}
      /\ Of(Documents) = {Ref("file", "upload")}
      /\ Of(Payroll) = {Ref("employee", "person")}
      /\ Of(Expenses) = {Ref("employee", "person")}
      /\ Of(Plain) = {}
  BY Declared
<1> HIDE DEF Of
<1> QED
  BY <1>1, <1>2, Catalogue

(* A slot has one way to be filled in; which ways and slots go with which  *)
(* resources.                                                              *)
LEMMA RefFacts ==
    ASSUME NEW kind \in DOMAIN Resource, NEW f \in Refs(kind)
    PROVE  /\ \A g \in Refs(kind) : f.slot = g.slot => f = g
           /\ f.by \in {"person", "typed", "plain", "candidate", "department",
                       "label", "hire", "upload"}
           /\ f.by = "hire" => f.slot = "manager" /\ kind = "onboarding"
           /\ f.slot = "manager" /\ kind = "onboarding" => f.by = "hire"
           /\ f.by = "typed" <=> f.slot = "headText"
           /\ f.slot = "headText" => kind = "departments"
           /\ f.by = "upload" <=> kind = "documents"
           /\ f.by = "upload" <=> f.slot = "file"
           /\ f.slot \in {"employee", "buddy"} => f.by = "person"
           /\ f.slot = "buddy" => kind = "onboarding"
  BY References DEF Ref, Others

LEMMA SlotsOf ==
    /\ \A a : {f.slot : f \in {a}} = {a.slot}
    /\ \A a, b : {f.slot : f \in {a, b}} = {a.slot, b.slot}
    /\ \A a, b, c : {f.slot : f \in {a, b, c}} = {a.slot, b.slot, c.slot}
    /\ \A slot, by : Ref(slot, by).slot = slot
<1>1. \A a : {f.slot : f \in {a}} = {a.slot}
  OBVIOUS
<1>2. \A a, b : {f.slot : f \in {a, b}} = {a.slot, b.slot}
  OBVIOUS
<1>3. \A a, b, c : {f.slot : f \in {a, b, c}} = {a.slot, b.slot, c.slot}
  OBVIOUS
<1> QED
  BY <1>1, <1>2, <1>3 DEF Ref

LEMMA ColumnFacts ==
    /\ Columns("users") = {"department", "designation", "manager"}
    /\ Columns("departments") = {"head"}
    /\ Columns("onboarding") = {"employee", "buddy", "manager"}
    /\ Columns("documents") = {"file"}
    /\ {"users", "departments", "onboarding", "documents"} \subseteq DOMAIN Resource
<1>1. {"users", "departments", "onboarding", "documents"} \subseteq DOMAIN Resource
  BY DEF Resource
<1>2. Columns("users") = {"department", "designation", "manager"}
  <2>1. Refs("users") = {Ref("department", "label"), Ref("designation", "label"),
                          Ref("manager", "person")}
    BY <1>1, References DEF Others
  <2>2. {f.slot : f \in Refs("users")} = {"department", "designation", "manager"}
    BY <2>1, SlotsOf
  <2> QED
    BY <2>2 DEF Columns
<1>3. Columns("departments") = {"head"}
  <2>1. Refs("departments") = {Ref("head", "person"), Ref("headText", "typed")}
    BY <1>1, References DEF Others
  <2>2. {f.slot : f \in Refs("departments")} = {"head", "headText"}
    BY <2>1, SlotsOf
  <2> QED
    BY <2>2 DEF Columns
<1>4. Columns("onboarding") = {"employee", "buddy", "manager"}
  <2>1. Refs("onboarding") = {Ref("employee", "person"), Ref("buddy", "person"),
                               Ref("manager", "hire")}
    BY <1>1, References DEF Others
  <2>2. {f.slot : f \in Refs("onboarding")} = {"employee", "buddy", "manager"}
    BY <2>1, SlotsOf
  <2> QED
    BY <2>2 DEF Columns
<1>5. Columns("documents") = {"file"}
  <2>1. Refs("documents") = {Ref("file", "upload")}
    BY <1>1, References DEF Others
  <2>2. {f.slot : f \in Refs("documents")} = {"file"}
    BY <2>1, SlotsOf
  <2> QED
    BY <2>2 DEF Columns
<1> QED
  BY <1>1, <1>2, <1>3, <1>4, <1>5

LEMMA ColumnsAreSlots ==
    ASSUME NEW kind \in DOMAIN Resource
    PROVE  Columns(kind) = Slots(kind) \ {"headText"}
  BY DEF Columns, Slots

LEMMA NothingWiped ==
    /\ \A kind \in {"users", "departments", "onboarding", "documents"} :
           Resource[kind].wiped = {}
    /\ Resource["onboarding"].needs = {"employee"}
  BY DEF Resource, Profiles, Departments, Onboarding, Documents, Declare

(* A body gives the text of a reference that is not copied from the hire.  *)
LEMMA BodyFacts ==
    ASSUME NEW kind \in DOMAIN Resource, NEW body \in Bodies[kind],
           NEW f \in Refs(kind), f.slot \in DOMAIN body
    PROVE  /\ f.by # "hire"
           /\ f.by \in DOMAIN Texts
           /\ body[f.slot] \in Texts[f.by]
           /\ body[f.slot] \in Words
<1>1. PICK some : /\ some \subseteq {g \in Refs(kind) : g.by # "hire"}
                  /\ body \in [{g.slot : g \in some} -> UNION {Texts[g.by] : g \in some}]
                  /\ \A g \in some : body[g.slot] \in Texts[g.by]
  BY DEF Bodies
<1>2. f \in some
  <2>1. PICK g \in some : g.slot = f.slot
    BY <1>1
  <2> QED
    BY <1>1, <2>1, RefFacts
<1>3. f.by # "hire" /\ f.by \in DOMAIN Texts
  BY <1>1, <1>2, DirectoryAssumption
<1> QED
  BY <1>1, <1>2, <1>3 DEF Words

(* The order in which references are resolved.                             *)
LEMMA Places ==
    ASSUME NEW kind \in DOMAIN Resource
    PROVE  /\ DOMAIN Resource[kind].refs \subseteq 1..3
           /\ kind = "onboarding" =>
                 /\ DOMAIN Resource[kind].refs = 1..3
                 /\ Resource[kind].refs[1] = Ref("employee", "person")
                 /\ Resource[kind].refs[2] = Ref("buddy", "person")
                 /\ Resource[kind].refs[3] = Ref("manager", "hire")
<1>1. \A d \in {Profiles, Departments, Designations, Attendance, Interviews,
               Onboarding, Reviews, Tickets, Documents, Payroll, Expenses, Plain} :
          DOMAIN d.refs \subseteq 1..3
  BY DEF Profiles, Departments, Designations, Attendance, Interviews, Onboarding,
         Reviews, Tickets, Documents, Payroll, Expenses, Plain, Declare
<1>2. /\ DOMAIN Onboarding.refs = 1..3
      /\ Onboarding.refs[1] = Ref("employee", "person")
      /\ Onboarding.refs[2] = Ref("buddy", "person")
      /\ Onboarding.refs[3] = Ref("manager", "hire")
  BY DEF Onboarding, Declare, Employee
<1> QED
  BY <1>1, <1>2, Catalogue DEF Others

(***************************************************************************)
(* Type correctness.                                                       *)
(***************************************************************************)
AllSlots == UNION {Slots(kind) : kind \in DOMAIN Resource}
SomeRefs == UNION {[some -> Pairs] : some \in SUBSET AllSlots}

Row == [state: {"absent", "live", "removed"}, kind: DOMAIN Resource \cup {Nil},
        name: 0..MaxName, ref: SomeRefs]

Request == [pc: {"open", "reflect"}, op: {"create", "update"}, id: Ids,
            by: {Home[i] : i \in Ids} \cup {Nil}, kind: DOMAIN Resource,
            body: UNION {Bodies[kind] : kind \in DOMAIN Resource},
            rename: BOOLEAN, before: Row, got: SomeRefs, head: Pairs]

Shape ==
    /\ row \in [Ids -> Row]
    /\ req \in [Reqs -> Request \cup {Idle}]
    /\ begun \in 0..MaxBegun /\ files \in Nat /\ excused \subseteq Rows

(* Columns go with the kind, and a row is of a kind once it is known.      *)
RowsFit ==
    \A i \in Ids :
        /\ i \in People => row[i].kind = "users"
        /\ i \in Rows => row[i].kind \in Kinds \cup {Nil}
        /\ i \in Rows => (Known(i) <=> row[i].kind # Nil)
        /\ DOMAIN row[i].ref = IF row[i].kind = Nil THEN {} ELSE Columns(row[i].kind)

(* A request is of the kind of its row; requests of a row that is not      *)
(* known yet agree on it.                                                  *)
Fits(q) ==
    /\ q.id \in People => q.kind = "users"
    /\ q.id \in Rows => q.kind \in Kinds
    /\ q.body \in Bodies[q.kind]
    /\ DOMAIN q.got \subseteq Slots(q.kind)
    /\ "headText" \in DOMAIN q.got => q.got["headText"].id \in {Typed, Nil}
    /\ Known(q.id) => row[q.id].kind = q.kind
    /\ q.op = "update" \/ q.pc = "reflect" => Known(q.id)
    /\ q.op = "update" => /\ q.before.kind = q.kind
                          /\ DOMAIN q.before.ref = Columns(q.kind)
    /\ q.pc = "reflect" => q.kind = "departments"

Busy(r) == req[r] # Idle

RequestsFit ==
    /\ \A r \in Reqs : Busy(r) => Fits(req[r])
    /\ \A r, p \in Reqs : Busy(r) /\ Busy(p) /\ req[r].id = req[p].id =>
          req[r].kind = req[p].kind

(* Uploads to come are paid for by requests.                               *)
Uploading == {r \in Reqs : /\ Busy(r) /\ req[r].pc = "open"
                           /\ req[r].kind = "documents"
                           /\ "file" \notin DOMAIN req[r].got}

FilesCounted == files + Cardinality(Uploading) <= begun

WellTyped == Shape /\ RowsFit /\ RequestsFit /\ FilesCounted

LEMMA PartFacts ==
    /\ \A ref \in SomeRefs : ref \in [DOMAIN ref -> Pairs] /\ DOMAIN ref \subseteq AllSlots
    /\ \A some \in SUBSET AllSlots : [some -> Pairs] \subseteq SomeRefs
  BY DEF SomeRefs

LEMMA PairFacts ==
    /\ NoRef \in Pairs /\ NoRef.id = Nil /\ NoRef.name = Nil
    /\ \A id \in Ids \cup Words \cup (0..MaxBegun) \cup {Nil} :
          \A name \in Names : Pair(id, name) \in Pairs
    /\ \A id, name : Pair(id, name).id = id /\ Pair(id, name).name = name
    /\ {Nil, Typed} \subseteq Names
    /\ \A i \in Ids : \A k \in 0..MaxName : <<i, k>> \in Names
    /\ NoRefs \in SomeRefs /\ DOMAIN NoRefs = {}
<1>1. NoRefs \in [{} -> Pairs] /\ DOMAIN NoRefs = {}
  BY DEF NoRefs
<1>2. NoRefs \in SomeRefs
  BY <1>1, PartFacts
<1> QED
  BY <1>1, <1>2 DEF NoRef, Pair, Pairs, Names

LEMMA BusyFacts ==
    ASSUME Shape, NEW r \in Reqs
    PROVE  /\ Busy(r) <=> req[r] \in Request
           /\ req[r].pc \in {"open", "reflect"} => Busy(r)
           /\ Busy(r) => req[r].pc \in {"open", "reflect"}
<1>1. \A q \in Request : q.pc \in {"open", "reflect"}
  BY DEF Request
<1>2. Idle.pc = "idle"
  BY DEF Idle
<1> QED
  BY <1>1, <1>2 DEF Shape, Busy

LEMMA InitTyped == Init => WellTyped
<1> SUFFICES ASSUME Init PROVE WellTyped
  OBVIOUS
<1>1. Columns("users") \subseteq AllSlots /\ "users" \in DOMAIN Resource
  BY ColumnFacts, ColumnsAreSlots DEF AllSlots
<1>2. [s \in Columns("users") |-> NoRef] \in SomeRefs
  BY <1>1, PairFacts, PartFacts
<1>3. \A i \in Ids :
         /\ row[i] \in Row
         /\ i \in People => /\ row[i].kind = "users"
                            /\ DOMAIN row[i].ref = Columns("users")
         /\ i \in Rows => /\ row[i].kind = Nil /\ row[i].state = "absent"
                          /\ DOMAIN row[i].ref = {}
  BY <1>1, <1>2, PairFacts, DirectoryAssumption DEF Init, Row, Ids
<1>4. Uploading = {}
  BY DEF Uploading, Busy, Init
<1>5. Shape
  BY <1>3, DirectoryAssumption DEF Shape, Init
<1>6. RowsFit
  <2>1. "users" # Nil /\ People \cap Rows = {}
    BY <1>1, DirectoryAssumption
  <2>2. ASSUME NEW i \in People
        PROVE  /\ i \notin Rows /\ row[i].kind = "users"
               /\ DOMAIN row[i].ref = Columns(row[i].kind) /\ row[i].kind # Nil
    BY <1>3, <2>1 DEF Ids
  <2>3. ASSUME NEW i \in Rows
        PROVE  /\ i \notin People /\ row[i].kind = Nil /\ ~Known(i)
               /\ DOMAIN row[i].ref = {}
    BY <1>3, <2>1 DEF Ids, Known
  <2> QED
    BY <2>2, <2>3 DEF RowsFit, Ids
<1>7. RequestsFit
  BY DEF RequestsFit, Busy, Init
<1>8. FilesCounted
  BY <1>4, FS_EmptySet DEF FilesCounted, Init
<1> QED
  BY <1>5, <1>6, <1>7, <1>8 DEF WellTyped

(* What the actions do, as far as the proofs go into it.  A request        *)
(* begins.                                                                 *)
Begins(r) ==
    \/ \E i \in Rows, kind \in Kinds : \E body \in Bodies[kind] :
           Create(r, i, kind, body)
    \/ \E p \in People, body \in Bodies["users"], rename \in BOOLEAN :
           Hire(r, p, body, rename)
    \/ \E i \in {j \in Ids : Live(j)}, by \in Callers, rename \in BOOLEAN :
           \E body \in Bodies[row[i].kind] : Update(r, i, by, body, rename)

LEMMA BeginEffect ==
    ASSUME Shape, RowsFit, NEW r \in Reqs, Begins(r)
    PROVE  /\ ~Busy(r) /\ begun' = begun + 1 /\ begun < MaxBegun
           /\ UNCHANGED <<row, files, bosses, excused>>
           /\ \E q \in Request :
                 /\ req' = [req EXCEPT ![r] = q]
                 /\ q.pc = "open" /\ q.got = NoRefs /\ q.before = row[q.id]
                 /\ Fits(q)
                 /\ q.op = "create" /\ q.id \in Rows =>
                       /\ ~Known(q.id)
                       /\ \A p \in Reqs : Busy(p) => req[p].id # q.id
                 /\ q.op = "create" /\ q.kind = "onboarding" =>
                       "employee" \in DOMAIN q.body /\ q.body["employee"] # Nil
<1> DEFINE entry(op, i, by, kind, body, rename) ==
               [pc |-> "open", op |-> op, id |-> i, by |-> by, kind |-> kind,
                body |-> body, rename |-> rename, before |-> row[i],
                got |-> NoRefs, head |-> NoRef]
<1>1. \A op, i, by, kind, body, rename :
         Begin(r, op, i, by, kind, body, rename) =>
             /\ ~Busy(r) /\ begun' = begun + 1 /\ begun < MaxBegun
             /\ UNCHANGED <<row, files, bosses, excused>>
             /\ req' = [req EXCEPT ![r] = entry(op, i, by, kind, body, rename)]
  BY DEF Begin, Busy
<1>2. ASSUME NEW op \in {"create", "update"}, NEW i \in Ids,
             NEW by \in {Home[j] : j \in Ids} \cup {Nil}, NEW kind \in DOMAIN Resource,
             NEW body \in Bodies[kind], NEW rename \in BOOLEAN
      PROVE  entry(op, i, by, kind, body, rename) \in Request
  BY <1>2, PairFacts DEF Shape, Request
<1>3. /\ Kinds \subseteq DOMAIN Resource /\ "users" \in DOMAIN Resource
      /\ "users" \notin Kinds /\ Nil \notin DOMAIN Resource /\ People \cap Rows = {}
  BY ColumnFacts, DirectoryAssumption
<1>4. CASE \E i \in Rows, kind \in Kinds : \E body \in Bodies[kind] :
               Create(r, i, kind, body)
  <2>1. PICK i \in Rows, kind \in Kinds : \E body \in Bodies[kind] :
            Create(r, i, kind, body)
    BY <1>4
  <2>2. PICK body \in Bodies[kind] : Create(r, i, kind, body)
    BY <2>1
  <2>3. PICK q : q = entry("create", i, Home[i], kind, body, FALSE)
    OBVIOUS
  <2>4. q \in Request
    BY <1>2, <1>3, <2>3 DEF Ids
  <2>5. /\ ~Known(i)
        /\ \A p \in Reqs : Busy(p) => req[p].id # i
        /\ kind = "onboarding" => "employee" \in DOMAIN body /\ body["employee"] # Nil
    BY <2>2, BusyFacts, NothingWiped DEF Create
  <2>6. Fits(q)
    BY <1>3, <2>3, <2>5, PairFacts DEF Fits
  <2>7. /\ q.pc = "open" /\ q.got = NoRefs /\ q.id = i /\ q.before = row[q.id]
        /\ q.kind = kind /\ q.body = body
    BY <2>3
  <2>8. Begin(r, "create", i, Home[i], kind, body, FALSE)
    BY <2>2 DEF Create
  <2>9. /\ ~Busy(r) /\ begun' = begun + 1 /\ begun < MaxBegun
        /\ UNCHANGED <<row, files, bosses, excused>>
        /\ req' = [req EXCEPT ![r] = q]
    BY <2>3, <2>8 DEF Begin, Busy
  <2> HIDE DEF entry
  <2> QED
    BY <2>4, <2>5, <2>6, <2>7, <2>9
<1>5. CASE \E p \in People, body \in Bodies["users"], rename \in BOOLEAN :
               Hire(r, p, body, rename)
  <2>1. PICK p \in People, body \in Bodies["users"], rename \in BOOLEAN :
            Hire(r, p, body, rename)
    BY <1>5
  <2>2. PICK q : q = entry("create", p, Home[p], "users", body, rename)
    OBVIOUS
  <2>3. q \in Request
    BY <1>2, <1>3, <2>2 DEF Ids
  <2>4. row[p].kind = "users"
    BY DEF RowsFit, Ids
  <2>5. Fits(q)
    BY <1>3, <2>2, <2>4, PairFacts DEF Fits
  <2> QED
    BY <1>1, <1>3, <2>1, <2>2, <2>3, <2>5 DEF Hire
<1>6. CASE \E i \in {j \in Ids : Live(j)}, by \in Callers, rename \in BOOLEAN :
               \E body \in Bodies[row[i].kind] : Update(r, i, by, body, rename)
  <2>1. PICK i \in Ids, by \in Callers, rename \in BOOLEAN :
            \E body \in Bodies[row[i].kind] : Update(r, i, by, body, rename)
    BY <1>6
  <2>2. PICK body \in Bodies[row[i].kind] : Update(r, i, by, body, rename)
    BY <2>1
  <2>3. PICK q : q = entry("update", i, by, row[i].kind, body, rename)
    OBVIOUS
  <2>4. /\ Live(i) /\ Known(i) /\ row[i].kind # Nil
        /\ i \in People => row[i].kind = "users"
        /\ i \in Rows => row[i].kind \in Kinds
        /\ DOMAIN row[i].ref = Columns(row[i].kind)
    BY <1>3, <2>2 DEF Update, RowsFit, Live, Known, Ids
  <2>5. q \in Request
    BY <1>2, <1>3, <2>2, <2>3, <2>4 DEF Ids, Update
  <2>6. Fits(q)
    BY <1>3, <2>3, <2>4, PairFacts DEF Fits
  <2> QED
    BY <1>1, <2>2, <2>3, <2>5, <2>6 DEF Update
<1> QED
  BY <1>4, <1>5, <1>6 DEF Begins

(* A name that is not typed in is one its row has or had, and that row is  *)
(* known.                                                                  *)
Sound(ref) ==
    \/ ref.name \in {Nil, Typed}
    \/ /\ ref.id \in Ids /\ Known(ref.id)
       /\ \E k \in 0..row[ref.id].name : ref.name = <<ref.id, k>>

RowsSound == \A i \in Ids : \A s \in DOMAIN row[i].ref : Sound(row[i].ref[s])

Wants(q, f) ==
    /\ f.slot \notin DOMAIN q.got
    /\ \/ f.slot \in DOMAIN q.body
       \/ f.by = "hire" /\ "employee" \in DOMAIN q.got /\ q.got.employee.id # Nil

(* What the read of a reference may bring.                                 *)
LEMMA AnswerFacts ==
    ASSUME Shape, RowsFit, NEW q \in Request, Fits(q),
           NEW f \in Refs(q.kind), Wants(q, f), NEW a \in Answers(q, f)
    PROVE  /\ f.by = "upload" => a = Pair(files + 1, Nil)
           /\ f.by # "upload" => a \in Pairs
           /\ RowsSound => Sound(a)
           /\ f.by = "typed" => a.id \in {Typed, Nil} /\ a.name = Nil
           /\ f.by = "person" /\ q.body[f.slot] # Nil => a.id # Nil
           /\ f.by = "hire" => a = NoRef \/ /\ q.got.employee.id \in People
                                            /\ a = row[q.got.employee.id].ref.manager
<1>1. q.kind \in DOMAIN Resource /\ q.body \in Bodies[q.kind]
  BY DEF Request, Fits
<1>2. f.by # "hire" => /\ f.slot \in DOMAIN q.body
                       /\ q.body[f.slot] \in Words /\ q.body[f.slot] \in Texts[f.by]
  BY <1>1, BodyFacts DEF Wants
<1>3. \A i \in Ids : row[i].name \in 0..MaxName /\ Name(i) = <<i, row[i].name>>
  BY DEF Shape, Row, Name
<1>4. ASSUME NEW id \in Ids, a = Pair(id, Name(id)), Known(id)
      PROVE  a \in Pairs /\ Sound(a)
  <2>1. a.id = id /\ a.name = <<id, row[id].name>> /\ row[id].name \in 0..row[id].name
    BY <1>3, <1>4, PairFacts, DirectoryAssumption
  <2> QED
    BY <1>3, <1>4, <2>1, PairFacts DEF Sound
<1>5. ASSUME NEW id \in Words \cup {Nil}, a = Pair(id, Nil)
      PROVE  a \in Pairs /\ Sound(a)
  BY <1>5, PairFacts DEF Sound
<1>13. Nil \notin {"candidates", "departments", "designations"}
  <2>1. {"candidates", "departments", "designations"} \subseteq DOMAIN Resource
    BY DEF Resource
  <2> QED
    BY <2>1, DirectoryAssumption
<1>6. CASE f.by = "person"
  <2> DEFINE text == q.body[f.slot]
             found == {p \in People : Known(p) /\ text \in {p, Email[p]}}
  <2>1. /\ text = Nil => a = NoRef
        /\ text # Nil => \/ a = Pair(text, Nil)
                         \/ \E p \in found : a = Pair(p, Name(p))
    BY <1>6 DEF Answers, ResolveUser
  <2>2. a \in Pairs /\ Sound(a)
    BY <1>2, <1>4, <1>5, <1>6, <2>1 DEF NoRef, Ids
  <2>3. text # Nil => a.id # Nil
    BY <2>1, PairFacts, DirectoryAssumption DEF Ids
  <2> QED
    BY <1>6, <2>2, <2>3
<1>7. CASE f.by = "candidate"
  <2> DEFINE text == q.body[f.slot]
  <2>1. \/ a = Pair(text, Nil)
        \/ text \in Rows /\ row[text].kind # Nil /\ a = Pair(text, Name(text))
    BY <1>7, <1>13 DEF Answers, ResolveCandidate
  <2> QED
    BY <1>2, <1>4, <1>5, <1>7, <2>1 DEF Ids, RowsFit
<1>8. CASE f.by = "department"
  <2> DEFINE text == q.body[f.slot]
  <2>1. a = Pair(text, Nil) \/ a = Pair(Nil, Nil)
    BY <1>8 DEF Answers, ResolveDepartment
  <2> QED
    BY <1>2, <1>5, <1>8, <2>1
<1>9. CASE f.by = "label"
  <2> DEFINE text == q.body[f.slot]
  <2>1. \/ a = Pair(text, Nil)
        \/ text \in Rows /\ row[text].kind # Nil /\ a = Pair(text, Name(text))
    BY <1>9, <1>13 DEF Answers, RefName
  <2> QED
    BY <1>2, <1>4, <1>5, <1>9, <2>1 DEF Ids, RowsFit
<1>10. CASE f.by \in {"typed", "plain"}
  <2>1. a = Pair(q.body[f.slot], Nil)
    BY <1>10 DEF Answers
  <2>2. f.by = "typed" => q.body[f.slot] \in {Typed, Nil}
    BY <1>2, <1>10, DirectoryAssumption
  <2> QED
    BY <1>2, <1>5, <1>10, <2>1, <2>2, PairFacts
<1>11. CASE f.by = "upload"
  <2>1. a = Pair(files + 1, Nil)
    BY <1>11 DEF Answers, SaveFile
  <2> QED
    BY <1>11, <2>1, PairFacts DEF Sound
<1>12. CASE f.by = "hire"
  <2> DEFINE hire == q.got.employee.id
  <2>1. a = NoRef \/ (hire \in People /\ a = row[hire].ref.manager)
    BY <1>12 DEF Answers, Inherit
  <2>2. ASSUME hire \in People
        PROVE  /\ "manager" \in DOMAIN row[hire].ref
               /\ row[hire].ref.manager \in Pairs
    <3>1. row[hire] \in Row /\ DOMAIN row[hire].ref = Columns("users")
      BY <2>2, ColumnFacts, DirectoryAssumption DEF Shape, RowsFit, Ids
    <3> QED
      BY <3>1, PartFacts, ColumnFacts DEF Row
  <2>3. a \in Pairs
    BY <2>1, <2>2, PairFacts
  <2>4. RowsSound => Sound(a)
    BY <2>1, <2>2, PairFacts DEF RowsSound, Sound, Ids
  <2> QED
    BY <1>12, <2>1, <2>3, <2>4
<1> QED
  BY <1>1, <1>6, <1>7, <1>8, <1>9, <1>10, <1>11, <1>12, RefFacts

LEMMA UpcomingFacts ==
    ASSUME NEW q \in Request, Pending(q) # {}
    PROVE  /\ Upcoming(q) \in Refs(q.kind)
           /\ Wants(q, Upcoming(q))
           /\ /\ q.kind = "onboarding" /\ Upcoming(q).slot = "buddy"
              /\ "employee" \in DOMAIN q.body
              => "employee" \in DOMAIN q.got
<1> DEFINE refs == Resource[q.kind].refs
           n == CHOOSE m \in Pending(q) : \A l \in Pending(q) : m <= l
<1>1. q.kind \in DOMAIN Resource
  BY DEF Request
<1>2. Pending(q) \subseteq DOMAIN refs /\ DOMAIN refs \subseteq 1..3
  BY <1>1, Places DEF Pending
<1>3. \E m \in Pending(q) : \A l \in Pending(q) : m <= l
  <2>1. CASE 1 \in Pending(q)
    BY <1>2, <2>1
  <2>2. CASE 1 \notin Pending(q) /\ 2 \in Pending(q)
    BY <1>2, <2>2
  <2>3. CASE 1 \notin Pending(q) /\ 2 \notin Pending(q)
    BY <1>2, <2>3
  <2> QED
    BY <2>1, <2>2, <2>3
<1>4. n \in Pending(q) /\ \A l \in Pending(q) : n <= l
  BY <1>3
<1>5. Upcoming(q) = refs[n]
  BY DEF Upcoming
<1> HIDE DEF n
<1>6. Upcoming(q) \in Refs(q.kind)
  BY <1>2, <1>4, <1>5 DEF Refs
<1>7. Wants(q, Upcoming(q))
  BY <1>4, <1>5 DEF Pending, Wants
<1>8. ASSUME q.kind = "onboarding", Upcoming(q).slot = "buddy",
             "employee" \in DOMAIN q.body, "employee" \notin DOMAIN q.got
      PROVE  FALSE
  <2>1. /\ DOMAIN refs = 1..3 /\ refs[1].slot = "employee"
        /\ refs[2].slot = "buddy" /\ refs[3].slot = "manager"
    BY <1>1, <1>8, Places DEF Ref
  <2>2. 1 \in Pending(q)
    BY <1>8, <2>1 DEF Pending
  <2> QED
    BY <1>2, <1>4, <1>5, <1>8, <2>1, <2>2
<1> QED
  BY <1>6, <1>7, <1>8

LEMMA KeepFacts ==
    ASSUME NEW got \in SomeRefs, NEW slot \in AllSlots, NEW a \in Pairs
    PROVE  /\ Keep(got, slot, a) \in SomeRefs
           /\ DOMAIN Keep(got, slot, a) = DOMAIN got \cup {slot}
           /\ Keep(got, slot, a)[slot] = a
           /\ \A s \in DOMAIN got \ {slot} : Keep(got, slot, a)[s] = got[s]
<1>1. got \in [DOMAIN got -> Pairs] /\ DOMAIN got \subseteq AllSlots
  BY PartFacts
<1>2. Keep(got, slot, a) \in [DOMAIN got \cup {slot} -> Pairs]
  BY <1>1 DEF Keep
<1>3. DOMAIN got \cup {slot} \subseteq AllSlots
  BY <1>1
<1> QED
  BY <1>2, <1>3, PartFacts DEF Keep

(* A reference is resolved: f is answered by a, or the request is refused. *)
Resolves(r, q, f, a) ==
    /\ q = req[r] /\ q \in Request /\ q.pc = "open" /\ f \in Refs(q.kind)
    /\ Wants(q, f) /\ a \in Answers(q, f) /\ a \in Pairs
    /\ \/ req' = [req EXCEPT ![r] = Idle]
       \/ /\ ~OwnBuddy(q, f.slot, a)
          /\ req' = [req EXCEPT ![r] = [q EXCEPT !.got = Keep(q.got, f.slot, a)]]
    /\ files' = IF f.by = "upload" THEN files + 1 ELSE files
    /\ q.kind = "onboarding" /\ f.slot = "buddy" /\ "employee" \in DOMAIN q.body =>
          "employee" \in DOMAIN q.got
    /\ UNCHANGED <<row, history>>

LEMMA UploadingFacts ==
    ASSUME Shape, FilesCounted, NEW r \in Uploading
    PROVE  /\ IsFiniteSet(Uploading) /\ Cardinality(Uploading) \in Nat \ {0}
           /\ files < begun /\ files < MaxBegun
<1>1. IsFiniteSet(Uploading)
  BY FS_Subset, DirectoryAssumption DEF Uploading
<1>2. Cardinality(Uploading) \in Nat /\ Cardinality(Uploading) # 0
  BY <1>1, FS_CardinalityType, FS_EmptySet
<1> QED
  BY <1>1, <1>2, DirectoryAssumption DEF Shape, FilesCounted

LEMMA ResolveEffect ==
    ASSUME WellTyped, NEW r \in Reqs, Resolve(r)
    PROVE  \E q, f, a : Resolves(r, q, f, a)
<1> USE DEF WellTyped
<1>1. PICK q : q = req[r]
  OBVIOUS
<1>2. q \in Request /\ Fits(q) /\ q.pc = "open" /\ Pending(q) # {} /\ Busy(r)
  BY <1>1, BusyFacts DEF Resolve, RequestsFit
<1>3. PICK f : f = Upcoming(q)
  OBVIOUS
<1>4. /\ f \in Refs(q.kind) /\ Wants(q, f)
      /\ q.kind = "onboarding" /\ f.slot = "buddy" /\ "employee" \in DOMAIN q.body =>
            "employee" \in DOMAIN q.got
  BY <1>2, <1>3, UpcomingFacts
<1>5. PICK a \in Answers(q, f) :
          IF OwnBuddy(q, f.slot, a) THEN End(r)
          ELSE req' = [req EXCEPT ![r].got = Keep(@, f.slot, a)]
  BY <1>1, <1>3 DEF Resolve
<1>6. a \in Pairs
  <2>1. CASE f.by # "upload"
    BY <1>2, <1>4, <2>1, AnswerFacts
  <2>2. CASE f.by = "upload"
    <3>1. f.slot = "file" /\ q.kind = "documents"
      BY <1>2, <1>4, <2>2, RefFacts DEF Request
    <3>2. r \in Uploading
      BY <1>1, <1>2, <1>4, <3>1 DEF Uploading, Wants
    <3>3. files + 1 \in 0..MaxBegun
      BY <3>2, UploadingFacts, DirectoryAssumption DEF Shape
    <3> QED
      BY <1>2, <1>4, <2>2, <3>3, AnswerFacts, PairFacts
  <2> QED
    BY <2>1, <2>2
<1>7. \/ req' = [req EXCEPT ![r] = Idle]
      \/ /\ ~OwnBuddy(q, f.slot, a)
         /\ req' = [req EXCEPT ![r] = [q EXCEPT !.got = Keep(q.got, f.slot, a)]]
  <2>1. CASE OwnBuddy(q, f.slot, a)
    BY <1>5, <2>1 DEF End
  <2>2. CASE ~OwnBuddy(q, f.slot, a)
    <3>1. req' = [req EXCEPT ![r].got = Keep(@, f.slot, a)]
      BY <1>5, <2>2
    <3>2. req' = [req EXCEPT ![r] = [q EXCEPT !.got = Keep(q.got, f.slot, a)]]
      BY <1>1, <3>1
    <3> QED
      BY <2>2, <3>2
  <2> QED
    BY <2>1, <2>2
<1>8. /\ files' = IF f.by = "upload" THEN files + 1 ELSE files
      /\ UNCHANGED <<row, history>>
  BY <1>1, <1>3 DEF Resolve
<1> QED
  BY <1>1, <1>2, <1>4, <1>5, <1>6, <1>7, <1>8 DEF Resolves

(* What a write keeps: a row of the kind already, or one without columns.  *)
LEMMA OldRow ==
    ASSUME Shape, RowsFit, NEW q \in Request, Fits(q)
    PROVE  /\ row[q.id] \in Row
           /\ row[q.id].ref \in [DOMAIN row[q.id].ref -> Pairs]
           /\ \/ row[q.id].kind = q.kind /\ DOMAIN row[q.id].ref = Columns(q.kind)
              \/ /\ row[q.id].kind = Nil /\ DOMAIN row[q.id].ref = {}
                 /\ ~Known(q.id) /\ q.id \in Rows
           /\ q.id \in Ids /\ q.kind \in DOMAIN Resource /\ q.kind # Nil
<1>1. q.id \in Ids /\ q.kind \in DOMAIN Resource /\ q.kind # Nil
  BY DirectoryAssumption DEF Request
<1>2. row[q.id] \in Row
  BY <1>1 DEF Shape
<1>3. row[q.id].ref \in [DOMAIN row[q.id].ref -> Pairs]
  BY <1>2, PartFacts DEF Row
<1>4. CASE q.id \in People
  BY <1>1, <1>2, <1>3, <1>4 DEF RowsFit, Fits
<1>5. CASE q.id \in Rows
  BY <1>1, <1>2, <1>3, <1>5 DEF RowsFit, Fits
<1> QED
  BY <1>1, <1>4, <1>5 DEF Ids

LEMMA MergedFacts ==
    ASSUME Shape, RowsFit, NEW q \in Request, Fits(q)
    PROVE  /\ Merged(q, row[q.id]) \in [Columns(q.kind) -> Pairs]
           /\ Merged(q, row[q.id]) \in SomeRefs
           /\ \A s \in Columns(q.kind) :
                 LET c == Merged(q, row[q.id])[s] IN
                 /\ s \in DOMAIN q.got => c = q.got[s]
                 /\ s \notin DOMAIN q.got =>
                       \/ c = NoRef
                       \/ s \in DOMAIN row[q.id].ref /\ c = row[q.id].ref[s]
                       \/ s = "head" /\ c.name \in {Typed, Nil}
                 /\ /\ s \notin DOMAIN q.got /\ s # "head" /\ row[q.id].kind = q.kind
                    /\ Resource[q.kind].wiped = {}
                    => s \in DOMAIN row[q.id].ref /\ c = row[q.id].ref[s]
<1> DEFINE old == row[q.id]
           kept(s) == IF s \in DOMAIN old.ref THEN old.ref[s] ELSE NoRef
           c(s) == IF s \in DOMAIN q.got THEN q.got[s]
                   ELSE IF s \in Resource[q.kind].wiped THEN NoRef
                   ELSE IF s = "head" /\ "headText" \in DOMAIN q.got
                        THEN Pair(kept(s).id, q.got["headText"].id) ELSE kept(s)
<1>1. Merged(q, old) = [s \in Columns(q.kind) |-> c(s)]
  BY DEF Merged
<1>2. q.kind \in DOMAIN Resource /\ q.got \in [DOMAIN q.got -> Pairs]
  BY PartFacts DEF Request
<1>3. \A s : kept(s) \in Pairs
  BY OldRow, PairFacts
<1>4. ASSUME NEW s \in Columns(q.kind)
      PROVE  /\ c(s) \in Pairs
             /\ s \in DOMAIN q.got => c(s) = q.got[s]
             /\ s \notin DOMAIN q.got =>
                   \/ c(s) = NoRef
                   \/ s \in DOMAIN old.ref /\ c(s) = old.ref[s]
                   \/ s = "head" /\ c(s).name \in {Typed, Nil}
             /\ /\ s \notin DOMAIN q.got /\ s # "head" /\ old.kind = q.kind
                /\ Resource[q.kind].wiped = {}
                => s \in DOMAIN old.ref /\ c(s) = old.ref[s]
  <2>1. CASE s \in DOMAIN q.got
    BY <1>2, <2>1
  <2>2. CASE s \notin DOMAIN q.got /\ s \in Resource[q.kind].wiped
    BY <2>2, PairFacts
  <2>3. CASE /\ s \notin DOMAIN q.got /\ s \notin Resource[q.kind].wiped
             /\ s = "head" /\ "headText" \in DOMAIN q.got
    <3>1. q.got["headText"].id \in {Typed, Nil}
      BY <2>3 DEF Fits
    <3>2. kept(s).id \in Ids \cup Words \cup (0..MaxBegun) \cup {Nil}
      BY <1>3 DEF Pairs
    <3>3. c(s) = Pair(kept(s).id, q.got["headText"].id)
      BY <2>3
    <3> HIDE DEF kept, c
    <3>4. c(s) \in Pairs
      <4>1. q.got["headText"].id \in Names
        BY <3>1, PairFacts
      <4> QED
        BY <3>2, <3>3, <4>1, PairFacts
    <3>5. c(s).name \in {Typed, Nil}
      BY <3>1, <3>3, PairFacts
    <3> QED
      BY <2>3, <3>4, <3>5
  <2>4. CASE /\ s \notin DOMAIN q.got /\ s \notin Resource[q.kind].wiped
             /\ ~(s = "head" /\ "headText" \in DOMAIN q.got)
    <3>1. c(s) = kept(s)
      BY <2>4
    <3>2. old.kind = q.kind => s \in DOMAIN old.ref
      BY OldRow
    <3> QED
      BY <1>3, <2>4, <3>1, <3>2
  <2> QED
    BY <2>1, <2>2, <2>3, <2>4
<1> HIDE DEF c, kept
<1>5. Merged(q, old) \in [Columns(q.kind) -> Pairs]
  BY <1>1, <1>4
<1>6. Columns(q.kind) \subseteq AllSlots
  BY <1>2, ColumnsAreSlots DEF AllSlots
<1>7. Merged(q, old) \in SomeRefs
  BY <1>5, <1>6, PartFacts
<1> QED
  BY <1>1, <1>4, <1>5, <1>7

(* A request is written: the row becomes new.                              *)
Reflects(q, new) == q.kind = "departments" /\ new.ref.head.id # Nil

Writes(r, q, new) ==
    /\ q = req[r] /\ q \in Request /\ Fits(q) /\ q.pc = "open" /\ Pending(q) = {}
    /\ q.id \in Ids /\ q.kind \in DOMAIN Resource /\ q.kind # Nil
    /\ row' = [row EXCEPT ![q.id] = new]
    /\ new \in Row /\ new.kind = q.kind /\ new.ref = Merged(q, row[q.id])
    /\ new.state = IF q.op = "create" THEN "live" ELSE row[q.id].state
    /\ new.state # "absent"
    /\ new.name >= row[q.id].name
    /\ IF Reflects(q, new)
       THEN /\ req' = [req EXCEPT ![r] =
                   [q EXCEPT !.pc = "reflect", !.got = NoRefs,
                             !.head = Pair(new.ref.head.id, <<q.id, new.name>>)]]
            /\ Pair(new.ref.head.id, <<q.id, new.name>>) \in Pairs
       ELSE req' = [req EXCEPT ![r] = Idle]
    /\ bosses' = IF q.kind = "users"
                 THEN bosses \cup {<<q.id, new.ref.manager>>} ELSE bosses
    /\ excused' = excused \cup (IF Reflects(q, new) THEN {q.id} ELSE {})
                    \cup (IF q.kind = "users" /\ "department" \in DOMAIN q.got
                          THEN Headed(q.id) ELSE {})
    /\ UNCHANGED <<files, begun>>

LEMMA WriteEffect ==
    ASSUME WellTyped, NEW r \in Reqs, Write(r)
    PROVE  \E q, new : Writes(r, q, new)
<1> USE DEF WellTyped
<1>1. PICK q : q = req[r]
  OBVIOUS
<1>2. /\ q \in Request /\ Fits(q) /\ q.pc = "open" /\ Pending(q) = {}
      /\ q.rename => row[q.id].name < MaxName
  BY <1>1, BusyFacts DEF Write, RequestsFit
<1>3. PICK new : new = Written(q, row[q.id])
  OBVIOUS
<1>4. /\ new.kind = q.kind /\ new.ref = Merged(q, row[q.id])
      /\ new.state = IF q.op = "create" THEN "live" ELSE row[q.id].state
      /\ new.name = IF q.rename THEN row[q.id].name + 1 ELSE row[q.id].name
      /\ new = [state |-> new.state, kind |-> new.kind, name |-> new.name,
                ref |-> new.ref]
  BY <1>3 DEF Written
<1>5. row[q.id].name \in 0..MaxName /\ row[q.id].state \in {"absent", "live", "removed"}
  BY <1>2, OldRow DEF Row
<1>6. new.name \in 0..MaxName /\ new.name >= row[q.id].name
  BY <1>2, <1>4, <1>5, DirectoryAssumption
<1>7. new.state \in {"live", "removed"}
  BY <1>2, <1>4, <1>5 DEF Fits, Known, Request
<1>8. new \in Row
  BY <1>2, <1>4, <1>6, <1>7, MergedFacts, OldRow DEF Row
<1>9. /\ row' = [row EXCEPT ![q.id] = new]
      /\ IF Reflects(q, new)
         THEN req' = [req EXCEPT ![r].pc = "reflect", ![r].got = NoRefs,
                          ![r].head = Pair(new.ref.head.id, <<q.id, new.name>>)]
         ELSE End(r)
      /\ bosses' = IF q.kind = "users"
                   THEN bosses \cup {<<q.id, new.ref.manager>>} ELSE bosses
      /\ excused' = excused \cup (IF Reflects(q, new) THEN {q.id} ELSE {})
                      \cup (IF q.kind = "users" /\ "department" \in DOMAIN q.got
                            THEN Headed(q.id) ELSE {})
      /\ UNCHANGED <<files, begun>>
  BY <1>1, <1>3 DEF Write, Reflects
<1>10. IF Reflects(q, new)
       THEN /\ req' = [req EXCEPT ![r] =
                   [q EXCEPT !.pc = "reflect", !.got = NoRefs,
                             !.head = Pair(new.ref.head.id, <<q.id, new.name>>)]]
            /\ Pair(new.ref.head.id, <<q.id, new.name>>) \in Pairs
       ELSE req' = [req EXCEPT ![r] = Idle]
  <2>1. CASE Reflects(q, new)
    <3>1. req' = [req EXCEPT ![r] =
                   [q EXCEPT !.pc = "reflect", !.got = NoRefs,
                             !.head = Pair(new.ref.head.id, <<q.id, new.name>>)]]
      BY <1>1, <1>9, <2>1
    <3>2. new.ref["head"] \in Pairs
      BY <1>2, <1>4, <2>1, MergedFacts, ColumnFacts DEF Reflects
    <3>3. new.ref.head.id \in Ids \cup Words \cup (0..MaxBegun) \cup {Nil}
      BY <3>2 DEF Pairs
    <3>4. <<q.id, new.name>> \in Names
      BY <1>2, <1>6, OldRow, PairFacts
    <3> QED
      BY <2>1, <3>1, <3>3, <3>4, PairFacts
  <2>2. CASE ~Reflects(q, new)
    BY <1>9, <2>2 DEF End
  <2> QED
    BY <2>1, <2>2
<1> QED
  BY <1>1, <1>2, <1>4, <1>6, <1>7, <1>8, <1>9, <1>10, OldRow DEF Writes

(* The hook of a department: the profiles it updates name the department.  *)
Hooks(r, q) ==
    /\ q = req[r] /\ q \in Request /\ Fits(q) /\ q.pc = "reflect"
    /\ q.id \in Ids /\ Pair(q.id, q.head.name) \in Pairs
    /\ row' \in [Ids -> Row]
    /\ \A p \in Ids : /\ row'[p].state = row[p].state
                      /\ row'[p].kind = row[p].kind /\ row'[p].name = row[p].name
                      /\ DOMAIN row'[p].ref = DOMAIN row[p].ref
    /\ \A p \in Ids : \A s \in DOMAIN row[p].ref :
          row'[p].ref[s] = IF p \in Reflected(q) /\ s = "department"
                           THEN Pair(q.id, q.head.name) ELSE row[p].ref[s]
    /\ excused' =
          IF q.head.id \in People /\ Live(q.head.id)
          THEN (excused \cup Headed(q.head.id)) \
                   (IF row[q.id].ref.head.id = q.head.id THEN {q.id} ELSE {})
          ELSE excused
    /\ req' = [req EXCEPT ![r] = Idle]
    /\ UNCHANGED <<files, begun, bosses>>

LEMMA ReflectEffect ==
    ASSUME WellTyped, NEW r \in Reqs, Reflect(r)
    PROVE  \E q : Hooks(r, q)
<1> USE DEF WellTyped
<1>1. PICK q : q = req[r]
  OBVIOUS
<1>2. q \in Request /\ Fits(q) /\ q.pc = "reflect" /\ q.id \in Ids
  <2>1. req[r].pc = "reflect"
    BY DEF Reflect
  <2>2. Busy(r) /\ q \in Request
    BY <1>1, <2>1, BusyFacts
  <2> QED
    BY <1>1, <2>1, <2>2 DEF RequestsFit, Request
<1>3. PICK pair : pair = Pair(q.id, q.head.name)
  OBVIOUS
<1>4. pair \in Pairs
  <2>1. q.head \in Pairs
    BY <1>2 DEF Request
  <2>2. q.head.name \in Names
    BY <2>1 DEF Pairs
  <2> QED
    BY <1>2, <1>3, <2>2, PairFacts
<1> DEFINE with(p) == [row[p] EXCEPT !.ref.department = pair]
           next(p) == IF p \in Reflected(q) THEN with(p) ELSE row[p]
<1>5. /\ row' = [p \in Ids |-> next(p)]
      /\ excused' =
          IF q.head.id \in People /\ Live(q.head.id)
          THEN (excused \cup Headed(q.head.id)) \
                   (IF row[q.id].ref.head.id = q.head.id THEN {q.id} ELSE {})
          ELSE excused
      /\ req' = [req EXCEPT ![r] = Idle]
      /\ UNCHANGED <<files, begun, bosses>>
  BY <1>1, <1>3 DEF Reflect, End
<1>6. ASSUME NEW p \in Ids
      PROVE  /\ next(p) \in Row
             /\ next(p).state = row[p].state /\ next(p).kind = row[p].kind
             /\ next(p).name = row[p].name
             /\ DOMAIN next(p).ref = DOMAIN row[p].ref
             /\ \A s \in DOMAIN row[p].ref :
                   next(p).ref[s] = IF p \in Reflected(q) /\ s = "department"
                                    THEN pair ELSE row[p].ref[s]
  <2>1. PICK x \in Row : x = row[p]
    BY DEF Shape
  <2>2. x.ref \in [DOMAIN x.ref -> Pairs] /\ DOMAIN x.ref \subseteq AllSlots
    BY PartFacts DEF Row
  <2>3. CASE p \in Reflected(q)
    <3>1. PICK ref : ref = [x.ref EXCEPT !.department = pair]
      OBVIOUS
    <3>2. /\ ref \in [DOMAIN x.ref -> Pairs] /\ DOMAIN ref = DOMAIN x.ref
          /\ \A s \in DOMAIN x.ref :
                ref[s] = IF s = "department" THEN pair ELSE x.ref[s]
      BY <1>4, <2>2, <3>1
    <3>3. ref \in SomeRefs
      BY <2>2, <3>2, PartFacts
    <3>4. next(p) = [x EXCEPT !.ref = ref]
      BY <2>1, <2>3, <3>1
    <3>5. [x EXCEPT !.ref = ref] \in Row /\ [x EXCEPT !.ref = ref].ref = ref
          /\ [x EXCEPT !.ref = ref].state = x.state
          /\ [x EXCEPT !.ref = ref].kind = x.kind
          /\ [x EXCEPT !.ref = ref].name = x.name
      BY <3>3 DEF Row
    <3> QED
      BY <2>1, <2>3, <3>2, <3>4, <3>5
  <2>4. CASE p \notin Reflected(q)
    BY <2>1, <2>4
  <2> QED
    BY <2>3, <2>4
<1> HIDE DEF next
<1>7. row' \in [Ids -> Row]
  BY <1>5, <1>6
<1>8. \A p \in Ids : row'[p] = next(p)
  BY <1>5
<1>9. /\ \A p \in Ids : /\ row'[p].state = row[p].state
                        /\ row'[p].kind = row[p].kind /\ row'[p].name = row[p].name
                        /\ DOMAIN row'[p].ref = DOMAIN row[p].ref
      /\ \A p \in Ids : \A s \in DOMAIN row[p].ref :
            row'[p].ref[s] = IF p \in Reflected(q) /\ s = "department"
                             THEN Pair(q.id, q.head.name) ELSE row[p].ref[s]
  BY <1>3, <1>6, <1>8
<1>10. Pair(q.id, q.head.name) \in Pairs
  BY <1>3, <1>4
<1>11. /\ excused' =
            IF q.head.id \in People /\ Live(q.head.id)
            THEN (excused \cup Headed(q.head.id)) \
                     (IF row[q.id].ref.head.id = q.head.id THEN {q.id} ELSE {})
            ELSE excused
       /\ req' = [req EXCEPT ![r] = Idle]
       /\ UNCHANGED <<files, begun, bosses>>
  BY <1>5
<1>12. Hooks(r, q)
  BY ONLY <1>1, <1>2, <1>7, <1>9, <1>10, <1>11 DEF Hooks
<1> QED
  BY <1>12

(* A row is removed or restored.                                           *)
Marks(i) ==
    /\ row' \in [Ids -> Row] /\ Known(i) /\ row'[i].state # "absent"
    /\ i \in Rows => row'[i].state = "removed"
    /\ \A p \in Ids : /\ p # i => row'[p].state = row[p].state
                      /\ row'[p].kind = row[p].kind /\ row'[p].name = row[p].name
                      /\ row'[p].ref = row[p].ref
    /\ begun < MaxBegun /\ begun' = begun + 1
    /\ UNCHANGED <<req, files, bosses, excused>>

LEMMA MarkEffect ==
    ASSUME Shape, NEW i \in Ids, Remove(i) \/ Restore(i)
    PROVE  Marks(i)
<1>1. PICK s \in {"live", "removed"} :
          /\ row' = [row EXCEPT ![i].state = s] /\ row[i].state # "absent"
          /\ i \in Rows => s = "removed"
  BY DirectoryAssumption DEF Remove, Restore, Live
<1>2. PICK x \in Row : x = row[i]
  BY DEF Shape
<1>3. row' = [row EXCEPT ![i] = [x EXCEPT !.state = s]]
  BY <1>1, <1>2
<1>4. /\ [x EXCEPT !.state = s] \in Row /\ [x EXCEPT !.state = s].state = s
      /\ [x EXCEPT !.state = s].kind = x.kind
      /\ [x EXCEPT !.state = s].name = x.name
      /\ [x EXCEPT !.state = s].ref = x.ref
  BY DEF Row
<1>5. /\ row' \in [Ids -> Row] /\ row'[i] = [x EXCEPT !.state = s]
      /\ \A p \in Ids \ {i} : row'[p] = row[p]
  BY <1>3, <1>4 DEF Shape
<1>6. /\ begun < MaxBegun /\ begun' = begun + 1
      /\ UNCHANGED <<req, files, bosses, excused>>
  BY DEF Remove, Restore
<1> QED
  BY <1>1, <1>2, <1>4, <1>5, <1>6 DEF Marks, Known

LEMMA AbortEffect ==
    ASSUME NEW r, Abort(r)
    PROVE  req' = [req EXCEPT ![r] = Idle] /\ UNCHANGED <<row, files, history>>
  BY DEF Abort, End

LEMMA NextEffects ==
    ASSUME WellTyped, [Next]_vars
    PROVE  \/ UNCHANGED vars
           \/ \E r \in Reqs : \/ Begins(r)
                              \/ \E q, f, a : Resolves(r, q, f, a)
                              \/ \E q, new : Writes(r, q, new)
                              \/ \E q : Hooks(r, q)
                              \/ Abort(r)
           \/ \E i \in Ids : Marks(i)
<1>1. \A r \in Reqs : Resolve(r) => \E q, f, a : Resolves(r, q, f, a)
  BY ResolveEffect
<1>2. \A r \in Reqs : Write(r) => \E q, new : Writes(r, q, new)
  BY WriteEffect
<1>3. \A r \in Reqs : Reflect(r) => \E q : Hooks(r, q)
  BY ReflectEffect
<1>4. \A i \in Ids : Remove(i) \/ Restore(i) => Marks(i)
  BY MarkEffect DEF WellTyped
<1> QED
  BY <1>1, <1>2, <1>3, <1>4 DEF Next, Begins, Ids

(* How the parts of type correctness are carried over a step.              *)
LEMMA KeepRequestsFit ==
    ASSUME Shape, RequestsFit, NEW r \in Reqs, NEW x \in Request \cup {Idle},
           req' = [req EXCEPT ![r] = x],
           \A i \in Ids : Known(i) => Known(i)',
           \A p \in Reqs \ {r} : \A i \in Ids :
               Busy(p) /\ req[p].id = i /\ Known(i)' => row'[i].kind = req[p].kind,
           x # Idle =>
               /\ Fits(x)'
               /\ \A p \in Reqs \ {r} : Busy(p) /\ req[p].id = x.id =>
                     req[p].kind = x.kind
    PROVE  RequestsFit'
<1>1. req'[r] = x /\ \A p \in Reqs \ {r} : req'[p] = req[p]
  BY DEF Shape
<1>2. ASSUME NEW p \in Reqs, Busy(p)'
      PROVE  Fits(req[p])'
  <2>1. CASE p = r
    <3>1. x # Idle
      BY <1>1, <1>2, <2>1 DEF Busy
    <3>2. Fits(x)'
      BY <3>1
    <3> QED
      BY <1>1, <2>1, <3>2
  <2>2. CASE p # r
    <3>1. PICK q : q = req[p]
      OBVIOUS
    <3>2. req'[p] = q /\ Busy(p)
      BY <1>1, <1>2, <2>2, <3>1 DEF Busy
    <3>3. Fits(q) /\ q \in Request
      BY <3>1, <3>2, BusyFacts DEF RequestsFit
    <3>4. q.id \in Ids
      BY <3>3 DEF Request
    <3>5. Known(q.id)' => row'[q.id].kind = q.kind
      BY <2>2, <3>1, <3>2, <3>4
    <3>6. Known(q.id) => Known(q.id)'
      BY <3>4
    <3>7. Fits(q)'
      BY <3>3, <3>5, <3>6 DEF Fits
    <3> QED
      BY <3>2, <3>7
  <2> QED
    BY <2>1, <2>2
<1>3. ASSUME NEW p \in Reqs, NEW o \in Reqs, Busy(p)', Busy(o)',
             req'[p].id = req'[o].id
      PROVE  req'[p].kind = req'[o].kind
  <2>1. CASE p = r /\ o # r
    BY <1>1, <1>3, <2>1 DEF Busy
  <2>2. CASE o = r /\ p # r
    BY <1>1, <1>3, <2>2 DEF Busy
  <2>3. CASE o # r /\ p # r
    <3>1. Busy(p) /\ Busy(o) /\ req[p].id = req[o].id
      BY <1>1, <1>3, <2>3 DEF Busy
    <3> QED
      BY <1>1, <2>3, <3>1 DEF RequestsFit
  <2> QED
    BY <2>1, <2>2, <2>3
<1> QED
  BY <1>2, <1>3 DEF RequestsFit

LEMMA UploadsType ==
    /\ IsFiniteSet(Uploading) /\ Cardinality(Uploading) \in Nat
    /\ \A set \in SUBSET Uploading : /\ IsFiniteSet(set)
                                     /\ Cardinality(set) \in Nat
                                     /\ Cardinality(set) <= Cardinality(Uploading)
<1>1. IsFiniteSet(Uploading)
  BY FS_Subset, DirectoryAssumption DEF Uploading
<1> QED
  BY <1>1, FS_Subset, FS_CardinalityType

LEMMA KeepFilesCounted ==
    ASSUME Shape, Shape', FilesCounted,
           \/ files' = files /\ begun' >= begun /\ Uploading' \subseteq Uploading
           \/ /\ files' = files /\ begun' = begun + 1
              /\ \E r \in Reqs : Uploading' \subseteq Uploading \cup {r}
           \/ /\ files' = files + 1 /\ begun' = begun
              /\ \E r \in Uploading : Uploading' \subseteq Uploading \ {r}
    PROVE  FilesCounted'
<1> DEFINE n == Cardinality(Uploading)
<1>1. /\ n \in Nat /\ files \in Nat /\ begun \in Nat
      /\ files' \in Nat /\ begun' \in Nat /\ files + n <= begun
      /\ IsFiniteSet(Uploading)
  BY UploadsType, DirectoryAssumption DEF Shape, FilesCounted
<1> DEFINE m == Cardinality(Uploading')
<1>2. CASE files' = files /\ begun' >= begun /\ Uploading' \subseteq Uploading
  <2>1. m \in Nat /\ m <= n
    BY <1>2, UploadsType
  <2>2. files' + m <= begun'
    BY <1>1, <1>2, <2>1
  <2> QED
    BY <2>2 DEF FilesCounted
<1>3. CASE /\ files' = files /\ begun' = begun + 1
           /\ \E r \in Reqs : Uploading' \subseteq Uploading \cup {r}
  <2>1. PICK r \in Reqs : Uploading' \subseteq Uploading \cup {r}
    BY <1>3
  <2>2. /\ IsFiniteSet(Uploading \cup {r})
        /\ Cardinality(Uploading \cup {r}) \in {n, n + 1}
    BY <1>1, FS_AddElement
  <2>3. IsFiniteSet(Uploading') /\ m <= Cardinality(Uploading \cup {r})
    BY <2>1, <2>2, FS_Subset
  <2>4. m \in Nat
    BY <2>3, FS_CardinalityType
  <2>5. files' + m <= begun'
    BY <1>1, <1>3, <2>2, <2>3, <2>4
  <2> QED
    BY <2>5 DEF FilesCounted
<1>4. CASE /\ files' = files + 1 /\ begun' = begun
           /\ \E r \in Uploading : Uploading' \subseteq Uploading \ {r}
  <2>1. PICK r \in Uploading : Uploading' \subseteq Uploading \ {r}
    BY <1>4
  <2>2. IsFiniteSet(Uploading \ {r}) /\ Cardinality(Uploading \ {r}) = n - 1
    BY <1>1, FS_RemoveElement
  <2>3. IsFiniteSet(Uploading') /\ m <= n - 1
    BY <2>1, <2>2, FS_Subset
  <2>4. m \in Nat
    BY <2>3, FS_CardinalityType
  <2>5. files' + m <= begun'
    BY <1>1, <1>4, <2>3, <2>4
  <2> QED
    BY <2>5 DEF FilesCounted
<1> QED
  BY <1>2, <1>3, <1>4

LEMMA BeginTyped ==
    ASSUME WellTyped, NEW r \in Reqs, Begins(r)
    PROVE  WellTyped'
<1> USE DEF WellTyped
<1>1. PICK q \in Request :
          /\ req' = [req EXCEPT ![r] = q] /\ Fits(q)
          /\ q.op = "create" /\ q.id \in Rows =>
                \A p \in Reqs : Busy(p) => req[p].id # q.id
  BY BeginEffect
<1>2. begun' = begun + 1 /\ begun < MaxBegun /\ UNCHANGED <<row, files, excused>>
  BY BeginEffect
<1>3. Shape'
  BY <1>1, <1>2, DirectoryAssumption DEF Shape
<1>4. RowsFit'
  BY <1>2 DEF RowsFit, Known
<1>5. Fits(q)'
  BY <1>1, <1>2 DEF Fits, Known
<1>6. \A p \in Reqs : Busy(p) => Fits(req[p]) /\ req[p].op \in {"create", "update"}
  BY BusyFacts DEF RequestsFit, Request
<1>7. ASSUME NEW p \in Reqs \ {r}, Busy(p), req[p].id = q.id
      PROVE  req[p].kind = q.kind
  <2>1. q.id \in People \/ (q.id \in Rows /\ q.op = "update")
    BY <1>1, <1>7 DEF Request, Ids
  <2> QED
    BY <1>1, <1>6, <1>7, <2>1 DEF Fits
<1>8. RequestsFit'
  <2>1. \A p \in Reqs \ {r} : \A i \in Ids :
            Busy(p) /\ req[p].id = i /\ Known(i)' => row'[i].kind = req[p].kind
    BY <1>2, <1>6 DEF Fits, Known
  <2>2. \A i \in Ids : Known(i) => Known(i)'
    BY <1>2 DEF Known
  <2> QED
    BY <1>1, <1>5, <1>7, <2>1, <2>2, KeepRequestsFit
<1>9. Uploading' \subseteq Uploading \cup {r}
  BY <1>1, <1>2 DEF Uploading, Busy, Shape
<1>10. FilesCounted'
  BY <1>2, <1>3, <1>9, KeepFilesCounted
<1> QED
  BY <1>3, <1>4, <1>8, <1>10

LEMMA ResolveTyped ==
    ASSUME WellTyped, NEW r \in Reqs, NEW q, NEW f, NEW a, Resolves(r, q, f, a)
    PROVE  WellTyped'
<1> USE DEF WellTyped
<1>1. /\ q = req[r] /\ q \in Request /\ q.pc = "open" /\ f \in Refs(q.kind)
      /\ Wants(q, f) /\ a \in Answers(q, f) /\ a \in Pairs
      /\ files' = IF f.by = "upload" THEN files + 1 ELSE files
      /\ UNCHANGED <<row, begun, bosses, excused>>
  BY DEF Resolves, history
<1>2. Fits(q) /\ Busy(r) /\ q.kind \in DOMAIN Resource
  BY <1>1, BusyFacts DEF RequestsFit, Request
<1>3. f.slot \in Slots(q.kind) /\ f.slot \in AllSlots
  BY <1>1, <1>2 DEF Slots, AllSlots
<1>4. PICK got : got = Keep(q.got, f.slot, a)
  OBVIOUS
<1>5. /\ got \in SomeRefs /\ DOMAIN got = DOMAIN q.got \cup {f.slot}
      /\ got[f.slot] = a /\ \A s \in DOMAIN q.got \ {f.slot} : got[s] = q.got[s]
  <2>1. q.got \in SomeRefs
    BY <1>1 DEF Request
  <2>2. /\ Keep(q.got, f.slot, a) \in SomeRefs
        /\ DOMAIN Keep(q.got, f.slot, a) = DOMAIN q.got \cup {f.slot}
        /\ Keep(q.got, f.slot, a)[f.slot] = a
        /\ \A s \in DOMAIN q.got \ {f.slot} : Keep(q.got, f.slot, a)[s] = q.got[s]
    BY ONLY <1>1, <1>3, <2>1, KeepFacts
  <2> QED
    BY <1>4, <2>2
<1>6. PICK x \in Request \cup {Idle} :
          /\ req' = [req EXCEPT ![r] = x]
          /\ x # Idle => x = [q EXCEPT !.got = got]
  <2>1. [q EXCEPT !.got = got] \in Request
    BY <1>1, <1>5 DEF Request
  <2>2. \/ req' = [req EXCEPT ![r] = Idle]
        \/ req' = [req EXCEPT ![r] = [q EXCEPT !.got = got]]
    BY <1>4 DEF Resolves
  <2> QED
    BY <2>1, <2>2
<1>7. ASSUME x # Idle
      PROVE  /\ x.id = q.id /\ x.kind = q.kind /\ x.body = q.body /\ x.op = q.op
             /\ x.pc = q.pc /\ x.before = q.before /\ x.got = got
  BY <1>1, <1>6, <1>7 DEF Request
<1>8. ASSUME x # Idle
      PROVE  Fits(x)'
  <2>1. "headText" \in DOMAIN got => got["headText"].id \in {Typed, Nil}
    <3>1. CASE f.slot = "headText"
      <4>1. f.by = "typed"
        BY <1>1, <1>2, <3>1, RefFacts
      <4> QED
        BY <1>1, <1>2, <1>5, <3>1, <4>1, AnswerFacts
    <3>2. CASE f.slot # "headText"
      BY <1>2, <1>5, <3>2 DEF Fits
    <3> QED
      BY <3>1, <3>2
  <2>2. DOMAIN got \subseteq Slots(q.kind)
    BY <1>2, <1>3, <1>5 DEF Fits
  <2> QED
    BY <1>1, <1>2, <1>7, <1>8, <2>1, <2>2 DEF Fits, Known
<1>9. RequestsFit'
  <2>1. \A p \in Reqs \ {r} : \A i \in Ids :
            Busy(p) /\ req[p].id = i /\ Known(i)' => row'[i].kind = req[p].kind
    BY <1>1 DEF RequestsFit, Fits, Known
  <2>2. \A i \in Ids : Known(i) => Known(i)'
    BY <1>1 DEF Known
  <2>3. ASSUME x # Idle
        PROVE  \A p \in Reqs \ {r} : Busy(p) /\ req[p].id = x.id =>
                  req[p].kind = x.kind
    BY <1>1, <1>2, <1>7, <2>3 DEF RequestsFit
  <2> QED
    BY <1>6, <1>8, <2>1, <2>2, <2>3, KeepRequestsFit
<1>10. Shape'
  <2>1. req' \in [Reqs -> Request \cup {Idle}]
    BY <1>6 DEF Shape
  <2>2. files' \in Nat
    BY <1>1 DEF Shape
  <2> QED
    BY <1>1, <2>1, <2>2 DEF Shape
<1>11. RowsFit'
  BY <1>1 DEF RowsFit, Known
<1>12. /\ \A p \in Reqs \ {r} : req'[p] = req[p]
       /\ req'[r] = x
  BY <1>6 DEF Shape
<1>13. r \in Uploading' => r \in Uploading
  <2>1. ASSUME x # Idle, "file" \notin DOMAIN x.got
        PROVE  "file" \notin DOMAIN q.got
    BY <1>5, <1>7, <2>1
  <2> QED
    BY <1>1, <1>2, <1>7, <1>12, <2>1 DEF Uploading, Busy
<1>14. Uploading' \subseteq Uploading
  BY <1>12, <1>13 DEF Uploading, Busy
<1>15. FilesCounted'
  <2>1. CASE f.by # "upload"
    <3>1. files' = files /\ begun' >= begun
      BY <1>1, <2>1, DirectoryAssumption DEF Shape
    <3> QED
      BY <1>10, <1>14, <3>1, KeepFilesCounted
  <2>2. CASE f.by = "upload"
    <3>1. f.slot = "file" /\ q.kind = "documents"
      BY <1>1, <1>2, <2>2, RefFacts
    <3>2. r \in Uploading
      BY <1>1, <1>2, <3>1 DEF Uploading, Wants
    <3>3. r \notin Uploading'
      BY <1>5, <1>7, <1>12, <3>1 DEF Uploading, Busy
    <3> QED
      BY <1>1, <1>10, <1>14, <2>2, <3>2, <3>3, KeepFilesCounted
  <2> QED
    BY <2>1, <2>2
<1> QED
  BY <1>9, <1>10, <1>11, <1>15

LEMMA WriteTyped ==
    ASSUME WellTyped, NEW r \in Reqs, NEW q, NEW new, Writes(r, q, new)
    PROVE  WellTyped'
<1> USE DEF WellTyped
<1>1. /\ q = req[r] /\ q \in Request /\ Fits(q) /\ q.pc = "open"
      /\ q.id \in Ids /\ q.kind \in DOMAIN Resource /\ q.kind # Nil
      /\ row' = [row EXCEPT ![q.id] = new]
      /\ new \in Row /\ new.kind = q.kind /\ new.ref = Merged(q, row[q.id])
      /\ new.state # "absent"
      /\ UNCHANGED <<files, begun>>
  BY DEF Writes
<1>2. row'[q.id] = new /\ \A i \in Ids \ {q.id} : row'[i] = row[i]
  BY <1>1 DEF Shape
<1>3. Busy(r)
  BY <1>1, BusyFacts
<1>4. \A i \in Ids : Known(i) => Known(i)'
  BY <1>1, <1>2 DEF Known
<1>5. PICK x \in Request \cup {Idle} :
          /\ req' = [req EXCEPT ![r] = x]
          /\ x # Idle => /\ x.pc = "reflect" /\ x.id = q.id /\ x.kind = q.kind
                         /\ x.body = q.body /\ x.op = q.op /\ x.before = q.before
                         /\ x.got = NoRefs /\ q.kind = "departments"
  <2>1. CASE Reflects(q, new)
    <3>1. PICK head \in Pairs : head = Pair(new.ref.head.id, <<q.id, new.name>>)
      BY <2>1 DEF Writes
    <3>2. PICK x : x = [q EXCEPT !.pc = "reflect", !.got = NoRefs, !.head = head]
      OBVIOUS
    <3>3. /\ x \in Request /\ x.pc = "reflect" /\ x.id = q.id /\ x.kind = q.kind
          /\ x.body = q.body /\ x.op = q.op /\ x.before = q.before
          /\ x.got = NoRefs
      BY <1>1, <3>2, PairFacts DEF Request
    <3>4. req' = [req EXCEPT ![r] = x]
      BY <2>1, <3>1, <3>2 DEF Writes
    <3> QED
      BY <2>1, <3>3, <3>4 DEF Reflects
  <2>2. CASE ~Reflects(q, new)
    BY <2>2 DEF Writes
  <2> QED
    BY <2>1, <2>2
<1>6. req'[r] = x /\ \A p \in Reqs \ {r} : req'[p] = req[p]
  BY <1>5 DEF Shape
<1>7. Shape'
  <2>1. excused' \subseteq Rows
    <3>1. Reflects(q, new) => q.id \in Rows
      BY <1>1 DEF Reflects, Fits, Ids
    <3>2. Headed(q.id) \subseteq Rows
      BY DEF Headed
    <3> QED
      BY <3>1, <3>2 DEF Writes, Shape
  <2> QED
    BY <1>1, <1>5, <2>1 DEF Shape
<1>8. RowsFit'
  <2>1. DOMAIN new.ref = Columns(q.kind)
    BY <1>1, MergedFacts
  <2>2. ASSUME NEW i \in Ids
        PROVE  /\ i \in People => row'[i].kind = "users"
               /\ i \in Rows => row'[i].kind \in Kinds \cup {Nil}
               /\ i \in Rows => (Known(i)' <=> row'[i].kind # Nil)
               /\ DOMAIN row'[i].ref =
                     IF row'[i].kind = Nil THEN {} ELSE Columns(row'[i].kind)
    <3>1. CASE i = q.id
      BY <1>1, <1>2, <2>1, <3>1 DEF Fits, Known
    <3>2. CASE i # q.id
      BY <1>2, <3>2 DEF RowsFit, Known
    <3> QED
      BY <3>1, <3>2
  <2> QED
    BY <2>2 DEF RowsFit
<1>9. RequestsFit'
  <2>1. ASSUME NEW p \in Reqs \ {r}, NEW i \in Ids,
               Busy(p), req[p].id = i, Known(i)'
        PROVE  row'[i].kind = req[p].kind
    <3>1. CASE i = q.id
      BY <1>1, <1>2, <1>3, <2>1, <3>1 DEF RequestsFit
    <3>2. CASE i # q.id
      <4>1. Known(i) /\ row'[i] = row[i]
        BY <1>2, <2>1, <3>2 DEF Known
      <4> QED
        BY <2>1, <4>1 DEF RequestsFit, Fits
    <3> QED
      BY <3>1, <3>2
  <2>2. ASSUME x # Idle
        PROVE  Fits(x)'
    <3>1. Known(x.id)' /\ row'[x.id].kind = x.kind
      BY <1>1, <1>2, <1>5, <2>2 DEF Known
    <3>2. DOMAIN x.got = {} /\ "headText" \notin DOMAIN x.got
      BY <1>5, <2>2, PairFacts
    <3> QED
      BY <1>1, <1>5, <2>2, <3>1, <3>2 DEF Fits
  <2>3. ASSUME x # Idle
        PROVE  \A p \in Reqs \ {r} : Busy(p) /\ req[p].id = x.id =>
                  req[p].kind = x.kind
    BY <1>1, <1>3, <1>5, <2>3 DEF RequestsFit
  <2> QED
    BY <1>4, <1>5, <2>1, <2>2, <2>3, KeepRequestsFit
<1>10. FilesCounted'
  <2>1. x # Idle => x.pc # "open"
    BY <1>5
  <2>2. Uploading' \subseteq Uploading
    BY <1>6, <2>1 DEF Uploading, Busy
  <2>3. begun' >= begun
    BY <1>1, DirectoryAssumption DEF Shape
  <2> QED
    BY <1>1, <1>7, <2>2, <2>3, KeepFilesCounted
<1> QED
  BY <1>7, <1>8, <1>9, <1>10

LEMMA HooksTyped ==
    ASSUME WellTyped, NEW r \in Reqs, NEW q, Hooks(r, q)
    PROVE  WellTyped'
<1> USE DEF WellTyped
<1>1. /\ q = req[r] /\ q \in Request /\ Fits(q) /\ row' \in [Ids -> Row]
      /\ \A p \in Ids : /\ row'[p].state = row[p].state
                        /\ row'[p].kind = row[p].kind
                        /\ DOMAIN row'[p].ref = DOMAIN row[p].ref
      /\ req' = [req EXCEPT ![r] = Idle]
      /\ UNCHANGED <<files, begun>>
  BY DEF Hooks
<1>2. excused' \subseteq Rows
  BY DEF Hooks, Shape, Headed
<1>3. Shape'
  BY <1>1, <1>2 DEF Shape
<1>4. RowsFit'
  BY <1>1 DEF RowsFit, Known
<1>5. RequestsFit'
  <2>1. \A p \in Reqs \ {r} : \A i \in Ids :
            Busy(p) /\ req[p].id = i /\ Known(i)' => row'[i].kind = req[p].kind
    BY <1>1 DEF RequestsFit, Fits, Known
  <2>2. \A i \in Ids : Known(i) => Known(i)'
    BY <1>1 DEF Known
  <2> QED
    BY <1>1, <2>1, <2>2, KeepRequestsFit
<1>6. Uploading' \subseteq Uploading
  BY <1>1 DEF Uploading, Busy, Shape
<1>7. begun' >= begun
  BY <1>1, DirectoryAssumption DEF Shape
<1>8. FilesCounted'
  BY <1>1, <1>3, <1>6, <1>7, KeepFilesCounted
<1> QED
  BY <1>3, <1>4, <1>5, <1>8

LEMMA MarkTyped ==
    ASSUME WellTyped, NEW i \in Ids, Marks(i)
    PROVE  WellTyped'
<1> USE DEF WellTyped
<1>1. /\ row' \in [Ids -> Row] /\ begun' = begun + 1 /\ begun < MaxBegun
      /\ \A p \in Ids : row'[p].kind = row[p].kind /\ row'[p].ref = row[p].ref
      /\ UNCHANGED <<req, files, excused>>
  BY DEF Marks
<1>2. \A p \in Ids : Known(p)' <=> Known(p)
  BY DEF Marks, Known
<1>3. Shape'
  BY <1>1, DirectoryAssumption DEF Shape
<1>4. RowsFit'
  BY <1>1, <1>2 DEF RowsFit
<1>5. RequestsFit'
  <2>1. ASSUME NEW r \in Reqs, Busy(r)
        PROVE  Fits(req[r])'
    <3>1. PICK q \in Request : q = req[r] /\ Fits(q)
      BY <2>1, BusyFacts DEF RequestsFit
    <3>2. q.id \in Ids
      BY <3>1 DEF Request
    <3>3. Fits(q)'
      BY <1>1, <1>2, <3>1, <3>2 DEF Fits
    <3> QED
      BY <1>1, <3>1, <3>3
  <2> QED
    BY <1>1, <2>1 DEF RequestsFit, Busy
<1>6. Uploading' \subseteq Uploading
  BY <1>1 DEF Uploading, Busy
<1>7. begun' >= begun
  BY <1>1, DirectoryAssumption DEF Shape
<1>8. FilesCounted'
  BY <1>1, <1>3, <1>6, <1>7, KeepFilesCounted
<1> QED
  BY <1>3, <1>4, <1>5, <1>8

LEMMA AbortTyped ==
    ASSUME WellTyped, NEW r \in Reqs, Abort(r)
    PROVE  WellTyped'
<1> USE DEF WellTyped
<1>1. req' = [req EXCEPT ![r] = Idle] /\ UNCHANGED <<row, files, begun, excused>>
  BY AbortEffect DEF history
<1>2. Shape'
  BY <1>1 DEF Shape
<1>3. RowsFit'
  BY <1>1 DEF RowsFit, Known
<1>4. RequestsFit'
  <2>1. \A p \in Reqs \ {r} : \A i \in Ids :
            Busy(p) /\ req[p].id = i /\ Known(i)' => row'[i].kind = req[p].kind
    BY <1>1 DEF RequestsFit, Fits, Known
  <2>2. \A i \in Ids : Known(i) => Known(i)'
    BY <1>1 DEF Known
  <2> QED
    BY <1>1, <2>1, <2>2, KeepRequestsFit
<1>5. Uploading' \subseteq Uploading
  BY <1>1 DEF Uploading, Busy, Shape
<1>6. begun' >= begun
  BY <1>1, DirectoryAssumption DEF Shape
<1>7. FilesCounted'
  BY <1>1, <1>2, <1>5, <1>6, KeepFilesCounted
<1> QED
  BY <1>2, <1>3, <1>4, <1>7

LEMMA StutterTyped ==
    ASSUME WellTyped, UNCHANGED vars
    PROVE  WellTyped'
<1>1. Uploading' = Uploading
  BY DEF vars, Uploading, Busy
<1>2. UNCHANGED <<row, req, files, begun, excused>>
  BY DEF vars, history
<1>3. Shape'
  BY <1>2 DEF WellTyped, Shape
<1>4. RowsFit'
  BY <1>2 DEF WellTyped, RowsFit, Known
<1>5. RequestsFit'
  BY <1>2 DEF WellTyped, RequestsFit, Fits, Known, Busy
<1>6. FilesCounted'
  BY <1>1, <1>2 DEF WellTyped, FilesCounted
<1> QED
  BY <1>3, <1>4, <1>5, <1>6 DEF WellTyped

LEMMA TypedStep == WellTyped /\ [Next]_vars => WellTyped'
  BY NextEffects, StutterTyped, BeginTyped, ResolveTyped, WriteTyped, HooksTyped,
     MarkTyped, AbortTyped

LEMMA Typing == Spec => []WellTyped
  BY InitTyped, TypedStep, PTL DEF Spec

(* Rows, requests and files have the types of the tables and handlers they *)
(* stand for; the files in storage are paid for by requests.               *)
THEOREM TypeCorrect == Spec => []TypeOK
<1>1. WellTyped => TypeOK
  <2> SUFFICES ASSUME WellTyped PROVE TypeOK
    OBVIOUS
  <2> USE DEF WellTyped
  <2>1. ASSUME NEW i \in Ids
        PROVE  /\ row[i].state \in {"absent", "live", "removed"}
               /\ row[i].name \in 0..MaxName
               /\ (i \in People => row[i].kind = "users")
               /\ (i \in Rows => row[i].kind \in Kinds \cup {Nil})
               /\ (Known(i) => row[i].kind # Nil)
               /\ (row[i].kind # Nil => row[i].ref \in [Columns(row[i].kind) -> Pairs])
    <3>1. row[i] \in Row /\ row[i].ref \in [DOMAIN row[i].ref -> Pairs]
      BY PartFacts DEF Shape, Row
    <3>2. "users" # Nil
      BY ColumnFacts, DirectoryAssumption
    <3> QED
      BY <3>1, <3>2 DEF RowsFit, Row, Ids
  <2>2. ASSUME NEW r \in Reqs, req[r] # Idle
        PROVE  /\ req[r].pc \in {"open", "reflect"} /\ req[r].id \in Ids
               /\ req[r].body \in Bodies[req[r].kind]
               /\ DOMAIN req[r].got \subseteq {f.slot : f \in Refs(req[r].kind)}
               /\ (req[r].pc = "reflect" => row[req[r].id].kind = "departments")
    <3>1. req[r] \in Request /\ Fits(req[r])
      BY <2>2, BusyFacts DEF Busy, RequestsFit
    <3> QED
      BY <3>1 DEF Request, Fits, Slots
  <2>3. begun \in 0..MaxBegun /\ files \in 0..begun /\ excused \subseteq Rows
    BY UploadsType, DirectoryAssumption DEF Shape, FilesCounted
  <2> QED
    BY <2>1, <2>2, <2>3 DEF TypeOK
<1> QED
  BY <1>1, Typing, PTL

(***************************************************************************)
(* Names, managers and files stored beside ids.                            *)
(***************************************************************************)
NamesGrow ==
    \A i \in Ids : row'[i].name >= row[i].name /\ (Known(i) => Known(i)')

RequestSound(q) ==
    /\ \A s \in DOMAIN q.got : Sound(q.got[s])
    /\ \A s \in DOMAIN q.before.ref : Sound(q.before.ref[s])
    /\ q.pc = "reflect" => \E k \in 0..row[q.id].name : q.head.name = <<q.id, k>>

SoundNames == RowsSound /\ \A r \in Reqs : Busy(r) => RequestSound(req[r])

LEMMA SoundGrows ==
    ASSUME Shape, Shape', NamesGrow
    PROVE  /\ \A a : Sound(a) => Sound(a)'
           /\ \A q \in Request : RequestSound(q) => RequestSound(q)'
<1>1. \A i \in Ids : /\ row[i].name \in Nat /\ row'[i].name \in Nat
                     /\ row'[i].name >= row[i].name
  BY DirectoryAssumption DEF Shape, Row, NamesGrow
<1>2. \A i \in Ids : 0..row[i].name \subseteq 0..row'[i].name
  BY <1>1
<1>3. \A a : Sound(a) => Sound(a)'
  BY <1>2 DEF Sound, NamesGrow
<1>4. \A q \in Request : q.id \in Ids
  BY DEF Request
<1> QED
  BY <1>2, <1>3, <1>4 DEF RequestSound

LEMMA KeepSoundRequests ==
    ASSUME Shape, Shape', SoundNames, NamesGrow, NEW r \in Reqs, NEW x,
           req' = [req EXCEPT ![r] = x], x # Idle => RequestSound(x)'
    PROVE  \A p \in Reqs : Busy(p)' => RequestSound(req[p])'
<1> SUFFICES ASSUME NEW p \in Reqs, Busy(p)'
             PROVE  RequestSound(req[p])'
  OBVIOUS
<1>1. req'[r] = x /\ (p # r => req'[p] = req[p])
  BY DEF Shape
<1>2. CASE p = r
  BY <1>1, <1>2 DEF Busy, RequestSound, Sound, Known
<1>3. CASE p # r
  <2>1. PICK q : q = req[p]
    OBVIOUS
  <2>2. Busy(p) /\ req'[p] = q
    BY <1>1, <1>3, <2>1 DEF Busy
  <2>3. q \in Request /\ RequestSound(q)
    BY <2>1, <2>2, BusyFacts DEF SoundNames
  <2>4. RequestSound(q)'
    BY <2>3, SoundGrows
  <2> QED
    BY <2>2, <2>4 DEF RequestSound, Sound, Known
<1> QED
  BY <1>2, <1>3

LEMMA SoundBegin ==
    ASSUME WellTyped, Shape', SoundNames, NEW r \in Reqs, Begins(r)
    PROVE  SoundNames'
<1>1. PICK q \in Request : /\ req' = [req EXCEPT ![r] = q]
                           /\ q.pc = "open" /\ q.got = NoRefs
                           /\ q.before = row[q.id]
  BY BeginEffect DEF WellTyped
<1>2. UNCHANGED row
  BY BeginEffect DEF WellTyped
<1>3. NamesGrow
  BY <1>2, DirectoryAssumption DEF WellTyped, Shape, Row, NamesGrow, Known
<1>4. RequestSound(q)
  BY <1>1, PairFacts DEF SoundNames, RowsSound, RequestSound, Request
<1>5. RowsSound'
  BY <1>2 DEF SoundNames, RowsSound, Sound, Known
<1>6. RequestSound(q)'
  BY <1>1, <1>3, <1>4, SoundGrows DEF WellTyped
<1> QED
  BY <1>1, <1>3, <1>5, <1>6, KeepSoundRequests DEF WellTyped, SoundNames

LEMMA SoundResolve ==
    ASSUME WellTyped, Shape', SoundNames, NEW r \in Reqs,
           NEW q, NEW f, NEW a, Resolves(r, q, f, a)
    PROVE  SoundNames'
<1>1. /\ q = req[r] /\ q \in Request /\ q.pc = "open" /\ f \in Refs(q.kind)
      /\ Wants(q, f) /\ a \in Answers(q, f) /\ a \in Pairs /\ UNCHANGED row
  BY DEF Resolves
<1>2. Fits(q) /\ Busy(r) /\ RequestSound(q)
  BY <1>1, BusyFacts DEF WellTyped, RequestsFit, SoundNames
<1>3. Sound(a)
  BY <1>1, <1>2, AnswerFacts DEF WellTyped, SoundNames
<1>4. NamesGrow
  BY <1>1, DirectoryAssumption DEF WellTyped, Shape, Row, NamesGrow, Known
<1>5. RowsSound'
  BY <1>1 DEF SoundNames, RowsSound, Sound, Known
<1>6. PICK got : got = Keep(q.got, f.slot, a)
  OBVIOUS
<1>7. PICK x : /\ req' = [req EXCEPT ![r] = x]
               /\ x = Idle \/ x = [q EXCEPT !.got = got]
  BY <1>6 DEF Resolves
<1>8. \A s \in DOMAIN got : Sound(got[s])
  BY <1>2, <1>3, <1>6 DEF Keep, RequestSound
<1>9. x # Idle => x.got = got /\ x.pc = "open" /\ x.before = q.before
  BY <1>1, <1>7 DEF Request
<1>10. x # Idle => RequestSound(x)'
  BY <1>1, <1>2, <1>8, <1>9 DEF RequestSound, Sound, Known
<1> QED
  BY <1>4, <1>5, <1>7, <1>10, KeepSoundRequests DEF WellTyped, SoundNames

LEMMA SoundWrite ==
    ASSUME WellTyped, Shape', SoundNames, NEW r \in Reqs,
           NEW q, NEW new, Writes(r, q, new)
    PROVE  SoundNames'
<1>1. /\ q = req[r] /\ q \in Request /\ Fits(q) /\ q.pc = "open"
      /\ q.id \in Ids /\ row' = [row EXCEPT ![q.id] = new]
      /\ new \in Row /\ new.ref = Merged(q, row[q.id])
      /\ new.name >= row[q.id].name /\ new.state # "absent"
  BY DEF Writes
<1>2. row'[q.id] = new /\ \A i \in Ids \ {q.id} : row'[i] = row[i]
  BY <1>1 DEF WellTyped, Shape
<1>3. Busy(r) /\ RequestSound(q)
  BY <1>1, BusyFacts DEF WellTyped, SoundNames
<1>4. NamesGrow
  BY <1>1, <1>2, DirectoryAssumption DEF WellTyped, Shape, Row, NamesGrow, Known
<1>5. ASSUME NEW s \in DOMAIN new.ref
      PROVE  Sound(new.ref[s])
  <2>1. s \in Columns(q.kind)
    BY <1>1, MergedFacts DEF WellTyped
  <2>2. \/ s \in DOMAIN q.got /\ new.ref[s] = q.got[s]
        \/ new.ref[s] = NoRef
        \/ s \in DOMAIN row[q.id].ref /\ new.ref[s] = row[q.id].ref[s]
        \/ new.ref[s].name \in {Typed, Nil}
    BY <1>1, <2>1, MergedFacts DEF WellTyped
  <2>3. new.ref[s] = NoRef \/ new.ref[s].name \in {Typed, Nil} => Sound(new.ref[s])
    BY PairFacts DEF Sound, Known
  <2> QED
    BY <1>1, <1>3, <2>2, <2>3 DEF RequestSound, SoundNames, RowsSound
<1>6. RowsSound'
  <2>1. ASSUME NEW i \in Ids, NEW s \in DOMAIN row'[i].ref
        PROVE  Sound(row[i].ref[s])'
    <3>1. PICK a : a = row'[i].ref[s]
      OBVIOUS
    <3>2. Sound(a)
      BY <1>2, <1>5, <2>1, <3>1 DEF SoundNames, RowsSound
    <3>3. Sound(a)'
      BY <1>4, <3>2, SoundGrows DEF WellTyped
    <3> QED
      BY <3>1, <3>3 DEF Sound, Known
  <2> QED
    BY <2>1 DEF RowsSound
<1>7. PICK x : /\ req' = [req EXCEPT ![r] = x]
               /\ x # Idle => x.id = q.id /\ x.got = NoRefs
                              /\ x.before = q.before
                              /\ x.head.name = <<q.id, new.name>>
  <2>1. CASE Reflects(q, new)
    <3>1. PICK head : head = Pair(new.ref.head.id, <<q.id, new.name>>)
      OBVIOUS
    <3>2. PICK x : x = [q EXCEPT !.pc = "reflect", !.got = NoRefs, !.head = head]
      OBVIOUS
    <3>3. x.id = q.id /\ x.got = NoRefs /\ x.head = head /\ x.before = q.before
      BY <1>1, <3>2 DEF Request
    <3>4. req' = [req EXCEPT ![r] = x]
      BY <2>1, <3>1, <3>2 DEF Writes
    <3>5. x.head.name = <<q.id, new.name>>
      BY <3>1, <3>3, PairFacts
    <3> QED
      BY <3>3, <3>4, <3>5
  <2>2. CASE ~Reflects(q, new)
    BY <2>2 DEF Writes
  <2> QED
    BY <2>1, <2>2
<1>8. ASSUME x # Idle
      PROVE  RequestSound(x)'
  <2>1. new.name \in 0..new.name
    BY <1>1, DirectoryAssumption DEF Row
  <2>2. \A s \in DOMAIN q.before.ref : Sound(q.before.ref[s])'
    BY <1>3, <1>4, SoundGrows DEF WellTyped, RequestSound
  <2>3. \A s \in DOMAIN x.before.ref : Sound(x.before.ref[s])'
    BY <1>7, <1>8, <2>2 DEF Sound, Known
  <2> QED
    BY <1>2, <1>7, <1>8, <2>1, <2>3, PairFacts DEF RequestSound
<1> QED
  BY <1>4, <1>6, <1>7, <1>8, KeepSoundRequests DEF WellTyped, SoundNames

LEMMA SoundHooks ==
    ASSUME WellTyped, Shape', SoundNames, NEW r \in Reqs, NEW q, Hooks(r, q)
    PROVE  SoundNames'
<1>1. /\ q = req[r] /\ q \in Request /\ q.pc = "reflect" /\ q.id \in Ids
      /\ Fits(q) /\ req' = [req EXCEPT ![r] = Idle]
      /\ \A p \in Ids : /\ row'[p].name = row[p].name
                        /\ row'[p].state = row[p].state
                        /\ DOMAIN row'[p].ref = DOMAIN row[p].ref
      /\ \A p \in Ids : \A s \in DOMAIN row[p].ref :
            row'[p].ref[s] = IF p \in Reflected(q) /\ s = "department"
                             THEN Pair(q.id, q.head.name) ELSE row[p].ref[s]
  BY DEF Hooks
<1>2. RequestSound(q)
  BY <1>1, BusyFacts DEF WellTyped, SoundNames
<1>3. NamesGrow
  BY <1>1, DirectoryAssumption DEF WellTyped, Shape, Row, NamesGrow, Known
<1>4. Sound(Pair(q.id, q.head.name))
  BY <1>1, <1>2, PairFacts DEF Fits, RequestSound, Sound
<1>5. RowsSound'
  <2>1. ASSUME NEW i \in Ids, NEW s \in DOMAIN row'[i].ref
        PROVE  Sound(row[i].ref[s])'
    <3>1. PICK a : a = row'[i].ref[s]
      OBVIOUS
    <3>2. Sound(a)
      BY <1>1, <1>4, <2>1, <3>1 DEF SoundNames, RowsSound
    <3>3. Sound(a)'
      BY <1>3, <3>2, SoundGrows DEF WellTyped
    <3> QED
      BY <3>1, <3>3 DEF Sound, Known
  <2> QED
    BY <2>1 DEF RowsSound
<1> QED
  BY <1>1, <1>3, <1>5, KeepSoundRequests DEF WellTyped, SoundNames

LEMMA SoundStep ==
    ASSUME WellTyped, Shape', SoundNames, [Next]_vars
    PROVE  SoundNames'
<1>1. CASE UNCHANGED vars
  BY <1>1 DEF vars, SoundNames, RowsSound, Sound, Known, RequestSound, Busy
<1>2. ASSUME NEW r \in Reqs, Abort(r)
      PROVE  SoundNames'
  <2>1. req' = [req EXCEPT ![r] = Idle] /\ UNCHANGED row
    BY <1>2, AbortEffect
  <2>2. NamesGrow
    BY <2>1, DirectoryAssumption DEF WellTyped, Shape, Row, NamesGrow, Known
  <2>3. RowsSound'
    BY <2>1 DEF SoundNames, RowsSound, Sound, Known
  <2> QED
    BY <2>1, <2>2, <2>3, KeepSoundRequests DEF WellTyped, SoundNames
<1>3. ASSUME NEW i \in Ids, Marks(i)
      PROVE  SoundNames'
  <2>1. /\ UNCHANGED req
        /\ \A p \in Ids : row'[p].name = row[p].name /\ row'[p].ref = row[p].ref
    BY <1>3 DEF Marks
  <2>2. \A r \in Reqs : Busy(r) => req[r] \in Request /\ req[r].id \in Ids
    BY BusyFacts DEF WellTyped, Request
  <2>3. NamesGrow
    BY <1>3, <2>1, DirectoryAssumption
       DEF WellTyped, Shape, Row, NamesGrow, Marks, Known
  <2>4. RowsSound'
    <3>1. \A a : Sound(a) => Sound(a)'
      BY <2>3, SoundGrows DEF WellTyped
    <3> QED
      BY <2>1, <3>1 DEF SoundNames, RowsSound, Sound, Known
  <2>5. ASSUME NEW r \in Reqs, Busy(r)'
        PROVE  RequestSound(req[r])'
    <3>1. PICK q \in Request : q = req[r]
      BY <2>1, <2>2, <2>5 DEF Busy
    <3>2. RequestSound(q)
      BY <2>1, <2>5, <3>1 DEF SoundNames, Busy
    <3>3. RequestSound(q)'
      BY <2>3, <3>2, SoundGrows DEF WellTyped
    <3> QED
      BY <2>1, <3>1, <3>3 DEF RequestSound, Sound, Known
  <2> QED
    BY <2>4, <2>5 DEF SoundNames
<1> QED
  BY <1>1, <1>2, <1>3, NextEffects, SoundBegin, SoundResolve, SoundWrite, SoundHooks

(* The managers that onboardings have copied, and the files of documents.  *)
Bossed(hire, manager) == manager = NoRef \/ <<hire, manager>> \in bosses

Stored(file) == file.id = Nil \/ (file.id \in Nat /\ file.id <= files)

RowLinked(i) ==
    LET ref == row[i].ref IN
    /\ i \in People => Bossed(i, ref["manager"])
    /\ row[i].kind = "onboarding" =>
          ref["employee"].id = Nil \/ Bossed(ref["employee"].id, ref["manager"])
    /\ row[i].kind = "documents" => Stored(ref["file"])

GotLinked(q) ==
    /\ q.kind = "onboarding" /\ "manager" \in DOMAIN q.got =>
          /\ "employee" \in DOMAIN q.got
          /\ Bossed(q.got["employee"].id, q.got["manager"])
    /\ q.kind = "documents" /\ "file" \in DOMAIN q.got => Stored(q.got["file"])

Linked ==
    /\ \A i \in Ids : RowLinked(i)
    /\ \A r \in Reqs : Busy(r) => GotLinked(req[r])

Spread == bosses \subseteq bosses' /\ files' >= files

LEMMA LinksStay ==
    ASSUME Shape, Shape', Spread
    PROVE  /\ \A hire, manager : Bossed(hire, manager) => Bossed(hire, manager)'
           /\ \A file : Stored(file) => Stored(file)'
           /\ \A q : GotLinked(q) => GotLinked(q)'
           /\ \A i \in Ids : /\ RowLinked(i) /\ row'[i].kind = row[i].kind
                             /\ row'[i].ref = row[i].ref
                             => RowLinked(i)'
<1>1. \A hire, manager : Bossed(hire, manager) => Bossed(hire, manager)'
  BY DEF Spread, Bossed
<1>2. \A file : Stored(file) => Stored(file)'
  BY DEF Shape, Spread, Stored
<1>3. \A q : GotLinked(q) => GotLinked(q)'
  BY <1>1, <1>2 DEF GotLinked
<1>4. ASSUME NEW i \in Ids, RowLinked(i), row'[i].kind = row[i].kind,
             row'[i].ref = row[i].ref
      PROVE  RowLinked(i)'
  <2>1. PICK ref : ref = row[i].ref
    OBVIOUS
  <2>2. PICK kind : kind = row[i].kind
    OBVIOUS
  <2>3. /\ i \in People => Bossed(i, ref["manager"])'
        /\ kind = "onboarding" =>
              ref["employee"].id = Nil \/ Bossed(ref["employee"].id, ref["manager"])'
        /\ kind = "documents" => Stored(ref["file"])'
    BY <1>1, <1>2, <1>4, <2>1, <2>2 DEF RowLinked
  <2> QED
    BY <1>4, <2>1, <2>2, <2>3 DEF RowLinked, Bossed, Stored
<1> QED
  BY <1>1, <1>2, <1>3, <1>4

LEMMA KeepLinked ==
    ASSUME Shape, Shape', Linked, Spread, NEW r \in Reqs, NEW x,
           req' = [req EXCEPT ![r] = x], x # Idle => GotLinked(x)',
           \A i \in Ids :
               RowLinked(i)' \/ (row'[i].kind = row[i].kind /\ row'[i].ref = row[i].ref)
    PROVE  Linked'
<1>1. \A p \in Ids : RowLinked(p)'
  BY LinksStay DEF Linked
<1>2. req'[r] = x /\ \A p \in Reqs \ {r} : req'[p] = req[p]
  BY DEF Shape
<1>3. ASSUME NEW p \in Reqs, Busy(p)'
      PROVE  GotLinked(req[p])'
  <2>1. PICK q : q = req'[p]
    OBVIOUS
  <2>2. GotLinked(q)'
    <3>1. CASE p = r
      BY <1>2, <1>3, <2>1, <3>1 DEF Busy
    <3>2. CASE p # r
      <4>1. Busy(p) /\ q = req[p]
        BY <1>2, <1>3, <2>1, <3>2 DEF Busy
      <4> QED
        BY <4>1, LinksStay DEF Linked
    <3> QED
      BY <3>1, <3>2
  <2> QED
    BY <2>1, <2>2 DEF GotLinked, Bossed, Stored
<1> QED
  BY <1>1, <1>3 DEF Linked

LEMMA LinkedResolve ==
    ASSUME WellTyped, Shape', Linked, NEW r \in Reqs,
           NEW q, NEW f, NEW a, Resolves(r, q, f, a)
    PROVE  Linked'
<1>1. /\ q = req[r] /\ q \in Request /\ q.pc = "open" /\ f \in Refs(q.kind)
      /\ Wants(q, f) /\ a \in Answers(q, f) /\ a \in Pairs
      /\ files' = IF f.by = "upload" THEN files + 1 ELSE files
      /\ UNCHANGED <<row, bosses>>
  BY DEF Resolves, history
<1>2. Fits(q) /\ Busy(r) /\ GotLinked(q) /\ q.kind \in DOMAIN Resource
  BY <1>1, BusyFacts DEF WellTyped, RequestsFit, Linked, Request
<1>3. Spread
  BY <1>1 DEF WellTyped, Shape, Spread
<1>4. PICK got : got = Keep(q.got, f.slot, a)
  OBVIOUS
<1>5. /\ DOMAIN got = DOMAIN q.got \cup {f.slot} /\ got[f.slot] = a
      /\ \A s \in DOMAIN q.got \ {f.slot} : got[s] = q.got[s]
      /\ f.slot \notin DOMAIN q.got
  BY <1>1, <1>4 DEF Keep, Wants
<1>6. PICK x : /\ req' = [req EXCEPT ![r] = x]
               /\ x = Idle \/ x = [q EXCEPT !.got = got]
  BY <1>4 DEF Resolves
<1>7. x # Idle => x.got = got /\ x.kind = q.kind
  BY <1>1, <1>6 DEF Request
<1>8. ASSUME q.kind = "onboarding", "manager" \in DOMAIN got
      PROVE  "employee" \in DOMAIN got /\ Bossed(got["employee"].id, got["manager"])
  <2>1. CASE f.slot = "manager"
    <3>1. f.by = "hire"
      BY <1>1, <1>2, <1>8, <2>1, RefFacts
    <3>2. "employee" \in DOMAIN q.got
      BY <1>1, <1>2, <3>1, BodyFacts DEF Wants, Fits
    <3>3. \/ a = NoRef
          \/ /\ q.got.employee.id \in People
             /\ a = row[q.got.employee.id].ref.manager
      BY <1>1, <1>2, <3>1, AnswerFacts DEF WellTyped
    <3>4. Bossed(q.got.employee.id, a)
      BY <3>3 DEF Linked, RowLinked, Bossed, Ids
    <3> QED
      BY <1>5, <2>1, <3>2, <3>4
  <2>2. CASE f.slot # "manager"
    BY <1>2, <1>5, <1>8, <2>2 DEF GotLinked
  <2> QED
    BY <2>1, <2>2
<1>9. ASSUME q.kind = "documents", "file" \in DOMAIN got
      PROVE  Stored(got["file"])'
  <2>1. CASE f.slot = "file"
    <3>1. f.by = "upload"
      BY <1>1, <1>2, <2>1, RefFacts
    <3>2. a = Pair(files + 1, Nil)
      BY <1>1, <1>2, <3>1, AnswerFacts DEF WellTyped
    <3>3. a.id = files + 1 /\ files' = files + 1 /\ files \in Nat
      BY <1>1, <3>1, <3>2, PairFacts DEF WellTyped, Shape
    <3> QED
      BY <1>5, <2>1, <3>3 DEF Stored
  <2>2. CASE f.slot # "file"
    <3>1. "file" \in DOMAIN q.got /\ got["file"] = q.got["file"]
      BY <1>5, <1>9, <2>2
    <3>2. Stored(q.got["file"])
      BY <1>2, <1>9, <3>1 DEF GotLinked
    <3> QED
      BY <1>3, <3>1, <3>2, LinksStay DEF WellTyped
  <2> QED
    BY <2>1, <2>2
<1>10. x # Idle => GotLinked(x)'
  BY <1>1, <1>7, <1>8, <1>9 DEF GotLinked, Bossed
<1> QED
  BY <1>1, <1>3, <1>6, <1>10, KeepLinked DEF WellTyped

(* An onboarding is written with the manager of its hire, or with both as  *)
(* they were.                                                              *)
LEMMA NewLinked ==
    ASSUME WellTyped, Shape', Linked, NEW r \in Reqs, NEW q, NEW new, Writes(r, q, new)
    PROVE  /\ q.id \in People => Bossed(q.id, new.ref["manager"])'
           /\ q.kind = "onboarding" =>
                 \/ new.ref["employee"].id = Nil
                 \/ Bossed(new.ref["employee"].id, new.ref["manager"])
           /\ q.kind = "documents" => Stored(new.ref["file"])
<1>1. /\ q = req[r] /\ q \in Request /\ Fits(q) /\ q.pc = "open" /\ Pending(q) = {}
      /\ q.id \in Ids /\ q.kind \in DOMAIN Resource
      /\ new.ref = Merged(q, row[q.id])
      /\ bosses' = IF q.kind = "users"
                   THEN bosses \cup {<<q.id, new.ref.manager>>} ELSE bosses
  BY DEF Writes
<1>2. Busy(r) /\ GotLinked(q) /\ RowLinked(q.id)
  BY <1>1, BusyFacts DEF WellTyped, Linked
<1>3. q.id \in People => Bossed(q.id, new.ref["manager"])'
  <2>1. q.id \in People => <<q.id, new.ref["manager"]>> \in bosses'
    BY <1>1 DEF Fits
  <2> QED
    BY <2>1 DEF Bossed
<1>4. ASSUME NEW s \in Columns(q.kind)
      PROVE  /\ s \in DOMAIN q.got => new.ref[s] = q.got[s]
             /\ s \notin DOMAIN q.got =>
                   \/ new.ref[s] = NoRef
                   \/ s \in DOMAIN row[q.id].ref /\ new.ref[s] = row[q.id].ref[s]
                   \/ s = "head"
             /\ /\ s \notin DOMAIN q.got /\ s # "head" /\ row[q.id].kind = q.kind
                /\ Resource[q.kind].wiped = {}
                => new.ref[s] = row[q.id].ref[s]
  BY <1>1, <1>4, MergedFacts DEF WellTyped
<1>5. ASSUME q.kind = "onboarding"
      PROVE  \/ new.ref["employee"].id = Nil
             \/ Bossed(new.ref["employee"].id, new.ref["manager"])
  <2>1. "employee" \in Columns(q.kind) /\ "manager" \in Columns(q.kind)
    BY <1>5, ColumnFacts
  <2>2. CASE "manager" \in DOMAIN q.got
    BY <1>2, <1>4, <1>5, <2>1, <2>2 DEF GotLinked
  <2>3. CASE "manager" \notin DOMAIN q.got /\ "employee" \in DOMAIN q.got
    <3>1. q.got.employee.id = Nil
      <4>1. /\ 3 \in DOMAIN Resource[q.kind].refs
            /\ Resource[q.kind].refs[3].slot = "manager"
            /\ Resource[q.kind].refs[3].by = "hire"
        BY <1>1, <1>5, Places DEF Ref
      <4> QED
        BY <1>1, <2>3, <4>1 DEF Pending
    <3> QED
      BY <1>4, <2>1, <2>3, <3>1
  <2>4. CASE "manager" \notin DOMAIN q.got /\ "employee" \notin DOMAIN q.got
    <3>1. CASE row[q.id].kind = q.kind
      <4>1. /\ new.ref["employee"] = row[q.id].ref["employee"]
            /\ new.ref["manager"] = row[q.id].ref["manager"]
        BY <1>4, <1>5, <2>1, <2>4, <3>1, NothingWiped
      <4> QED
        BY <1>2, <1>5, <3>1, <4>1 DEF RowLinked
    <3>2. CASE row[q.id].kind # q.kind
      <4>1. DOMAIN row[q.id].ref = {}
        BY <1>1, <3>2, OldRow DEF WellTyped
      <4>2. new.ref["employee"] = NoRef
        BY <1>4, <2>1, <2>4, <4>1
      <4> QED
        BY <4>2, PairFacts
    <3> QED
      BY <3>1, <3>2
  <2> QED
    BY <2>2, <2>3, <2>4
<1>6. ASSUME q.kind = "documents"
      PROVE  Stored(new.ref["file"])
  <2>1. "file" \in Columns(q.kind)
    BY <1>6, ColumnFacts
  <2>2. CASE "file" \in DOMAIN q.got
    BY <1>2, <1>4, <1>6, <2>1, <2>2 DEF GotLinked
  <2>3. CASE new.ref["file"] = NoRef
    BY <2>3, PairFacts DEF Stored
  <2>4. CASE "file" \in DOMAIN row[q.id].ref /\ new.ref["file"] = row[q.id].ref["file"]
    <3>1. row[q.id].kind = q.kind
      BY <1>1, <2>4, OldRow DEF WellTyped
    <3> QED
      BY <1>2, <1>6, <2>4, <3>1 DEF RowLinked
  <2> QED
    BY <1>4, <2>1, <2>2, <2>3, <2>4
<1> QED
  BY <1>3, <1>5, <1>6

LEMMA LinkedWrite ==
    ASSUME WellTyped, Shape', Linked, NEW r \in Reqs, NEW q, NEW new, Writes(r, q, new)
    PROVE  Linked'
<1>1. /\ q \in Request /\ Fits(q) /\ q.id \in Ids /\ row' = [row EXCEPT ![q.id] = new]
      /\ new.kind = q.kind /\ UNCHANGED files /\ bosses \subseteq bosses'
  BY DEF Writes
<1>2. row'[q.id] = new /\ \A i \in Ids \ {q.id} : row'[i] = row[i]
  BY <1>1 DEF WellTyped, Shape
<1>3. Spread
  BY <1>1 DEF WellTyped, Shape, Spread
<1>4. RowLinked(q.id)'
  <2>1. PICK ref : ref = new.ref
    OBVIOUS
  <2>2. PICK i : i = q.id
    OBVIOUS
  <2>3. /\ i \in People => Bossed(i, ref["manager"])'
        /\ q.kind = "onboarding" =>
              ref["employee"].id = Nil \/ Bossed(ref["employee"].id, ref["manager"])'
        /\ q.kind = "documents" => Stored(ref["file"])'
    BY <1>3, <2>1, <2>2, NewLinked, LinksStay DEF WellTyped
  <2>4. row'[i].ref = ref /\ row'[i].kind = q.kind
    BY <1>1, <1>2, <2>1, <2>2
  <2>5. RowLinked(i)'
    BY <2>3, <2>4 DEF RowLinked, Bossed, Stored
  <2> QED
    BY <2>2, <2>5
<1>5. PICK x : /\ req' = [req EXCEPT ![r] = x]
               /\ x # Idle => x.kind = q.kind /\ x.got = NoRefs
  <2>1. CASE Reflects(q, new)
    <3>1. PICK head : head = Pair(new.ref.head.id, <<q.id, new.name>>)
      OBVIOUS
    <3>2. PICK x : x = [q EXCEPT !.pc = "reflect", !.got = NoRefs, !.head = head]
      OBVIOUS
    <3>3. x.kind = q.kind /\ x.got = NoRefs
      BY <1>1, <3>2 DEF Request
    <3>4. req' = [req EXCEPT ![r] = x]
      BY <2>1, <3>1, <3>2 DEF Writes
    <3> QED
      BY <3>3, <3>4
  <2>2. CASE ~Reflects(q, new)
    BY <2>2 DEF Writes
  <2> QED
    BY <2>1, <2>2
<1>6. x # Idle => GotLinked(x)'
  BY <1>5, PairFacts DEF GotLinked
<1>7. \A i \in Ids :
          RowLinked(i)' \/ (row'[i].kind = row[i].kind /\ row'[i].ref = row[i].ref)
  BY <1>2, <1>4
<1> QED
  BY <1>3, <1>5, <1>6, <1>7, KeepLinked DEF WellTyped

LEMMA LinkedHooks ==
    ASSUME WellTyped, Shape', Linked, NEW r \in Reqs, NEW q, Hooks(r, q)
    PROVE  Linked'
<1>1. /\ req' = [req EXCEPT ![r] = Idle] /\ UNCHANGED <<files, bosses>>
      /\ \A p \in Ids : row'[p].kind = row[p].kind
      /\ \A p \in Ids : \A s \in DOMAIN row[p].ref :
            s # "department" => row'[p].ref[s] = row[p].ref[s]
  BY DEF Hooks
<1>2. Spread
  BY <1>1 DEF WellTyped, Shape, Spread
<1>3. ASSUME NEW i \in Ids
      PROVE  RowLinked(i)'
  <2>1. PICK ref : ref = row[i].ref
    OBVIOUS
  <2>2. PICK kind : kind = row[i].kind /\ kind = row'[i].kind
    BY <1>1
  <2>3. RowLinked(i)
    BY DEF Linked
  <2>4. kind # Nil => DOMAIN ref = Columns(kind)
    BY <2>1, <2>2 DEF WellTyped, RowsFit
  <2>5. i \in People => kind = "users"
    BY <2>2 DEF WellTyped, RowsFit
  <2>6. Nil \notin {"users", "onboarding", "documents"}
    BY ColumnFacts, DirectoryAssumption
  <2>7. /\ i \in People => row'[i].ref["manager"] = ref["manager"]
        /\ kind = "onboarding" => /\ row'[i].ref["manager"] = ref["manager"]
                                  /\ row'[i].ref["employee"] = ref["employee"]
        /\ kind = "documents" => row'[i].ref["file"] = ref["file"]
    BY <1>1, <2>1, <2>4, <2>5, <2>6, ColumnFacts
  <2>8. /\ i \in People => Bossed(i, ref["manager"])
        /\ kind = "onboarding" =>
              ref["employee"].id = Nil \/ Bossed(ref["employee"].id, ref["manager"])
        /\ kind = "documents" => Stored(ref["file"])
    BY <2>1, <2>2, <2>3 DEF RowLinked
  <2> QED
    BY <1>1, <2>2, <2>7, <2>8 DEF RowLinked, Bossed, Stored
<1> QED
  BY <1>1, <1>2, <1>3, KeepLinked DEF WellTyped

LEMMA LinkedStep ==
    ASSUME WellTyped, Shape', Linked, [Next]_vars
    PROVE  Linked'
<1>1. CASE UNCHANGED vars
  BY <1>1 DEF vars, history, Linked, RowLinked, GotLinked, Bossed, Stored, Busy
<1>2. ASSUME NEW r \in Reqs, Abort(r)
      PROVE  Linked'
  <2>1. req' = [req EXCEPT ![r] = Idle] /\ UNCHANGED <<row, files, bosses>>
    BY <1>2, AbortEffect DEF history
  <2>2. Spread
    BY <2>1 DEF WellTyped, Shape, Spread
  <2> QED
    BY <2>1, <2>2, KeepLinked DEF WellTyped
<1>3. ASSUME NEW r \in Reqs, Begins(r)
      PROVE  Linked'
  <2>1. PICK q \in Request : req' = [req EXCEPT ![r] = q] /\ q.got = NoRefs
    BY <1>3, BeginEffect DEF WellTyped
  <2>2. UNCHANGED <<row, files, bosses>>
    BY <1>3, BeginEffect DEF WellTyped
  <2>3. Spread
    BY <2>2 DEF WellTyped, Shape, Spread
  <2>4. GotLinked(q)'
    BY <2>1, PairFacts DEF GotLinked
  <2> QED
    BY <2>1, <2>2, <2>3, <2>4, KeepLinked DEF WellTyped
<1>4. ASSUME NEW i \in Ids, Marks(i)
      PROVE  Linked'
  <2>1. /\ UNCHANGED <<req, files, bosses>>
        /\ \A p \in Ids : row'[p].kind = row[p].kind /\ row'[p].ref = row[p].ref
    BY <1>4 DEF Marks
  <2>2. Spread
    BY <2>1 DEF WellTyped, Shape, Spread
  <2>3. \A p \in Ids : RowLinked(p)'
    BY <2>1, <2>2, LinksStay DEF WellTyped, Linked
  <2>4. \A r \in Reqs : Busy(r)' => GotLinked(req[r])'
    BY <2>1 DEF Linked, GotLinked, Bossed, Stored, Busy
  <2> QED
    BY <2>3, <2>4 DEF Linked
<1> QED
  BY <1>1, <1>2, <1>3, <1>4, NextEffects, LinkedResolve, LinkedWrite, LinkedHooks

LEMMA InitLinks == Init => SoundNames /\ Linked
<1> SUFFICES ASSUME Init PROVE SoundNames /\ Linked
  OBVIOUS
<1>1. \A r \in Reqs : ~Busy(r)
  BY DEF Init, Busy
<1>2. \A i \in Ids :
          /\ row[i].kind = IF i \in People THEN "users" ELSE Nil
          /\ row[i].ref = IF i \in People THEN [s \in Columns("users") |-> NoRef]
                          ELSE NoRefs
  BY DEF Init
<1>3. \A i \in Ids : \A s \in DOMAIN row[i].ref : row[i].ref[s] = NoRef
  BY <1>2, PairFacts
<1>4. SoundNames
  BY <1>1, <1>3, PairFacts DEF SoundNames, RowsSound, Sound
<1>5. "users" \notin {"onboarding", "documents"} /\ Nil \notin {"onboarding", "documents"}
  BY ColumnFacts, DirectoryAssumption
<1>6. \A i \in Ids : RowLinked(i)
  BY <1>2, <1>3, <1>5, ColumnFacts DEF RowLinked, Bossed
<1> QED
  BY <1>1, <1>4, <1>6 DEF Linked

LEMMA Links == Spec => [](SoundNames /\ Linked)
<1>1. WellTyped /\ WellTyped' /\ SoundNames /\ Linked /\ [Next]_vars => (SoundNames /\ Linked)'
  BY SoundStep, LinkedStep DEF WellTyped
<1> QED
  BY <1>1, InitLinks, Typing, PTL DEF Spec

(* What reads take at its word without a join is true: the name stored     *)
(* beside an id is one that row has had, unless it was typed in            *)
(* (resolveUser, #refName, resolveCandidateName, the department hook); the *)
(* manager of an onboarding has been the manager of its hire; the file of  *)
(* a document is in storage.                                               *)
THEOREM NamesWereTrue == Spec => []SnapshotsWereTrue
<1>1. WellTyped /\ SoundNames /\ Linked => SnapshotsWereTrue
  <2> SUFFICES ASSUME WellTyped, SoundNames, Linked, NEW i \in Ids
               PROVE  LET ref == row[i].ref IN
                      /\ \A s \in DOMAIN ref : ref[s].name \notin {Nil, Typed} =>
                             /\ ref[s].name[1] = ref[s].id
                             /\ ref[s].name[2] <= row[ref[s].id].name
                      /\ row[i].kind = "onboarding" /\ ref.employee.id # Nil
                                                    /\ ref.manager # NoRef =>
                             <<ref.employee.id, ref.manager>> \in bosses
                      /\ row[i].kind = "documents" /\ ref.file.id # Nil =>
                             ref.file.id <= files
    BY DEF SnapshotsWereTrue
  <2>1. PICK ref : ref = row[i].ref
    OBVIOUS
  <2>2. ASSUME NEW s \in DOMAIN ref, ref[s].name \notin {Nil, Typed}
        PROVE  ref[s].name[1] = ref[s].id /\ ref[s].name[2] <= row[ref[s].id].name
    <3>1. Sound(ref[s])
      BY <2>1 DEF SoundNames, RowsSound
    <3>2. PICK k \in 0..row[ref[s].id].name :
              ref[s].id \in Ids /\ ref[s].name = <<ref[s].id, k>>
      BY <2>2, <3>1 DEF Sound
    <3>3. row[ref[s].id].name \in Nat
      BY <3>2, DirectoryAssumption DEF WellTyped, Shape, Row
    <3> QED
      BY <3>2, <3>3
  <2>3. RowLinked(i)
    BY DEF Linked
  <2> QED
    BY <2>1, <2>2, <2>3 DEF RowLinked, Bossed, Stored
<1> QED
  BY <1>1, Typing, Links, PTL

(***************************************************************************)
(* Heads of departments.                                                   *)
(***************************************************************************)
LEMMA HeadWrite ==
    ASSUME WellTyped, HeadIsMember, NEW r \in Reqs, NEW q, NEW new, Writes(r, q, new)
    PROVE  HeadIsMember'
<1>1. /\ q \in Request /\ Fits(q) /\ q.id \in Ids
      /\ row' = [row EXCEPT ![q.id] = new]
      /\ new.kind = q.kind /\ new.ref = Merged(q, row[q.id])
      /\ excused' = excused \cup (IF Reflects(q, new) THEN {q.id} ELSE {})
                      \cup (IF q.kind = "users" /\ "department" \in DOMAIN q.got
                            THEN Headed(q.id) ELSE {})
  BY DEF Writes
<1>2. row'[q.id] = new /\ \A i \in Ids \ {q.id} : row'[i] = row[i]
  BY <1>1 DEF WellTyped, Shape
<1> SUFFICES ASSUME NEW d \in Rows \ excused', row'[d].kind = "departments", Live(d)',
                    row'[d].ref.head.id \in People,
                    Home[row'[d].ref.head.id] = Home[d]
             PROVE  row'[row'[d].ref.head.id].ref.department.id = d
  BY DEF HeadIsMember
<1>3. d \in Ids /\ d \notin excused
  BY <1>1 DEF Ids
<1>4. d # q.id
  <2>1. ASSUME d = q.id
        PROVE  FALSE
    <3>1. ~Reflects(q, new) /\ q.kind = "departments"
      BY <1>1, <1>2, <2>1
    <3>2. new.ref.head.id = Nil
      BY <3>1 DEF Reflects
    <3> QED
      BY <1>2, <2>1, <3>2, DirectoryAssumption DEF Ids
  <2> QED
    BY <2>1
<1>5. row'[d] = row[d]
  BY <1>2, <1>3, <1>4
<1>6. PICK head \in People : head = row[d].ref.head.id /\ head = row'[d].ref.head.id
  BY <1>5
<1>7. row[head].ref.department.id = d
  BY <1>3, <1>5, <1>6 DEF HeadIsMember, Live
<1>8. CASE head # q.id
  BY <1>2, <1>6, <1>7, <1>8 DEF Ids
<1>9. CASE head = q.id
  <2>1. q.kind = "users" /\ row[q.id].kind = "users"
    BY <1>1, <1>6, <1>9 DEF Fits, WellTyped, RowsFit
  <2>2. "department" \notin DOMAIN q.got
    BY <1>1, <1>3, <1>5, <1>6, <1>9, <2>1 DEF Headed
  <2>3. "department" \in Columns(q.kind) /\ Resource[q.kind].wiped = {}
    BY <2>1, ColumnFacts, NothingWiped
  <2>4. new.ref["department"] = row[q.id].ref["department"]
    BY <1>1, <2>1, <2>2, <2>3, MergedFacts DEF WellTyped
  <2> QED
    BY <1>2, <1>6, <1>7, <1>9, <2>4
<1> QED
  BY <1>8, <1>9

LEMMA HeadHooks ==
    ASSUME WellTyped, HeadIsMember, NEW r \in Reqs, NEW q, Hooks(r, q)
    PROVE  HeadIsMember'
<1>1. /\ \A p \in Ids : row'[p].state = row[p].state /\ row'[p].kind = row[p].kind
      /\ \A p \in Ids : \A s \in DOMAIN row[p].ref :
            row'[p].ref[s] = IF p \in Reflected(q) /\ s = "department"
                             THEN Pair(q.id, q.head.name) ELSE row[p].ref[s]
      /\ excused' =
            IF q.head.id \in People /\ Live(q.head.id)
            THEN (excused \cup Headed(q.head.id)) \
                     (IF row[q.id].ref.head.id = q.head.id THEN {q.id} ELSE {})
            ELSE excused
  BY DEF Hooks
<1> SUFFICES ASSUME NEW d \in Rows \ excused', row'[d].kind = "departments", Live(d)',
                    row'[d].ref.head.id \in People,
                    Home[row'[d].ref.head.id] = Home[d]
             PROVE  row'[row'[d].ref.head.id].ref.department.id = d
  BY DEF HeadIsMember
<1>2. d \in Ids /\ row[d].kind = "departments" /\ Live(d)
  BY <1>1 DEF Live, Ids
<1>3. "departments" # Nil /\ "users" # Nil
  BY ColumnFacts, DirectoryAssumption
<1>4. "head" \in DOMAIN row[d].ref
  BY <1>2, <1>3, ColumnFacts DEF WellTyped, RowsFit
<1>5. row'[d].ref["head"] = row[d].ref["head"]
  BY <1>1, <1>2, <1>4
<1>6. PICK head \in People : head = row[d].ref.head.id /\ head = row'[d].ref.head.id
  BY <1>5
<1>7. head \in Ids /\ "department" \in DOMAIN row[head].ref
  BY <1>3, ColumnFacts DEF WellTyped, RowsFit, Ids
<1>8. CASE head \in Reflected(q) /\ q.id = d
  <2>1. row'[head].ref["department"] = Pair(q.id, q.head.name)
    BY <1>1, <1>7, <1>8
  <2> QED
    BY <1>6, <1>8, <2>1, PairFacts
<1>9. CASE head \notin Reflected(q)
  <2>1. row'[head].ref["department"] = row[head].ref["department"]
    BY <1>1, <1>7, <1>9
  <2>2. d \notin excused
    <3>1. CASE ~(q.head.id \in People /\ Live(q.head.id))
      BY <1>1, <3>1
    <3>2. CASE q.head.id \in People /\ Live(q.head.id)
      <4>1. d \in excused => d = q.id /\ row[q.id].ref.head.id = q.head.id
        BY <1>1, <3>2
      <4>2. d = q.id /\ row[q.id].ref.head.id = q.head.id => head \in Reflected(q)
        BY <1>6, <3>2 DEF Reflected
      <4> QED
        BY <1>9, <4>1, <4>2
    <3> QED
      BY <3>1, <3>2
  <2>3. row[head].ref.department.id = d
    BY <1>2, <1>6, <2>2 DEF HeadIsMember
  <2> QED
    BY <1>6, <2>1, <2>3
<1>10. CASE head \in Reflected(q) /\ q.id # d
  <2>1. head = q.head.id /\ Live(q.head.id)
    BY <1>10 DEF Reflected
  <2>2. d \in Headed(q.head.id)
    BY <1>2, <1>6, <2>1 DEF Headed
  <2> QED
    BY <1>1, <1>10, <2>1, <2>2
<1> QED
  BY <1>8, <1>9, <1>10

LEMMA HeadStep ==
    ASSUME WellTyped, HeadIsMember, [Next]_vars
    PROVE  HeadIsMember'
<1>1. CASE UNCHANGED <<row, excused>>
  BY <1>1 DEF HeadIsMember, Live
<1>2. \A r \in Reqs : Begins(r) => UNCHANGED <<row, excused>>
  BY BeginEffect DEF WellTyped
<1>3. \A r \in Reqs : \A q, f, a : Resolves(r, q, f, a) => UNCHANGED <<row, excused>>
  BY DEF Resolves, history
<1>4. \A r \in Reqs : Abort(r) => UNCHANGED <<row, excused>>
  BY AbortEffect DEF history
<1>5. ASSUME NEW i \in Ids, Marks(i)
      PROVE  HeadIsMember'
  <2>1. /\ \A p \in Ids : row'[p].kind = row[p].kind /\ row'[p].ref = row[p].ref
        /\ UNCHANGED excused
    BY <1>5 DEF Marks
  <2>2. \A d \in Rows : Live(d)' => Live(d)
    BY <1>5 DEF Marks, Live, Ids
  <2>3. People \subseteq Ids /\ Rows \subseteq Ids
    BY DEF Ids
  <2> QED
    BY <2>1, <2>2, <2>3 DEF HeadIsMember
<1>6. UNCHANGED vars => UNCHANGED <<row, excused>>
  BY DEF vars, history
<1> QED
  BY <1>1, <1>2, <1>3, <1>4, <1>5, <1>6, NextEffects, HeadWrite, HeadHooks

(* "A department head is also a member of that department" (the afterWrite *)
(* hook of departments): the profile of a head of the same company names   *)
(* the department, but for the departments and heads that need not agree.  *)
THEOREM HeadsAreMembers == Spec => []HeadIsMember
<1>1. Init => HeadIsMember
  <2> SUFFICES ASSUME Init, NEW d \in Rows
               PROVE  row[d].kind # "departments"
    BY DEF HeadIsMember
  <2>1. row[d].kind = Nil
    BY DirectoryAssumption DEF Init, Ids
  <2> QED
    BY <2>1, ColumnFacts, DirectoryAssumption
<1> QED
  BY <1>1, HeadStep, Typing, PTL DEF Spec

(***************************************************************************)
(* Buddies of onboardings.                                                 *)
(***************************************************************************)
(* The pair the hire is taken from.                                        *)
HiredAs(q) ==
    IF "employee" \in DOMAIN q.got /\ q.got.employee.id # Nil
    THEN q.got["employee"]
    ELSE IF q.op = "update" THEN q.before.ref["employee"] ELSE NoRef

Person(ref) == Read(ref) /\ ref.id \in People

BuddyKept(q) ==
    q.kind = "onboarding" /\ q.pc = "open" =>
        /\ "buddy" \in DOMAIN q.got =>
              /\ q.got["buddy"].id # Nil =>
                    /\ q.got["buddy"].id # HireOf(q)
                    /\ Person(HiredAs(q)) =>
                          q.got["buddy"].id # Email[HiredAs(q).id]
              /\ "employee" \in DOMAIN q.body => "employee" \in DOMAIN q.got
        /\ q.op = "create" => /\ "employee" \in DOMAIN q.body
                              /\ q.body["employee"] # Nil

BuddiesKept == \A r \in Reqs : Busy(r) => BuddyKept(req[r])

LEMMA KeepBuddies ==
    ASSUME Shape, BuddiesKept, NEW r \in Reqs, NEW x,
           req' = [req EXCEPT ![r] = x], x # Idle => BuddyKept(x)
    PROVE  BuddiesKept'
<1>1. req'[r] = x /\ \A p \in Reqs \ {r} : req'[p] = req[p]
  BY DEF Shape
<1> SUFFICES ASSUME NEW p \in Reqs, Busy(p)'
             PROVE  BuddyKept(req'[p])
  BY DEF BuddiesKept, BuddyKept, HireOf, HiredAs, Person, Read
<1>2. CASE p = r
  BY <1>1, <1>2 DEF Busy
<1>3. CASE p # r
  <2>1. req'[p] = req[p] /\ Busy(p)
    BY <1>1, <1>3 DEF Busy
  <2> QED
    BY <2>1 DEF BuddiesKept
<1> QED
  BY <1>2, <1>3

(* A buddy read while the hire has an account is not stored as their email. *)
LEMMA BuddyRead ==
    ASSUME WellTyped, NEW q \in Request, Fits(q), RequestSound(q),
           NEW f \in Refs(q.kind), q.kind = "onboarding", f.slot = "buddy",
           NEW a \in Answers(q, f), a.id # Nil, Person(HiredAs(q))
    PROVE  a.id # Email[HiredAs(q).id]
<1> DEFINE text == q.body[f.slot]
           found == {p \in People : Known(p) /\ text \in {p, Email[p]}}
<1>1. PICK hire : hire = HiredAs(q)
  OBVIOUS
<1>2. Sound(hire)
  <2>1. CASE "employee" \in DOMAIN q.got /\ q.got.employee.id # Nil
    BY <1>1, <2>1 DEF HiredAs, RequestSound
  <2>2. CASE ~("employee" \in DOMAIN q.got /\ q.got.employee.id # Nil)
    <3>1. q.op = "update"
      BY <1>1, <2>2, PairFacts DEF HiredAs, Person, Read
    <3>2. hire = q.before.ref["employee"] /\ "employee" \in DOMAIN q.before.ref
      BY <1>1, <2>2, <3>1, ColumnFacts DEF HiredAs, Fits
    <3> QED
      BY <3>2 DEF RequestSound
  <2> QED
    BY <2>1, <2>2
<1>3. hire.id \in People /\ Known(hire.id)
  BY <1>1, <1>2 DEF Sound, Person, Read
<1>4. f.by = "person"
  BY RefFacts DEF Request
<1>5. (a.id = text /\ found = {}) \/ \E p \in found : a.id = p
  BY <1>4, PairFacts DEF Answers, ResolveUser
<1>6. (a.id = text /\ found = {}) => a.id # Email[hire.id]
  BY <1>3
<1>7. (\E p \in found : a.id = p) => a.id # Email[hire.id]
  BY <1>3, DirectoryAssumption
<1> QED
  BY <1>1, <1>5, <1>6, <1>7

LEMMA BuddyResolve ==
    ASSUME WellTyped, SoundNames, BuddiesKept, NEW r \in Reqs,
           NEW q, NEW f, NEW a, Resolves(r, q, f, a)
    PROVE  BuddiesKept'
<1>1. /\ q = req[r] /\ q \in Request /\ q.pc = "open" /\ f \in Refs(q.kind)
      /\ Wants(q, f)
      /\ q.kind = "onboarding" /\ f.slot = "buddy" /\ "employee" \in DOMAIN q.body =>
            "employee" \in DOMAIN q.got
  BY DEF Resolves
<1>2. /\ Busy(r) /\ Fits(q) /\ BuddyKept(q) /\ RequestSound(q)
      /\ q.kind \in DOMAIN Resource /\ a \in Answers(q, f)
  BY <1>1, BusyFacts
     DEF WellTyped, RequestsFit, BuddiesKept, SoundNames, Request, Resolves
<1>3. PICK got : got = Keep(q.got, f.slot, a)
  OBVIOUS
<1>4. /\ DOMAIN got = DOMAIN q.got \cup {f.slot} /\ got[f.slot] = a
      /\ \A s \in DOMAIN q.got \ {f.slot} : got[s] = q.got[s]
      /\ f.slot \notin DOMAIN q.got
  BY <1>1, <1>3 DEF Keep, Wants
<1>5. PICK x : /\ req' = [req EXCEPT ![r] = x]
               /\ \/ x = Idle
                  \/ ~OwnBuddy(q, f.slot, a) /\ x = [q EXCEPT !.got = got]
  BY <1>3 DEF Resolves
<1>6. x # Idle => /\ x.got = got /\ x.kind = q.kind /\ x.pc = q.pc /\ x.op = q.op
                  /\ x.body = q.body /\ x.before = q.before
  BY <1>1, <1>5 DEF Request
<1>7. ASSUME x # Idle, q.kind = "onboarding"
      PROVE  BuddyKept(x)
  <2>1. CASE f.slot = "employee"
    <3>1. "employee" \in DOMAIN q.body
      BY <1>1, <1>2, <2>1, RefFacts DEF Wants
    <3>2. "buddy" \notin DOMAIN q.got
      BY <1>1, <1>2, <1>4, <1>7, <2>1, <3>1 DEF BuddyKept
    <3>3. "buddy" \notin DOMAIN got
      BY <1>4, <2>1, <3>2
    <3> QED
      BY <1>1, <1>2, <1>6, <1>7, <3>3 DEF BuddyKept
  <2>2. CASE f.slot # "employee"
    <3>1. /\ "employee" \in DOMAIN got <=> "employee" \in DOMAIN q.got
          /\ "employee" \in DOMAIN q.got => got["employee"] = q.got["employee"]
      BY <1>4, <2>2
    <3>2. HireOf(x) = HireOf(q) /\ HiredAs(x) = HiredAs(q)
      BY <1>6, <1>7, <3>1 DEF HireOf, HiredAs
    <3>3. "buddy" \in DOMAIN got =>
             /\ got["buddy"].id # Nil =>
                   /\ got["buddy"].id # HireOf(q)
                   /\ Person(HiredAs(q)) =>
                         got["buddy"].id # Email[HiredAs(q).id]
             /\ "employee" \in DOMAIN q.body => "employee" \in DOMAIN q.got
      <4>1. CASE f.slot = "buddy"
        BY <1>1, <1>2, <1>4, <1>5, <1>7, <4>1, BuddyRead DEF OwnBuddy
      <4>2. CASE f.slot # "buddy"
        BY <1>1, <1>2, <1>4, <1>7, <4>2 DEF BuddyKept
      <4> QED
        BY <4>1, <4>2
    <3> QED
      BY <1>1, <1>2, <1>6, <1>7, <3>1, <3>2, <3>3 DEF BuddyKept
  <2> QED
    BY <2>1, <2>2
<1>8. x # Idle => BuddyKept(x)
  BY <1>6, <1>7 DEF BuddyKept
<1> QED
  BY <1>5, <1>8, KeepBuddies DEF WellTyped

LEMMA BuddyStep ==
    ASSUME WellTyped, SoundNames, BuddiesKept, [Next]_vars
    PROVE  BuddiesKept'
<1>1. CASE UNCHANGED req
  BY <1>1 DEF BuddiesKept, BuddyKept, HireOf, HiredAs, Person, Read, Busy
<1>2. UNCHANGED vars => UNCHANGED req
  BY DEF vars
<1>3. \A i \in Ids : Marks(i) => UNCHANGED req
  BY DEF Marks
<1>4. ASSUME NEW r \in Reqs, Begins(r)
      PROVE  BuddiesKept'
  <2>1. PICK q \in Request :
            /\ req' = [req EXCEPT ![r] = q] /\ q.got = NoRefs
            /\ q.op = "create" /\ q.kind = "onboarding" =>
                  "employee" \in DOMAIN q.body /\ q.body["employee"] # Nil
    BY <1>4, BeginEffect DEF WellTyped
  <2>2. BuddyKept(q)
    BY <2>1, PairFacts DEF BuddyKept
  <2> QED
    BY <2>1, <2>2, KeepBuddies DEF WellTyped
<1>5. ASSUME NEW r \in Reqs, NEW x, req' = [req EXCEPT ![r] = x],
             x = Idle \/ x.pc = "reflect"
      PROVE  BuddiesKept'
  BY <1>5, KeepBuddies DEF WellTyped, BuddyKept
<1>6. ASSUME NEW r \in Reqs, NEW q, NEW new, Writes(r, q, new)
      PROVE  BuddiesKept'
  <2>1. CASE Reflects(q, new)
    <3>1. PICK head : head = Pair(new.ref.head.id, <<q.id, new.name>>)
      OBVIOUS
    <3>2. PICK x : x = [q EXCEPT !.pc = "reflect", !.got = NoRefs, !.head = head]
      OBVIOUS
    <3>3. x.pc = "reflect"
      BY <1>6, <3>2 DEF Writes, Request
    <3>4. req' = [req EXCEPT ![r] = x]
      BY <1>6, <2>1, <3>1, <3>2 DEF Writes
    <3> QED
      BY <1>5, <3>3, <3>4
  <2>2. CASE ~Reflects(q, new)
    BY <1>5, <1>6, <2>2 DEF Writes
  <2> QED
    BY <2>1, <2>2
<1>7. ASSUME NEW r \in Reqs, NEW q, Hooks(r, q)
      PROVE  BuddiesKept'
  BY <1>5, <1>7 DEF Hooks
<1>8. ASSUME NEW r \in Reqs, Abort(r)
      PROVE  BuddiesKept'
  BY <1>5, <1>8, AbortEffect
<1> QED
  BY <1>1, <1>2, <1>3, <1>4, <1>6, <1>7, <1>8, NextEffects, BuddyResolve

LEMMA WriteKeepsBuddy ==
    ASSUME WellTyped, BuddiesKept, NEW r \in Reqs, Write(r), NEW q, q = req[r],
           q.kind = "onboarding", "buddy" \in DOMAIN q.got,
           q.op = "update" => q.before.ref.employee = row[q.id].ref.employee,
           row'[q.id].ref.buddy.id # Nil
    PROVE  LET now == row'[q.id].ref IN
           /\ now.buddy.id # now.employee.id
           /\ Person(now.employee) => now.buddy.id # Email[now.employee.id]
<1>1. PICK new : Writes(r, q, new)
  <2>1. PICK p, new : Writes(r, p, new)
    BY WriteEffect
  <2> QED
    BY <2>1 DEF Writes
<1>2. /\ q \in Request /\ Fits(q) /\ q.pc = "open" /\ Pending(q) = {} /\ q.id \in Ids
      /\ row' = [row EXCEPT ![q.id] = new] /\ new.ref = Merged(q, row[q.id])
      /\ q.kind \in DOMAIN Resource
  BY <1>1 DEF Writes
<1>3. row'[q.id] = new
  BY <1>2 DEF WellTyped, Shape
<1>4. BuddyKept(q)
  BY <1>2, BusyFacts DEF WellTyped, BuddiesKept
<1>5. "buddy" \in Columns(q.kind) /\ "employee" \in Columns(q.kind)
  BY ColumnFacts
<1>6. new.ref["buddy"] = q.got["buddy"]
  BY <1>2, <1>5, MergedFacts DEF WellTyped
<1>7. /\ q.got["buddy"].id # Nil /\ q.got["buddy"].id # HireOf(q)
      /\ Person(HiredAs(q)) => q.got["buddy"].id # Email[HiredAs(q).id]
  BY <1>2, <1>3, <1>4, <1>6 DEF BuddyKept
<1>8. CASE "employee" \in DOMAIN q.got
  <2>1. new.ref["employee"] = q.got["employee"]
    BY <1>2, <1>5, <1>8, MergedFacts DEF WellTyped
  <2>2. q.got["employee"].id # Nil => /\ HireOf(q) = q.got["employee"].id
                                       /\ HiredAs(q) = q.got["employee"]
    BY <1>8 DEF HireOf, HiredAs
  <2>3. Person(q.got["employee"]) => q.got["employee"].id # Nil
    BY DirectoryAssumption DEF Person, Ids
  <2> QED
    BY <1>3, <1>6, <1>7, <2>1, <2>2, <2>3
<1>9. CASE "employee" \notin DOMAIN q.got
  <2>1. q.op = "update"
    BY <1>2, <1>4, <1>9 DEF BuddyKept, Request
  <2>2. /\ HireOf(q) = q.before.ref.employee.id
        /\ HiredAs(q) = q.before.ref.employee
    BY <1>9, <2>1 DEF HireOf, HiredAs
  <2>3. row[q.id].kind = q.kind
    BY <1>2, <2>1 DEF Fits
  <2>4. new.ref["employee"] = row[q.id].ref["employee"]
    BY <1>2, <1>5, <1>9, <2>3, MergedFacts, NothingWiped DEF WellTyped
  <2> QED
    BY <1>3, <1>6, <1>7, <2>1, <2>2, <2>4
<1> QED
  BY <1>8, <1>9

(* "A new hire can't be their own onboarding buddy" (the onboarding        *)
(* resource): no write that names a buddy stores the id of the hire, or    *)
(* the email of a hire who had an account when their id was stored,        *)
(* whatever spelling the body used, if the onboarding is still of the hire *)
(* it was found with.  A hire stored as the email of nobody is not         *)
(* recognised later, and writes that name the hire alone are not compared. *)
THEOREM BuddiesAreOthers == Spec => OwnBuddyIsRefused
<1>1. Init => BuddiesKept
  BY DEF Init, BuddiesKept, Busy
<1>2. WellTyped /\ SoundNames /\ BuddiesKept /\ [Next]_vars => BuddiesKept'
  BY BuddyStep
<1>3. WellTyped /\ BuddiesKept /\ [Next]_vars =>
          [\A r \in Reqs :
             LET q == req[r] IN
             /\ q.pc = "open" /\ q.kind = "onboarding" /\ "buddy" \in DOMAIN q.got
             /\ Write(r)
             /\ q.op = "update" => q.before.ref.employee = row[q.id].ref.employee
             => LET now == row'[q.id].ref IN
                now.buddy.id # Nil =>
                    /\ now.buddy.id # now.employee.id
                    /\ Read(now.employee) /\ now.employee.id \in People =>
                          now.buddy.id # Email[now.employee.id]]_vars
  BY WriteKeepsBuddy DEF Person
<1> QED
  BY <1>1, <1>2, <1>3, Typing, Links, PTL DEF Spec, OwnBuddyIsRefused

(***************************************************************************)
(* Removed rows.                                                           *)
(***************************************************************************)
RowsHaveState == DOMAIN row = Ids /\ \A i \in Ids : "state" \in DOMAIN row[i]

(* What each action does to the state of a row: create and hire give life  *)
(* to theirs, remove and restore do what they say, and nothing else        *)
(* changes any.                                                            *)
SameStates == \A j \in Ids : row'[j].state = row[j].state

LEMMA WriteStates ==
    ASSUME RowsHaveState, NEW r, Write(r)
    PROVE  /\ RowsHaveState'
           /\ \A j \in Ids :
                 \/ row'[j].state = row[j].state
                 \/ req[r].id = j /\ req[r].op = "create"
<1> DEFINE q == req[r]
           new == Written(q, row[q.id])
<1>1. row' = [row EXCEPT ![q.id] = new]
  BY DEF Write
<1>2. /\ "state" \in DOMAIN new
      /\ new.state = IF q.op = "create" THEN "live" ELSE row[q.id].state
  BY DEF Written
<1> HIDE DEF new
<1>3. DOMAIN row' = Ids
  BY <1>1 DEF RowsHaveState
<1>4. ASSUME NEW j \in Ids
      PROVE  /\ "state" \in DOMAIN row'[j]
             /\ \/ row'[j].state = row[j].state
                \/ req[r].id = j /\ req[r].op = "create"
  <2>1. CASE j = q.id
    <3>1. row'[j] = new
      BY <1>1, <2>1 DEF RowsHaveState
    <3> QED
      BY <1>2, <2>1, <3>1
  <2>2. CASE j # q.id
    <3>1. row'[j] = row[j]
      BY <1>1, <2>2 DEF RowsHaveState
    <3> QED
      BY <3>1 DEF RowsHaveState
  <2> QED
    BY <2>1, <2>2
<1> QED
  BY <1>3, <1>4 DEF RowsHaveState

LEMMA ReflectStates ==
    ASSUME RowsHaveState, NEW r, Reflect(r)
    PROVE  RowsHaveState' /\ SameStates
<1> DEFINE with(p) == [row[p] EXCEPT !.ref.department =
                          Pair(req[r].id, req[r].head.name)]
<1>1. row' = [p \in Ids |-> IF p \in Reflected(req[r]) THEN with(p) ELSE row[p]]
  BY DEF Reflect
<1>2. \A p \in Ids : "state" \in DOMAIN with(p) /\ with(p).state = row[p].state
  BY DEF RowsHaveState
<1> HIDE DEF with
<1> QED
  BY <1>1, <1>2 DEF RowsHaveState, SameStates

LEMMA MarkStates ==
    ASSUME RowsHaveState, NEW i \in Ids, Remove(i) \/ Restore(i)
    PROVE  /\ RowsHaveState'
           /\ \A j \in Ids : row'[j].state = row[j].state
                             \/ row'[j].state = "removed" \/ Restore(j)
<1>1. PICK s : row' = [row EXCEPT ![i].state = s] /\ (s = "removed" \/ Restore(i))
  BY DEF Remove, Restore
<1>2. PICK x : /\ x = row[i] /\ "state" \in DOMAIN x
               /\ row' = [row EXCEPT ![i] = [x EXCEPT !.state = s]]
  BY <1>1 DEF RowsHaveState
<1>3. [x EXCEPT !.state = s].state = s /\ "state" \in DOMAIN [x EXCEPT !.state = s]
  BY <1>2
<1> QED
  BY <1>1, <1>2, <1>3 DEF RowsHaveState

LEMMA NextStates ==
    ASSUME RowsHaveState, [Next]_vars
    PROVE  /\ RowsHaveState'
           /\ \A j \in Ids :
                 \/ row'[j].state = row[j].state
                 \/ row'[j].state = "removed"
                 \/ Restore(j)
                 \/ \E r \in Reqs : /\ Write(r)
                                     /\ req[r].id = j /\ req[r].op = "create"
<1>1. CASE UNCHANGED row
  BY <1>1 DEF RowsHaveState
<1>2. CASE \E r \in Reqs : Write(r)
  BY <1>2, WriteStates
<1>3. CASE \E r \in Reqs : Reflect(r)
  BY <1>3, ReflectStates DEF SameStates
<1>4. CASE \E i \in Ids : Remove(i) \/ Restore(i)
  BY <1>4, MarkStates
<1>5. \A r \in Reqs : Resolve(r) \/ Abort(r) => UNCHANGED row
  BY DEF Resolve, Abort
<1>6. ASSUME NEW r \in Reqs,
             \/ \E i \in Rows, kind \in Kinds : \E body \in Bodies[kind] :
                    Create(r, i, kind, body)
             \/ \E p \in People, body \in Bodies["users"], rename \in BOOLEAN :
                    Hire(r, p, body, rename)
             \/ \E i \in {j \in Ids : Live(j)}, by \in Callers, rename \in BOOLEAN :
                    \E body \in Bodies[row[i].kind] : Update(r, i, by, body, rename)
      PROVE  UNCHANGED row
  BY <1>6 DEF Create, Hire, Update, Begin
<1> QED
  BY <1>1, <1>2, <1>3, <1>4, <1>5, <1>6 DEF Next, vars, Ids

LEMMA RowsKeepState == Spec => []RowsHaveState
<1>1. Init => RowsHaveState
  BY DEF Init, RowsHaveState
<1>2. RowsHaveState /\ [Next]_vars => RowsHaveState'
  BY NextStates
<1> QED
  BY <1>1, <1>2, PTL DEF Spec

(* Nothing brings a removed row back but the restore or the re-hire of a   *)
(* person (crudModule.js: update and remove, user.service.js: restore and  *)
(* create): an update under way writes by id and leaves the row removed.   *)
THEOREM RemovedRowsStayRemoved == Spec => RemovedStaysRemoved
<1>1. RowsHaveState /\ [Next]_vars =>
          [\A i \in Ids : row[i].state = "removed" /\ row'[i].state # "removed" =>
              \/ Restore(i)
              \/ \E r \in Reqs : Write(r) /\ req[r].id = i /\ req[r].op = "create"]_vars
  BY NextStates
<1> QED
  BY <1>1, RowsKeepState, PTL DEF Spec, RemovedStaysRemoved
==============================================================================
