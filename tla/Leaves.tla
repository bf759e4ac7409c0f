------------------------------- MODULE Leaves -------------------------------
(***************************************************************************)
(* Leave applications and their approval (leaveWorkflow.js), the guard on  *)
(* the balance (leaveBalance.js), and the generic create, update and       *)
(* delete of the /leaves resource (crudModule.js with the configuration of *)
(* hr/index.js).                                                           *)
(*                                                                         *)
(* One company and one leave type, whose policy HR may switch off and      *)
(* whose days per year it may change.  Every handler is a request that     *)
(* runs one database call at a time.  Request r creates leave r.  A leave  *)
(* starts on the first day of a calendar year; the reporting lines do not  *)
(* change.                                                                 *)
(***************************************************************************)
EXTENDS Integers, FiniteSets, FiniteSetsExt

CONSTANTS
    People,         \* employees
    Manager,        \* the manager of each, or Nil
    Hr,             \* those with leave:update (or *)
    Reqs,           \* requests; each one is used once
    OldLeaves,      \* leaves that await approval at the start, of one day
    Applicant,      \* the employee of each of them
    Nil,
    Allowance,      \* daysPerYear of the policy at the start
    Allowances,     \* what it may be set to, in whole days
    MaxDays,        \* bound on the days of a leave
    MaxYear,        \* bound on the calendar
    Enforce,        \* config.leave.enforceBalance
    Filers,         \* the employees leaves are filed for in this instance
    Filed,          \* the statuses a body (POST, PUT) may carry
    Ops             \* the endpoints called in this instance

LeaveIds == Reqs \cup OldLeaves

ASSUME LeavesAssumption ==
    /\ Nil \notin People
    /\ Manager \in [People -> People \cup {Nil}]
    /\ Hr \subseteq People
    /\ IsFiniteSet(Reqs) /\ IsFiniteSet(OldLeaves) /\ Reqs \cap OldLeaves = {}
    /\ Applicant \in [OldLeaves -> People]
    /\ \A e \in People :
           Cardinality({l \in OldLeaves : Applicant[l] = e}) <= Allowance
    /\ Allowances \subseteq Nat /\ Allowance \in Allowances
    /\ MaxDays \in Nat /\ MaxYear \in Nat
    /\ Enforce \in BOOLEAN
    /\ Filers \subseteq People
    /\ Filed \subseteq {"PENDING", "APPROVED", "REJECTED", "CANCELLED"}

VARIABLES
    year,       \* the calendar year it is
    policy,     \* the type's policy: ACTIVE, paid and not deleted; its days
    leave,      \* rows of "leaves"
    req,
    asked,      \* leaves announced to the manager
    told,       \* outcomes announced to the applicant of each leave
    lost,       \* leaves one of whose notifications could not be stored
    (* History.                                                            *)
    unchecked,  \* leaves the balance guard has not, or not rightly, admitted
    disturbed   \* leaves HR has edited, or written from a row that had changed

notices == <<asked, told, lost>>
vars == <<year, policy, leave, req, notices, unchecked, disturbed>>

-----------------------------------------------------------------------------
Statuses   == {"PENDING", "APPROVED", "REJECTED", "CANCELLED"}
Outcomes   == {"APPROVED", "REJECTED", "CANCELLED"}
Operations == {"apply", "APPROVED", "REJECTED", "CANCELLED", "status", "days", "remove"}
Steps      == {"idle", "policy", "balance", "ask", "insert", "decide", "tell",
               "update", "delete", "done", "rejected", "failed"}
Ended      == {"done", "rejected", "failed"}

Policy == [active: BOOLEAN, daysPerYear: Allowances]

Row == [status: Statuses \cup {"none"}, who: People \cup {Nil}, days: Nat,
        year: 0..MaxYear, by: People \cup {Nil}, deleted: BOOLEAN]

Request == [op: Operations \cup {"none"}, step: Steps, leave: LeaveIds \cup {Nil},
            actor: People \cup {Nil}, row: Row, allowance: Nat, seen: Int]

TypeOK ==
    /\ year \in 0..MaxYear
    /\ policy \in Policy
    /\ leave \in [LeaveIds -> Row]
    /\ req \in [Reqs -> Request]
    /\ asked \subseteq LeaveIds
    /\ told \in [LeaveIds -> SUBSET Outcomes]
    /\ lost \subseteq LeaveIds
    /\ unchecked \subseteq LeaveIds
    /\ disturbed \subseteq LeaveIds

NoRow == [status |-> "none", who |-> Nil, days |-> 0, year |-> 0, by |-> Nil,
          deleted |-> FALSE]
Idle  == [op |-> "none", step |-> "idle", leave |-> Nil, actor |-> Nil,
          row |-> NoRow, allowance |-> 0, seen |-> -1]

Init ==
    /\ year = 0
    /\ policy = [active |-> TRUE, daysPerYear |-> Allowance]
    /\ leave = [l \in LeaveIds |->
           IF l \in OldLeaves
           THEN [NoRow EXCEPT !.status = "PENDING", !.who = Applicant[l],
                              !.days = 1]
           ELSE NoRow]
    /\ req = [r \in Reqs |-> Idle]
    /\ asked = OldLeaves
    /\ told = [l \in LeaveIds |-> {}]
    /\ lost = {}
    /\ unchecked = {}
    /\ disturbed = {}

-----------------------------------------------------------------------------
At(r, step)   == req[r].step = step
GoTo(r, step) == req' = [req EXCEPT ![r].step = step]

Exists(l) == leave[l].status # "none" /\ ~leave[l].deleted

(* The leaves of employee e that use up the allowance of year y.           *)
Consuming(e, y) ==
    {l \in LeaveIds : /\ Exists(l)
                      /\ leave[l].who = e /\ leave[l].year = y
                      /\ leave[l].status \in {"PENDING", "APPROVED"}}

(* A leave starts on day 1; its body may also end it before.               *)
Ends == {-1} \cup 1..MaxDays

(* Mutation: an end before the start is not looked at.                     *)
DayCountPlain(start, end) == end - start + 1

(* Both days count; the body's dates may be in any order.                  *)
dayCount(start, end) == IF end >= start THEN end - start + 1 ELSE 0

DaysOf(rows, leaves) == MapThenSumSet(LAMBDA l : rows[l].days, leaves)
Days(leaves) == DaysOf(leave, leaves)

-----------------------------------------------------------------------------
(* Applying.  The body names employee and dates and, if it wants, a status *)
(* and the type; without one the row gets the type of this model, ANNUAL,  *)
(* but the balance is not checked.                                         *)

Apply(r) ==
    \E e \in Filers, end \in Ends, y \in 0..MaxYear, s \in Filed, typed \in BOOLEAN :
        /\ "apply" \in Ops
        /\ At(r, "idle")
        /\ req' = [req EXCEPT ![r] = [Idle EXCEPT !.op = "apply",
                      !.step = IF Enforce /\ typed THEN "policy" ELSE "ask",
                      !.leave = r,
                      !.row = [NoRow EXCEPT !.status = s, !.who = e,
                                            !.days = dayCount(1, end),
                                            !.year = y]]]
        /\ UNCHANGED <<year, policy, leave, notices, unchecked, disturbed>>

ReadPolicy(r) ==
    /\ At(r, "policy")
    /\ req' = [req EXCEPT ![r] =
           IF policy.active
           THEN [@ EXCEPT !.step = "balance", !.allowance = policy.daysPerYear]
           ELSE [@ EXCEPT !.step = "ask"]]
    /\ UNCHANGED <<year, policy, leave, notices, unchecked, disturbed>>

(* The guard's verdict, with the days that really were used up noted.      *)
Judge(r, used) ==
    LET row == req[r].row IN
    /\ At(r, "balance")
    /\ req' = [req EXCEPT ![r] = [@ EXCEPT !.seen = Days(Consuming(row.who, year)),
                   !.step = IF row.days > req[r].allowance - used
                            THEN "rejected" ELSE "ask"]]
    /\ UNCHANGED <<year, policy, leave, notices, unchecked, disturbed>>

(* Mutation: leaves that await approval do not count.                      *)
CheckBalanceApproved(r) ==
    Judge(r, Days({l \in Consuming(req[r].row.who, year) :
                     leave[l].status = "APPROVED"}))

(* assertBalance: the allowance that was read, less what the current       *)
(* year's leaves have used up, whatever year the new one is for.           *)
CheckBalance(r) == Judge(r, Days(Consuming(req[r].row.who, year)))

(* notifyManagerOnApply, before the row exists; notify is best effort.     *)
Ask(r) ==
    LET row == req[r].row IN
    /\ At(r, "ask")
    /\ IF row.status = "PENDING" /\ Manager[row.who] # Nil
       THEN \/ asked' = asked \cup {r} /\ UNCHANGED lost
            \/ lost' = lost \cup {r} /\ UNCHANGED asked
       ELSE UNCHANGED <<asked, lost>>
    /\ GoTo(r, "insert")
    /\ UNCHANGED <<year, policy, leave, told, unchecked, disturbed>>

(* The row is inserted.  The check was right if what it saw used up covers *)
(* what the leave's own year has used up by now.                           *)
Insert(r) ==
    LET row == req[r].row IN
    /\ At(r, "insert")
    /\ leave' = [leave EXCEPT ![r] = row]
    /\ unchecked' =
           IF Days(Consuming(row.who, row.year)) <= req[r].seen
           THEN unchecked ELSE unchecked \cup {r}
    /\ GoTo(r, "done")
    /\ UNCHANGED <<year, policy, notices, disturbed>>

-----------------------------------------------------------------------------
(* Approve, reject, cancel.                                                *)

IsHr(a)      == a \in Hr
CanDecide(a, e) == IsHr(a) \/ Manager[e] = a

(* Mutation: a decided leave can be decided again.                         *)
VerdictAnyStatus(a, l, action) ==
    LET row == leave[l] IN
    IF action = "CANCELLED"
    THEN (row.who = a \/ IsHr(a)) /\ row.status \notin {"CANCELLED", "REJECTED"}
    ELSE row.who # a /\ CanDecide(a, row.who)

Verdict(a, l, action) ==
    LET row == leave[l] IN
    IF action = "CANCELLED"
    THEN (row.who = a \/ IsHr(a)) /\ row.status \notin {"CANCELLED", "REJECTED"}
    ELSE row.who # a /\ CanDecide(a, row.who) /\ row.status = "PENDING"

(* Mutation: a deleted leave is found too.                                 *)
TransitionDeleted(r) ==
    \E a \in People, l \in LeaveIds, action \in Outcomes \cap Ops :
        /\ At(r, "idle")
        /\ leave[l].status # "none"
        /\ req' = [req EXCEPT ![r] = [op |-> action, leave |-> l, actor |-> a,
                      row |-> leave[l], allowance |-> 0, seen |-> -1,
                      step |-> IF Verdict(a, l, action) THEN "decide"
                               ELSE "rejected"]]
        /\ UNCHANGED <<year, policy, leave, notices, unchecked, disturbed>>

(* transitionLeave up to its guards, on the row that was read.             *)
Transition(r) ==
    \E a \in People, l \in LeaveIds, action \in Outcomes \cap Ops :
        /\ At(r, "idle")
        /\ Exists(l)
        /\ req' = [req EXCEPT ![r] = [op |-> action, leave |-> l, actor |-> a,
                      row |-> leave[l], allowance |-> 0, seen |-> -1,
                      step |-> IF Verdict(a, l, action) THEN "decide"
                               ELSE "rejected"]]
        /\ UNCHANGED <<year, policy, leave, notices, unchecked, disturbed>>

(* A leave that begins, or begins again, to use up days, no guard asked.   *)
Unguarded(l) ==
    unchecked' = IF l \in Consuming(leave[l].who, leave[l].year) THEN unchecked
                 ELSE unchecked \cup {l}

(* The update is by id: the status and deletedAt are not looked at again.  *)
Decide(r) ==
    LET l == req[r].leave IN
    /\ At(r, "decide")
    /\ leave' = [leave EXCEPT ![l] = [@ EXCEPT !.status = req[r].op,
                                               !.by = req[r].actor]]
    /\ disturbed' = IF leave[l] = req[r].row THEN disturbed
                    ELSE disturbed \cup {l}
    /\ Unguarded(l)
    /\ GoTo(r, "tell")
    /\ UNCHANGED <<year, policy, notices>>

(* Mutation: the message names the status that was read.                   *)
TellStale(r) ==
    LET l == req[r].leave IN
    /\ At(r, "tell")
    /\ told' = [told EXCEPT ![l] = @ \cup ({req[r].row.status} \ {"PENDING"})]
    /\ GoTo(r, "done")
    /\ UNCHANGED <<year, policy, leave, asked, lost, unchecked, disturbed>>

(* The applicant is notified of the outcome, again with best effort.       *)
Tell(r) ==
    LET l == req[r].leave IN
    /\ At(r, "tell")
    /\ \/ told' = [told EXCEPT ![l] = @ \cup {req[r].op}] /\ UNCHANGED lost
       \/ lost' = lost \cup {l} /\ UNCHANGED told
    /\ GoTo(r, "done")
    /\ UNCHANGED <<year, policy, leave, asked, unchecked, disturbed>>

-----------------------------------------------------------------------------
(* PUT and DELETE by HR, and the policy.                                   *)

StartHr(r, op, step, l, row) ==
    /\ op \in Ops
    /\ At(r, "idle")
    /\ Exists(l)
    /\ req' = [req EXCEPT ![r] = [Idle EXCEPT !.op = op, !.step = step,
                                  !.leave = l, !.row = row]]
    /\ UNCHANGED <<year, policy, leave, notices, unchecked, disturbed>>

(* PUT may set any field; a status or a number of days stands for them.    *)
Edit(r) ==
    \E l \in LeaveIds :
        \/ \E s \in Filed :
               StartHr(r, "status", "update", l, [leave[l] EXCEPT !.status = s])
        \/ \E end \in Ends :
               StartHr(r, "days", "update", l,
                       [leave[l] EXCEPT !.days = dayCount(1, end)])

(* The body's field alone is written; the balance is not checked.          *)
Update(r) ==
    LET l == req[r].leave
        row == req[r].row IN
    /\ At(r, "update")
    /\ leave' = [leave EXCEPT ![l] =
           IF req[r].op = "status" THEN [@ EXCEPT !.status = row.status]
           ELSE [@ EXCEPT !.days = row.days]]
    /\ disturbed' = disturbed \cup {l}
    /\ unchecked' = unchecked \cup {l}
    /\ GoTo(r, "done")
    /\ UNCHANGED <<year, policy, notices>>

Remove(r) == \E l \in LeaveIds : StartHr(r, "remove", "delete", l, leave[l])

SoftDelete(r) ==
    /\ At(r, "delete")
    /\ leave' = [leave EXCEPT ![req[r].leave].deleted = TRUE]
    /\ GoTo(r, "done")
    /\ UNCHANGED <<year, policy, notices, unchecked, disturbed>>

(* HR creates, edits or removes the policy of the type; leaves that have   *)
(* been admitted are not looked at again.                                  *)
SetPolicy ==
    /\ policy' \in Policy
    /\ UNCHANGED <<year, leave, req, notices, unchecked, disturbed>>

NewYear ==
    /\ year < MaxYear
    /\ year' = year + 1
    /\ UNCHANGED <<policy, leave, req, notices, unchecked, disturbed>>

(* A request dies between two of its steps.                                *)
Abort(r) ==
    /\ req[r].step \notin Ended \cup {"idle"}
    /\ GoTo(r, "failed")
    /\ UNCHANGED <<year, policy, leave, notices, unchecked, disturbed>>

Next ==
    \/ SetPolicy \/ NewYear
    \/ \E r \in Reqs :
           \/ Apply(r) \/ ReadPolicy(r) \/ CheckBalance(r) \/ Ask(r) \/ Insert(r)
           \/ Transition(r) \/ Decide(r) \/ Tell(r)
           \/ Edit(r) \/ Update(r) \/ Remove(r) \/ SoftDelete(r)
           \/ Abort(r)

Spec == Init /\ [][Next]_vars
-----------------------------------------------------------------------------
(* What must hold.                                                         *)

(* The daysPerYear that leave l was admitted under.                        *)
AdmittedUnder(l) == IF l \in OldLeaves THEN Allowance ELSE req[l].allowance

(* The balance guard: of an employee's leaves of one year that it admitted *)
(* and nothing else has changed since, one was admitted under an allowance *)
(* that all of them together fit, however the allowance was changed since  *)
(* or meanwhile (the allowance of today is not claimed: a policy may be    *)
(* lowered at any time).  Not among them are the leaves the guard let pass *)
(* without a look (no type, no active policy, not enforced), or with a     *)
(* look that did not cover what their own year had used up by the time     *)
(* they were inserted (an application crossed another one, or is for       *)
(* another year than the current), those HR edited, and a cancelled leave  *)
(* that an approval under way brought back.                                *)
AdmittedLeavesFit ==
    \A e \in People, y \in 0..MaxYear :
        LET admitted == Consuming(e, y) \ unchecked IN
        admitted # {} => \E l \in admitted : Days(admitted) <= AdmittedUnder(l)

(* A leave is decided once, by somebody else than its employee, and is     *)
(* final when rejected or cancelled, unless HR edits it or a decision      *)
(* overwrites one it had not seen.                                         *)
Phase(l) ==
    IF leave[l].deleted \/ l \in disturbed THEN "off" ELSE leave[l].status

Workflow == INSTANCE LeaveLifecycle WITH
    Leaves  <- LeaveIds,
    Nobody  <- Nil,
    phase   <- [l \in LeaveIds |-> Phase(l)],
    owner   <- [l \in LeaveIds |-> leave[l].who],
    decider <- [l \in LeaveIds |-> leave[l].by]

ImplementsWorkflow == Workflow!Spec

(* The applicant hears of the status the workflow has given the leave,     *)
(* unless the notification could not be stored or the request died; PUT    *)
(* tells nobody.                                                           *)
OutcomeIsTold ==
    \A l \in LeaveIds \ (lost \cup disturbed) : leave[l].by # Nil =>
        \/ leave[l].status \in told[l]
        \/ \E r \in Reqs : /\ req[r].leave = l /\ req[r].op = leave[l].status
                           /\ req[r].step \in {"tell", "failed"}

(* Request r has read leave l and may still write it.                      *)
Holds(r, l) == req[r].leave = l /\ req[r].step \in {"decide", "update", "delete"}

(* A deleted leave changes no more, once the requests that had read it     *)
(* before are over.                                                        *)
Buried(l) == leave[l].deleted /\ \A r \in Reqs : ~Holds(r, l)

DeletedLeaveIsFrozen ==
    [][\A l \in LeaveIds : Buried(l) => leave'[l] = leave[l] /\ Buried(l)']_vars
=============================================================================
