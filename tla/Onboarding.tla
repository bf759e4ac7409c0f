------------------------------ MODULE Onboarding ------------------------------
(***************************************************************************)
(* One onboarding record and its checklist (onboardingTasks.js and the     *)
(* onboarding resource of hr/index.js): every change of the checklist is   *)
(* followed by a recomputation of progress and status in three calls of    *)
(* their own, while PUT writes progress and status directly.  Request r    *)
(* that adds a task adds task r.                                           *)
(***************************************************************************)
EXTENDS Integers, FiniteSets

CONSTANTS
    Seeds,      \* the default checklist
    Calls,      \* requests; each one is used once
    Marks,      \* progress values a body may carry
    Absent,     \* a field that is not in the body
    NoTask      \* of a request that is about the record

Tasks == Seeds \cup Calls

ASSUME OnboardingAssumption ==
    /\ Seeds # {} /\ IsFiniteSet(Seeds) /\ IsFiniteSet(Calls)
    /\ Seeds \cap Calls = {}
    /\ NoTask \notin Tasks
    /\ Marks \subseteq 0..100
    /\ Absent \notin 0..100

VARIABLES
    onboarding, \* its row
    task,       \* the rows of its checklist
    call,       \* the requests
    (* History.                                                            *)
    changed,    \* requests since whose count the checklist has changed
    adrift,     \* the last write was not a recomputation of this checklist
    early       \* requests that were under way when it was put on hold

onboardingHistory == <<changed, adrift, early>>
onboardingVars == <<onboarding, task, call, onboardingHistory>>

-----------------------------------------------------------------------------
Progressions == {"NOT_STARTED", "IN_PROGRESS", "COMPLETED", "ON_HOLD"}
CallOps   == {"create", "add", "tick", "untick", "drop", "put", "remove"}
Recompute == {"count", "status", "write"}
CallEnded == {"done", "failed"}
CallSteps == {"idle", "insert", "seed", "change", "put", "delete"}
             \cup CallEnded \cup Recompute

Record ==
    [status: Progressions \cup {"none"}, progress: 0..100, deleted: BOOLEAN]

Call == [op: CallOps \cup {"none"}, step: CallSteps, task: Tasks \cup {NoTask},
         status: Progressions \cup {Absent}, progress: (0..100) \cup {Absent}]

OnboardingTypeOK ==
    /\ onboarding \in Record
    /\ task \in [Tasks -> {"none", "open", "done", "deleted"}]
    /\ call \in [Calls -> Call]
    /\ changed \subseteq Calls
    /\ adrift \in BOOLEAN
    /\ early \subseteq Calls

IdleCall == [op |-> "none", step |-> "idle", task |-> NoTask,
             status |-> Absent, progress |-> Absent]

OnboardingInit ==
    /\ onboarding = [status |-> "none", progress |-> 0, deleted |-> FALSE]
    /\ task = [t \in Tasks |-> "none"]
    /\ call = [r \in Calls |-> IdleCall]
    /\ changed = {} /\ adrift = FALSE /\ early = {}

-----------------------------------------------------------------------------
CallAt(r, step)     == call[r].step = step
CallGoesTo(r, step) == call' = [call EXCEPT ![r].step = step]

Found == onboarding.status # "none" /\ ~onboarding.deleted   \* ownOnboarding
Live  == {t \in Tasks : task[t] \in {"open", "done"}}
Done  == {t \in Tasks : task[t] = "done"}

(* Mutation: the share is not divided by the number of tasks.              *)
PercentWhole(done, total) == 100 * done

(* Math.round((done / total) * 100)                                        *)
Percent(done, total) == (200 * done + total) \div (2 * total)

(* Mutation: some done is not told from none done.                         *)
StatusOfNoStart(done, total) ==
    IF done = total THEN "COMPLETED" ELSE "IN_PROGRESS"

StatusOf(done, total) ==
    CASE done = 0     -> "NOT_STARTED"
      [] done = total -> "COMPLETED"
      [] OTHER        -> "IN_PROGRESS"

(* The record is written: on hold from now on, or not.                     *)
Put(status, progress) ==
    /\ onboarding' =
           [onboarding EXCEPT !.status = status, !.progress = progress]
    /\ early' = IF status = "ON_HOLD" /\ onboarding.status # "ON_HOLD"
                THEN {r \in Calls : call[r].step \notin CallEnded \cup {"idle"}}
                ELSE early

(* The checklist is written; requests that have counted it are behind.     *)
PutTask(t, state) ==
    /\ task' = [task EXCEPT ![t] = state]
    /\ changed' =
           changed \cup {r \in Calls : call[r].step \in {"status", "write"}}

Start(r, op, step, t, status, progress) ==
    /\ CallAt(r, "idle")
    /\ call' = [call EXCEPT ![r] = [op |-> op, step |-> step, task |-> t,
                                    status |-> status, progress |-> progress]]
    /\ UNCHANGED <<onboarding, task, onboardingHistory>>

-----------------------------------------------------------------------------
(* POST and PUT /onboarding.                                               *)

(* mapInput: COMPLETED and NOT_STARTED pin the progress; a new record with *)
(* neither field in the body is NOT_STARTED at 0.                          *)
Pinned(status, progress) ==
    CASE status = "COMPLETED"   -> 100
      [] status = "NOT_STARTED" -> 0
      [] OTHER                  -> progress

Create(r) ==
    \E s \in Progressions \cup {Absent}, p \in Marks \cup {Absent} :
        /\ onboarding.status = "none"
        /\ \A q \in Calls : call[q].op # "create"
        /\ Start(r, "create", "insert", NoTask, s, Pinned(s, p))

Or(field, default) == IF field = Absent THEN default ELSE field

(* The defaults of the schema stand in for absent fields.                  *)
InsertOnboarding(r) ==
    /\ CallAt(r, "insert")
    /\ Put(Or(call[r].status, "NOT_STARTED"), Or(call[r].progress, 0))
    /\ adrift' = TRUE
    /\ CallGoesTo(r, "seed")
    /\ UNCHANGED <<task, changed>>

(* seedDefaultTasks: one createMany.                                       *)
Seed(r) ==
    /\ CallAt(r, "seed")
    /\ task' = [t \in Tasks |-> IF t \in Seeds THEN "open" ELSE task[t]]
    /\ changed' =
           changed \cup {q \in Calls : call[q].step \in {"status", "write"}}
    /\ CallGoesTo(r, "count")
    /\ UNCHANGED <<onboarding, adrift, early>>

EditOnboarding(r) ==
    \E s \in Progressions \cup {Absent}, p \in Marks \cup {Absent} :
        /\ Found
        /\ Start(r, "put", "put", NoTask, s, Pinned(s, p))

(* Fields that are absent keep the value they have by now.                 *)
UpdateOnboarding(r) ==
    /\ CallAt(r, "put")
    /\ Put(Or(call[r].status, onboarding.status),
           Or(call[r].progress, onboarding.progress))
    /\ adrift' = (adrift \/ call[r].status \notin {"ON_HOLD", Absent}
                         \/ call[r].progress # Absent)
    /\ CallGoesTo(r, "done")
    /\ UNCHANGED <<task, changed>>

RemoveOnboarding(r) ==
    Found /\ Start(r, "remove", "delete", NoTask, Absent, Absent)

DeleteOnboarding(r) ==
    /\ CallAt(r, "delete")
    /\ onboarding' = [onboarding EXCEPT !.deleted = TRUE]
    /\ CallGoesTo(r, "done")
    /\ UNCHANGED <<task, onboardingHistory>>

-----------------------------------------------------------------------------
(* The checklist.  The reads that only look the record and the task up are *)
(* one step with the arrival of the request.                               *)

Add(r) == Found /\ Start(r, "add", "change", r, Absent, Absent)

(* A body with only a title writes the mark the task has, as the tick of a *)
(* done task or the untick of an open one does.                            *)
Tick(r) ==
    \E t \in Live, op \in {"tick", "untick", "drop"} :
        Found /\ Start(r, op, "change", t, Absent, Absent)

(* Mutation: a task that is removed is not followed by a recomputation.    *)
ChangeNoRecount(r) ==
    LET t  == call[r].task
        op == call[r].op IN
    /\ CallAt(r, "change")
    /\ IF op = "add" \/ t \in Live
       THEN /\ PutTask(t, CASE op \in {"add", "untick"} -> "open"
                            [] op = "tick" -> "done"
                            [] op = "drop" -> "deleted")
            /\ CallGoesTo(r, IF op = "drop" THEN "done" ELSE "count")
       ELSE CallGoesTo(r, "failed") /\ UNCHANGED <<task, changed>>
    /\ UNCHANGED <<onboarding, adrift, early>>

(* The task is written by its id; one that has gone by now is an error.    *)
Change(r) ==
    LET t  == call[r].task
        op == call[r].op IN
    /\ CallAt(r, "change")
    /\ IF op = "add" \/ t \in Live
       THEN /\ PutTask(t, CASE op \in {"add", "untick"} -> "open"
                            [] op = "tick" -> "done"
                            [] op = "drop" -> "deleted")
            /\ CallGoesTo(r, "count")
       ELSE CallGoesTo(r, "failed") /\ UNCHANGED <<task, changed>>
    /\ UNCHANGED <<onboarding, adrift, early>>

(* recomputeProgress: the checklist is read,                               *)
Count(r) ==
    LET done  == Cardinality(Done)
        total == Cardinality(Live) IN
    /\ CallAt(r, "count")
    /\ IF Live = {} THEN CallGoesTo(r, "done")
       ELSE call' = [call EXCEPT ![r].step = "status",
                                 ![r].status = StatusOf(done, total),
                                 ![r].progress = Percent(done, total)]
    /\ changed' = changed \ {r}
    /\ UNCHANGED <<onboarding, task, adrift, early>>

(* Mutation: a record on hold goes on.                                     *)
ReadStatusNoHold(r) ==
    /\ CallAt(r, "status")
    /\ CallGoesTo(r, "write")
    /\ UNCHANGED <<onboarding, task, onboardingHistory>>

(* the status is read, and stays if the onboarding is on hold,             *)
ReadStatus(r) ==
    /\ CallAt(r, "status")
    /\ call' = [call EXCEPT ![r].step = "write",
          ![r].status = IF onboarding.status = "ON_HOLD" THEN "ON_HOLD" ELSE @]
    /\ UNCHANGED <<onboarding, task, onboardingHistory>>

(* and both are written.                                                   *)
Write(r) ==
    /\ CallAt(r, "write")
    /\ Put(call[r].status, call[r].progress)
    /\ adrift' = (r \in changed)
    /\ CallGoesTo(r, "done")
    /\ UNCHANGED <<task, changed>>

(* A request dies between two of its steps.                                *)
AbortCall(r) ==
    /\ call[r].step \notin CallEnded \cup {"idle"}
    /\ adrift' = (adrift \/ call[r].step \in Recompute)
    /\ CallGoesTo(r, "failed")
    /\ UNCHANGED <<onboarding, task, changed, early>>

OnboardingNext == \E r \in Calls :
    \/ Create(r) \/ InsertOnboarding(r) \/ Seed(r)
    \/ EditOnboarding(r) \/ UpdateOnboarding(r)
    \/ RemoveOnboarding(r) \/ DeleteOnboarding(r)
    \/ Add(r) \/ Tick(r) \/ Change(r)
    \/ Count(r) \/ ReadStatus(r) \/ Write(r) \/ AbortCall(r)

OnboardingSpec == OnboardingInit /\ [][OnboardingNext]_onboardingVars
-----------------------------------------------------------------------------
(* What must hold.                                                         *)

(* The checklist is "the single source of truth for both progress% and     *)
(* status": when no recomputation is under way they are what it says, or   *)
(* the record is on hold.  Excepted are a record that PUT has written      *)
(* since, one whose last recomputation died, and one where a count that    *)
(* was overtaken by a later change has been written last.                  *)
ChecklistRules ==
    LET done == Cardinality(Done)  total == Cardinality(Live) IN
    \/ adrift \/ Live = {} \/ \E r \in Calls : call[r].step \in Recompute
    \/ /\ onboarding.progress = Percent(done, total)
       /\ onboarding.status \in {"ON_HOLD", StatusOf(done, total)}

(* A step that takes the record off hold ends a PUT, or a recomputation    *)
(* that was under way when it was put on hold.                             *)
OffHoldByPut ==
    onboarding.status = "ON_HOLD" /\ onboarding'.status # "ON_HOLD"
    => \E r \in Calls : /\ call'[r].step = "done"
                        /\ \/ call[r].step = "put"
                           \/ call[r].step = "write" /\ r \in early

(* Ticking does not take an onboarding off hold: only PUT does, or a       *)
(* recomputation that was under way when it was put on hold.               *)
HoldIsKept == [][OffHoldByPut]_onboardingVars
=============================================================================
