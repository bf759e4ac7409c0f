-------------------------- MODULE HrWorkflowProofs --------------------------
(***************************************************************************)
(* Theorems about the two workflows of HR.                                 *)
(*                                                                         *)
(* Leaves, for any numbers of employees, leaves and requests, any          *)
(* allowance and any calendar: the types, the sum the balance guard takes  *)
(* and what it admits, the workflow as LeaveLifecycle, the outcomes told,  *)
(* and what a deletion freezes.                                            *)
(*                                                                         *)
(* Onboarding (at the end), for any default checklist, bodies and          *)
(* requests: the types, progress and status against the checklist, holds.  *)
(***************************************************************************)
EXTENDS Leaves, Onboarding, FiniteSetTheorems, WellFoundedInduction, TLAPS

-----------------------------------------------------------------------------
(* The sum of the days of a finite set of leaves.  A fold is a function    *)
(* defined by recursion on the subsets of a set: that it exists, and what  *)
(* it returns, are shown from a smallest counterexample.                   *)

Any(s) == CHOOSE x \in s : TRUE
Adds(v, S, g) == g = [s \in SUBSET S |->
     IF s = {} THEN 0 ELSE v[Any(s)].days + g[s \ {Any(s)}]]
Sums(v, S) == CHOOSE g : Adds(v, S, g)

LEMMA Unfolded == ASSUME NEW v, NEW T PROVE DaysOf(v, T) = Sums(v, T)[T]
  BY DEF DaysOf, MapThenSumSet, MapThenFoldSet, Sums, Adds, Any

LEMMA Smallest ==
    ASSUME NEW F, IsFiniteSet(F), NEW C, C \subseteq SUBSET F, C # {}
    PROVE  \E s \in C : \A t \in C : t \subseteq s => t = s
<1>1. IsWellFoundedOn(StrictSubsetOrdering(F), SUBSET F)
  BY FS_StrictSubsetOrderingWellFounded, FS_FiniteSubsetsOfFinite
<1>2. PICK s \in C : \A t \in C : ~(<<t, s>> \in StrictSubsetOrdering(F))
  BY <1>1, WFMin
<1> QED
  BY <1>2 DEF StrictSubsetOrdering

LEMMA AnyIsMember == ASSUME NEW s, s # {} PROVE Any(s) \in s
  BY DEF Any

LEMMA AddsAt ==
    ASSUME NEW v, NEW S, NEW g, Adds(v, S, g), NEW s \in SUBSET S
    PROVE  /\ s = {} => g[s] = 0
           /\ s # {} => g[s] = v[Any(s)].days + g[s \ {Any(s)}]
  BY DEF Adds

LEMMA AddsOnce ==
    ASSUME NEW v, NEW A, NEW B, NEW g, NEW h, Adds(v, A, g), Adds(v, B, h),
           NEW S, IsFiniteSet(S), S \subseteq A, S \subseteq B
    PROVE  g[S] = h[S]
<1> DEFINE C == {s \in SUBSET S : g[s] # h[s]}
<1>1. SUFFICES ASSUME C # {} PROVE FALSE
  BY DEF C
<1>2. PICK s \in C : \A t \in C : t \subseteq s => t = s
  <2>1. C \subseteq SUBSET S
    OBVIOUS
  <2> HIDE DEF C
  <2> QED
    BY <1>1, <2>1, Smallest
<1>3. CASE s = {}
  BY <1>2, <1>3, AddsAt
<1>4. CASE s # {}
  <2>1. Any(s) \in s
    BY <1>4, AnyIsMember
  <2>2. g[s \ {Any(s)}] = h[s \ {Any(s)}]
    BY <1>2, <2>1
  <2> QED
    BY <1>2, <1>4, <2>2, AddsAt
<1> QED
  BY <1>3, <1>4

LEMMA AddsExists ==
    ASSUME NEW v, NEW F, IsFiniteSet(F)
    PROVE  Adds(v, F, Sums(v, F))
<1> DEFINE C == {S \in SUBSET F : ~ \E g : Adds(v, S, g)}
<1>1. SUFFICES ASSUME C # {} PROVE FALSE
  BY DEF Sums
<1>2. PICK S \in C : \A t \in C : t \subseteq S => t = S
  <2>1. C \subseteq SUBSET F
    OBVIOUS
  <2> HIDE DEF C
  <2> QED
    BY <1>1, <2>1, Smallest
<1> DEFINE h == [s \in SUBSET S |-> IF s = {} THEN 0
                     ELSE v[Any(s)].days + Sums(v, s \ {Any(s)})[s \ {Any(s)}]]
<1>3. ASSUME NEW s \in SUBSET S, s # S PROVE Adds(v, s, Sums(v, s))
  BY <1>2, <1>3 DEF Sums
<1>4. ASSUME NEW s \in SUBSET S
      PROVE  /\ s = {} => h[s] = 0
             /\ s # {} => h[s] = v[Any(s)].days + Sums(v, s \ {Any(s)})[s \ {Any(s)}]
  OBVIOUS
<1>5. h = [s \in SUBSET S |-> h[s]]
  OBVIOUS
<1> HIDE DEF h
<1>6. ASSUME NEW s \in SUBSET S, s # S PROVE h[s] = Sums(v, s)[s]
  <2>1. CASE s = {}
    BY <2>1, <1>3, <1>4, <1>6, AddsAt
  <2>2. CASE s # {}
    <3>1. PICK t : t = s \ {Any(s)}
      OBVIOUS
    <3>2. t \subseteq s /\ t \in SUBSET S /\ t # S /\ t \in SUBSET F
      BY <2>2, <3>1, AnyIsMember, <1>2
    <3>3. Adds(v, s, Sums(v, s)) /\ Adds(v, t, Sums(v, t))
      BY <1>3, <1>6, <3>2
    <3>4. Sums(v, s)[t] = Sums(v, t)[t]
      BY <3>2, <3>3, AddsOnce, FS_Subset
    <3>5. Sums(v, s)[s] = v[Any(s)].days + Sums(v, s)[t]
      BY <2>2, <3>1, <3>3, AddsAt
    <3> QED
      BY <1>4, <2>2, <3>1, <3>4, <3>5
  <2> QED
    BY <2>1, <2>2
<1>7. ASSUME NEW s \in SUBSET S, s # {}
      PROVE  h[s] = v[Any(s)].days + h[s \ {Any(s)}]
  <2>1. s \ {Any(s)} \in SUBSET S /\ s \ {Any(s)} # S
    BY <1>7, AnyIsMember
  <2> QED
    BY <1>4, <1>6, <1>7, <2>1
<1>8. Adds(v, S, h)
  <2>1. \A s \in SUBSET S : h[s] = IF s = {} THEN 0 ELSE v[Any(s)].days + h[s \ {Any(s)}]
    BY <1>4, <1>7
  <2> QED
    BY <1>5, <2>1 DEF Adds
<1> QED
  BY <1>2, <1>8

(* The sum, one leave at a time. *)
LEMMA DaysStep ==
    ASSUME NEW v, NEW T, IsFiniteSet(T)
    PROVE  /\ T = {} => DaysOf(v, T) = 0
           /\ T # {} => /\ Any(T) \in T
                        /\ DaysOf(v, T) = v[Any(T)].days
                                           + DaysOf(v, T \ {Any(T)})
<1>1. PICK t : t = T \ {Any(T)}
  OBVIOUS
<1>2. t \subseteq T /\ IsFiniteSet(t)
  BY <1>1, FS_Subset
<1>3. Adds(v, T, Sums(v, T)) /\ Adds(v, t, Sums(v, t))
  BY <1>2, AddsExists
<1>4. Sums(v, T)[t] = Sums(v, t)[t]
  BY <1>2, <1>3, AddsOnce
<1>5. DaysOf(v, T) = Sums(v, T)[T] /\ DaysOf(v, t) = Sums(v, t)[t]
  BY Unfolded
<1>6. /\ T = {} => Sums(v, T)[T] = 0
      /\ T # {} => Sums(v, T)[T] = v[Any(T)].days + Sums(v, T)[t]
  BY <1>1, <1>2, <1>3, AddsAt
<1>7. T # {} => Any(T) \in T
  BY AnyIsMember
<1> QED
  BY <1>1, <1>4, <1>5, <1>6, <1>7

(* It is a number, whatever order the fold takes the leaves in.            *)
LEMMA DaysNat ==
    ASSUME NEW v, NEW T, IsFiniteSet(T), \A l \in T : v[l].days \in Nat
    PROVE  DaysOf(v, T) \in Nat
<1> DEFINE C == {S \in SUBSET T : DaysOf(v, S) \notin Nat}
<1>1. SUFFICES ASSUME C # {} PROVE FALSE
  OBVIOUS
<1>2. PICK S \in C : \A t \in C : t \subseteq S => t = S
  <2>1. C \subseteq SUBSET T
    OBVIOUS
  <2> HIDE DEF C
  <2> QED
    BY <1>1, <2>1, Smallest
<1>3. IsFiniteSet(S)
  BY <1>2, FS_Subset
<1>4. S # {}
  <2>1. S = {} => DaysOf(v, S) = 0
    BY <1>3, DaysStep
  <2> QED
    BY <1>2, <2>1
<1>5. Any(S) \in T /\ DaysOf(v, S \ {Any(S)}) \in Nat
  BY <1>2, <1>4, AnyIsMember
<1> QED
  BY <1>2, <1>3, <1>4, <1>5, DaysStep

LEMMA DaysTake ==
    ASSUME NEW v, NEW T, IsFiniteSet(T), \A l \in T : v[l].days \in Nat
    PROVE  \A x \in T : DaysOf(v, T) = v[x].days + DaysOf(v, T \ {x})
<1> DEFINE Takes(S) == \A x \in S : DaysOf(v, S) = v[x].days + DaysOf(v, S \ {x})
           C == {S \in SUBSET T : ~Takes(S)}
<1>1. SUFFICES ASSUME C # {} PROVE FALSE
  OBVIOUS
<1>2. PICK S \in C : \A t \in C : t \subseteq S => t = S
  <2>1. C \subseteq SUBSET T
    OBVIOUS
  <2> HIDE DEF C
  <2> QED
    BY <1>1, <2>1, Smallest
<1>3. PICK x \in S : DaysOf(v, S) # v[x].days + DaysOf(v, S \ {x})
  BY <1>2
<1>4. PICK c : c = Any(S)
  OBVIOUS
<1>5. c \in S /\ c # x /\ DaysOf(v, S) = v[c].days + DaysOf(v, S \ {c})
  BY <1>2, <1>3, <1>4, AnyIsMember, DaysStep, FS_Subset
<1>6. Takes(S \ {c}) /\ Takes(S \ {x})
  BY <1>2, <1>3, <1>5
<1>7. PICK rest : rest = (S \ {c}) \ {x} /\ rest = (S \ {x}) \ {c}
  OBVIOUS
<1>8. /\ DaysOf(v, S \ {c}) = v[x].days + DaysOf(v, rest)
      /\ DaysOf(v, S \ {x}) = v[c].days + DaysOf(v, rest)
  BY <1>3, <1>5, <1>6, <1>7
<1>9. DaysOf(v, rest) \in Nat /\ v[x].days \in Nat /\ v[c].days \in Nat
  BY <1>2, <1>3, <1>5, <1>7, DaysNat, FS_Subset
<1> QED
  BY <1>3, <1>5, <1>8, <1>9

(* Fewer leaves use up no more days.                                       *)
LEMMA DaysMonotone ==
    ASSUME NEW v, NEW T, IsFiniteSet(T), \A l \in T : v[l].days \in Nat,
           NEW U \in SUBSET T
    PROVE  DaysOf(v, U) <= DaysOf(v, T)
<1> DEFINE C == {S \in SUBSET T : U \subseteq S /\ ~(DaysOf(v, U) <= DaysOf(v, S))}
<1>1. SUFFICES ASSUME C # {} PROVE FALSE
  OBVIOUS
<1>2. PICK S \in C : \A t \in C : t \subseteq S => t = S
  <2>1. C \subseteq SUBSET T
    OBVIOUS
  <2> HIDE DEF C
  <2> QED
    BY <1>1, <2>1, Smallest
<1>3. IsFiniteSet(S) /\ IsFiniteSet(U) /\ DaysOf(v, U) \in Nat
  BY <1>2, DaysNat, FS_Subset
<1>4. PICK x \in S : x \notin U
  <2>1. S # U
    BY <1>2, <1>3
  <2> QED
    BY <1>2, <2>1
<1>5. DaysOf(v, U) <= DaysOf(v, S \ {x})
  BY <1>2, <1>4
<1>6. DaysOf(v, S) = v[x].days + DaysOf(v, S \ {x})
  BY <1>2, <1>3, <1>4, DaysTake
<1>7. DaysOf(v, S \ {x}) \in Nat /\ v[x].days \in Nat
  BY <1>2, <1>4, DaysNat, FS_Subset
<1> QED
  BY <1>2, <1>3, <1>5, <1>6, <1>7

(* Only the days of the leaves that are summed matter.                     *)
LEMMA DaysSame ==
    ASSUME NEW v, NEW w, NEW T, IsFiniteSet(T),
           \A l \in T : v[l].days = w[l].days
    PROVE  DaysOf(v, T) = DaysOf(w, T)
<1> DEFINE C == {S \in SUBSET T : DaysOf(v, S) # DaysOf(w, S)}
<1>1. SUFFICES ASSUME C # {} PROVE FALSE
  OBVIOUS
<1>2. PICK S \in C : \A t \in C : t \subseteq S => t = S
  <2>1. C \subseteq SUBSET T
    OBVIOUS
  <2> HIDE DEF C
  <2> QED
    BY <1>1, <2>1, Smallest
<1>3. IsFiniteSet(S)
  BY <1>2, FS_Subset
<1>4. S # {}
  BY <1>2, <1>3, DaysStep
<1>5. Any(S) \in S /\ DaysOf(v, S \ {Any(S)}) = DaysOf(w, S \ {Any(S)})
  BY <1>2, <1>4, AnyIsMember
<1> QED
  BY <1>2, <1>3, <1>4, <1>5, DaysStep

(* Leaves of one day: the sum is their number.                             *)
LEMMA DaysOfOne ==
    ASSUME NEW v, NEW T, IsFiniteSet(T), \A l \in T : v[l].days = 1
    PROVE  DaysOf(v, T) = Cardinality(T)
<1> DEFINE C == {S \in SUBSET T : DaysOf(v, S) # Cardinality(S)}
<1>1. SUFFICES ASSUME C # {} PROVE FALSE
  OBVIOUS
<1>2. PICK S \in C : \A t \in C : t \subseteq S => t = S
  <2>1. C \subseteq SUBSET T
    OBVIOUS
  <2> HIDE DEF C
  <2> QED
    BY <1>1, <2>1, Smallest
<1>3. IsFiniteSet(S)
  BY <1>2, FS_Subset
<1>4. S # {}
  BY <1>2, <1>3, DaysStep, FS_EmptySet
<1>5. Any(S) \in S /\ DaysOf(v, S \ {Any(S)}) = Cardinality(S \ {Any(S)})
  BY <1>2, <1>4, AnyIsMember
<1>6. Cardinality(S \ {Any(S)}) = Cardinality(S) - 1 /\ Cardinality(S) \in Nat
  BY <1>3, <1>5, FS_RemoveElement, FS_CardinalityType
<1> QED
  BY <1>2, <1>3, <1>4, <1>5, <1>6, DaysStep

-----------------------------------------------------------------------------
(* The inductive invariant.                                                *)

Held == {"decide", "tell", "update", "delete"}

(* What a request carries: an application its own row, not yet filed and,  *)
(* if the guard admitted it, within what was left of the allowance; the    *)
(* others a leave that exists, a verdict on the row that was read, or what *)
(* to write.                                                               *)
Carries(r) ==
    /\ req[r].step \in {"idle", "policy", "balance", "ask", "insert"} =>
           leave[r].status = "none"
    /\ req[r].step \in {"policy", "balance", "ask", "insert"} =>
           /\ req[r].op = "apply" /\ req[r].row.status \in Statuses
           /\ req[r].row.who \in People /\ req[r].row.by = Nil
           /\ ~req[r].row.deleted
    /\ req[r].step \in {"policy", "balance"} => req[r].seen = -1
    /\ req[r].step \in {"ask", "insert"} /\ req[r].seen >= 0 =>
           req[r].row.days <= req[r].allowance - req[r].seen
    /\ req[r].step \in Held =>
           req[r].leave \in LeaveIds /\ leave[req[r].leave].status # "none"
    /\ req[r].step \in {"decide", "tell"} =>
           req[r].op \in Outcomes /\ req[r].actor \in People
    /\ At(r, "decide") =>
           IF req[r].op = "CANCELLED"
           THEN req[r].row.status \notin {"CANCELLED", "REJECTED"}
           ELSE req[r].row.who # req[r].actor /\ req[r].row.status = "PENDING"
    /\ At(r, "update") => req[r].row.status \in Statuses

RequestsCarry == \A r \in Reqs : Carries(r)

(* A leave that is not filed has an empty row, and nobody has edited it.   *)
UnfiledIsEmpty ==
    \A l \in LeaveIds : leave[l].status = "none" =>
        leave[l] = NoRow /\ l \notin disturbed

IInv == TypeOK /\ RequestsCarry /\ UnfiledIsEmpty

LEMMA LeavesFinite ==
    /\ IsFiniteSet(LeaveIds)
    /\ \A S \in SUBSET LeaveIds : IsFiniteSet(S)
<1>1. IsFiniteSet(LeaveIds)
  BY LeavesAssumption, FS_Union DEF LeaveIds
<1> QED
  BY <1>1, FS_Subset

LEMMA InitIInv == Init => IInv
<1> SUFFICES ASSUME Init PROVE IInv
  OBVIOUS
<1>1. NoRow \in Row /\ Idle \in Request
  BY LeavesAssumption DEF NoRow, Row, Idle, Request, Steps
<1>2. \A l \in OldLeaves : leave[l] \in Row /\ leave[l].status = "PENDING"
  BY <1>1, LeavesAssumption DEF Init, NoRow, Row, Statuses, LeaveIds
<1>3. \A l \in LeaveIds \ OldLeaves : leave[l] = NoRow
  BY DEF Init
<1>4. TypeOK
  <2>1. leave = [l \in LeaveIds |-> leave[l]]
    BY DEF Init
  <2>2. \A l \in LeaveIds : leave[l] \in Row
    BY <1>1, <1>2, <1>3
  <2>3. leave \in [LeaveIds -> Row]
    BY <2>1, <2>2
  <2>4. req \in [Reqs -> Request]
    BY <1>1 DEF Init
  <2>5. told \in [LeaveIds -> SUBSET Outcomes]
    BY DEF Init
  <2>6. year \in 0..MaxYear
    <3>1. year = 0
      BY DEF Init
    <3>2. MaxYear \in Nat
      BY LeavesAssumption
    <3> QED
      BY <3>1, <3>2
  <2>7. policy \in Policy
    BY LeavesAssumption DEF Init, Policy
  <2> QED
    BY <2>3, <2>4, <2>5, <2>6, <2>7 DEF Init, TypeOK, LeaveIds
<1>5. RequestsCarry
  <2>1. \A r \in Reqs : req[r].step = "idle" /\ leave[r].status = "none"
    BY <1>3, LeavesAssumption DEF Init, Idle, NoRow, LeaveIds
  <2> QED
    BY <2>1 DEF RequestsCarry, Carries, At, Held
<1>6. UnfiledIsEmpty
  BY <1>2, <1>3 DEF Init, UnfiledIsEmpty
<1> QED
  BY <1>4, <1>5, <1>6 DEF IInv

-----------------------------------------------------------------------------
(* The steps of one request.                                               *)

LEMMA GoToReq ==
    ASSUME TypeOK, NEW r \in Reqs, NEW p \in Steps, GoTo(r, p)
    PROVE  /\ req' \in [Reqs -> Request]
           /\ \A q \in Reqs \ {r} : req'[q] = req[q]
           /\ req'[r].step = p /\ req'[r].op = req[r].op
           /\ req'[r].leave = req[r].leave /\ req'[r].actor = req[r].actor
           /\ req'[r].row = req[r].row /\ req'[r].seen = req[r].seen
           /\ req'[r].allowance = req[r].allowance
<1>1. PICK x \in Request : x = req[r]
  BY DEF TypeOK
<1>2. /\ [x EXCEPT !.step = p] \in Request
      /\ [x EXCEPT !.step = p].step = p /\ [x EXCEPT !.step = p].op = x.op
      /\ [x EXCEPT !.step = p].leave = x.leave
      /\ [x EXCEPT !.step = p].actor = x.actor
      /\ [x EXCEPT !.step = p].row = x.row
      /\ [x EXCEPT !.step = p].seen = x.seen
      /\ [x EXCEPT !.step = p].allowance = x.allowance
  BY DEF Request
<1> QED
  BY <1>1, <1>2 DEF GoTo, TypeOK

(* A request that begins with record x.                                    *)
LEMMA StartReq ==
    ASSUME TypeOK, NEW r \in Reqs, NEW x \in Request,
           req' = [req EXCEPT ![r] = x]
    PROVE  /\ req' \in [Reqs -> Request] /\ req'[r] = x
           /\ \A q \in Reqs \ {r} : req'[q] = req[q]
  BY DEF TypeOK

Started(op, p, l, row) ==
    [Idle EXCEPT !.op = op, !.step = p, !.leave = l, !.row = row]

LEMMA StartedReq ==
    ASSUME NEW op \in Operations, NEW p \in Steps, NEW l \in LeaveIds, NEW row \in Row,
           NEW x, x = Started(op, p, l, row)
    PROVE  /\ x \in Request /\ x.op = op /\ x.step = p /\ x.leave = l
           /\ x.row = row /\ x.seen = -1
<1>1. NoRow \in Row
  BY LeavesAssumption DEF NoRow, Row
<1>2. Idle \in Request /\ Idle.seen = -1
  BY <1>1 DEF Idle, Request, Steps
<1>3. PICK i \in Request : i = Idle /\ i.seen = -1
  BY <1>2
<1>4. x = [i EXCEPT !.op = op, !.step = p, !.leave = l, !.row = row]
  BY <1>3 DEF Started
<1> QED
  BY <1>3, <1>4 DEF Request

(* The days of a leave are a number.                                       *)
LEMMA DaysAreCounted == \A end \in Ends : dayCount(1, end) \in Nat
  BY LeavesAssumption DEF Ends, dayCount

(* A first step writes nothing but its request, which carries what it      *)
(* should.                                                                 *)
Begins(r) ==
    /\ At(r, "idle")
    /\ UNCHANGED <<year, policy, leave, notices, unchecked, disturbed>>
    /\ req' \in [Reqs -> Request]
    /\ \A q \in Reqs \ {r} : req'[q] = req[q]
    /\ req'[r].step \in {"policy", "ask", "decide", "rejected", "update", "delete"}
    /\ req'[r].step \in Held => Exists(req'[r].leave)

LEMMA ApplyBegins ==
    ASSUME IInv, NEW r \in Reqs, Apply(r)
    PROVE  Begins(r) /\ Carries(r)'
<1>1. PICK e \in Filers, end \in Ends, y \in 0..MaxYear, s \in Filed, typed \in BOOLEAN :
        /\ "apply" \in Ops
        /\ At(r, "idle")
        /\ req' = [req EXCEPT ![r] = [Idle EXCEPT !.op = "apply",
                      !.step = IF Enforce /\ typed THEN "policy" ELSE "ask",
                      !.leave = r,
                      !.row = [NoRow EXCEPT !.status = s, !.who = e,
                                            !.days = dayCount(1, end),
                                            !.year = y]]]
        /\ UNCHANGED <<year, policy, leave, notices, unchecked, disturbed>>
  BY Zenon DEF Apply
<1>2. req' = [req EXCEPT ![r] = [Idle EXCEPT !.op = "apply",
                !.step = IF Enforce /\ typed THEN "policy" ELSE "ask",
                !.leave = r,
                !.row = [NoRow EXCEPT !.status = s, !.who = e,
                                      !.days = dayCount(1, end), !.year = y]]]
  BY <1>1
<1>3. PICK row : row = [NoRow EXCEPT !.status = s, !.who = e,
                                     !.days = dayCount(1, end), !.year = y]
  OBVIOUS
<1>4. PICK p : p = IF Enforce /\ typed THEN "policy" ELSE "ask"
  OBVIOUS
<1>5. /\ row \in Row /\ row.status \in Statuses /\ row.who \in People
      /\ row.by = Nil /\ ~row.deleted
  <2>1. e \in People /\ s \in Statuses /\ dayCount(1, end) \in Nat
    BY DaysAreCounted, LeavesAssumption DEF Statuses
  <2> QED
    BY <1>3, <2>1 DEF NoRow, Row
<1>6. p \in {"policy", "ask"}
  BY <1>4
<1>7. PICK x : x = Started("apply", p, r, row)
  OBVIOUS
<1>8. /\ x \in Request /\ x.op = "apply" /\ x.step = p /\ x.row = row
      /\ x.seen = -1
  BY <1>5, <1>6, <1>7, StartedReq DEF Steps, Operations, LeaveIds
<1>9. req' = [req EXCEPT ![r] = x]
  BY <1>2, <1>3, <1>4, <1>7 DEF Started
<1>10. /\ req' \in [Reqs -> Request] /\ req'[r] = x
       /\ \A q \in Reqs \ {r} : req'[q] = req[q]
  BY <1>8, <1>9, StartReq DEF IInv
<1>11. Begins(r)
  BY <1>1, <1>6, <1>8, <1>10 DEF Begins, Held
<1>12. leave'[r].status = "none"
  BY <1>1 DEF IInv, RequestsCarry, Carries, At
<1> QED
  BY <1>5, <1>6, <1>8, <1>10, <1>11, <1>12 DEF Carries, At, Held

LEMMA TransitionBegins ==
    ASSUME IInv, NEW r \in Reqs, Transition(r)
    PROVE  Begins(r) /\ Carries(r)'
<1>1. PICK a \in People, l \in LeaveIds, action \in Outcomes \cap Ops :
        /\ At(r, "idle") /\ Exists(l)
        /\ req' = [req EXCEPT ![r] = [op |-> action, leave |-> l, actor |-> a,
                      row |-> leave[l], allowance |-> 0, seen |-> -1,
                      step |-> IF Verdict(a, l, action) THEN "decide"
                               ELSE "rejected"]]
        /\ UNCHANGED <<year, policy, leave, notices, unchecked, disturbed>>
  BY DEF Transition
<1>2. PICK p : p = IF Verdict(a, l, action) THEN "decide" ELSE "rejected"
  OBVIOUS
<1>3. PICK x : x = [op |-> action, leave |-> l, actor |-> a,
                    row |-> leave[l], allowance |-> 0, seen |-> -1, step |-> p]
  OBVIOUS
<1>4. x \in Request
  BY <1>2, <1>3 DEF IInv, TypeOK, Request, Steps, Operations, Outcomes
<1>5. /\ req' \in [Reqs -> Request] /\ req'[r] = x
      /\ \A q \in Reqs \ {r} : req'[q] = req[q]
  BY <1>1, <1>2, <1>3, <1>4, StartReq DEF IInv
<1>6. Begins(r)
  BY <1>1, <1>2, <1>3, <1>5 DEF Begins, Held
<1>7. p = "decide" =>
        IF action = "CANCELLED"
        THEN leave[l].status \notin {"CANCELLED", "REJECTED"}
        ELSE leave[l].who # a /\ leave[l].status = "PENDING"
  BY <1>2 DEF Verdict
<1>8. leave'[l].status # "none" /\ action \in Outcomes
  BY <1>1 DEF Exists
<1> QED
  BY <1>2, <1>3, <1>5, <1>6, <1>7, <1>8 DEF Carries, At, Held

LEMMA HrBegins ==
    ASSUME IInv, NEW r \in Reqs, Edit(r) \/ Remove(r)
    PROVE  Begins(r) /\ Carries(r)' /\ req'[r].step \in {"update", "delete"}
<1>1. ASSUME NEW l \in LeaveIds, NEW op \in {"status", "days", "remove"},
             NEW p \in {"update", "delete"}, NEW row \in Row,
             leave[l].status # "none" => row.status \in Statuses,
             StartHr(r, op, p, l, row)
      PROVE  Begins(r) /\ Carries(r)' /\ req'[r].step \in {"update", "delete"}
  <2>1. PICK x : x = Started(op, p, l, row)
    OBVIOUS
  <2>2. x \in Request /\ x.step = p /\ x.leave = l /\ x.row = row
    BY <2>1, StartedReq DEF Steps, Operations
  <2>3. req' = [req EXCEPT ![r] = x]
    BY <1>1, <2>1 DEF StartHr, Started
  <2>4. /\ req' \in [Reqs -> Request] /\ req'[r] = x
        /\ \A q \in Reqs \ {r} : req'[q] = req[q]
    BY <2>2, <2>3, StartReq DEF IInv
  <2>5. Begins(r)
    BY <1>1, <2>2, <2>4 DEF Begins, Held, StartHr
  <2>6. leave'[l].status # "none" /\ leave[l].status # "none"
    BY <1>1 DEF StartHr, Exists
  <2> QED
    BY <1>1, <2>2, <2>4, <2>5, <2>6 DEF Carries, At, Held
<1>2. ASSUME NEW l \in LeaveIds
      PROVE  /\ leave[l] \in Row
             /\ leave[l].status # "none" => leave[l].status \in Statuses
             /\ \A s \in Filed : [leave[l] EXCEPT !.status = s] \in Row
                                 /\ [leave[l] EXCEPT !.status = s].status \in Statuses
             /\ \A end \in Ends :
                   /\ [leave[l] EXCEPT !.days = dayCount(1, end)] \in Row
                   /\ [leave[l] EXCEPT !.days = dayCount(1, end)].status
                         = leave[l].status
  <2>1. PICK row \in Row : row = leave[l]
    BY DEF IInv, TypeOK
  <2>2. \A s \in Filed : s \in Statuses
    BY LeavesAssumption DEF Statuses
  <2> QED
    BY <2>1, <2>2, DaysAreCounted DEF Row
<1> QED
  BY <1>1, <1>2 DEF Edit, Remove

(* The later steps: what each does to the leave it is about.               *)
Writes(r, l, row) ==
    /\ l = req[r].leave /\ leave[l].status # "none"
    /\ leave' = [leave EXCEPT ![l] = row]
    /\ row.status \in Statuses /\ row.who = leave[l].who /\ row.year = leave[l].year

LEMMA DecideHow ==
    ASSUME IInv, NEW r \in Reqs, Decide(r)
    PROVE  \E l \in LeaveIds, row \in Row :
               /\ Writes(r, l, row) /\ At(r, "decide")
               /\ req[r].op \in Outcomes /\ req[r].actor \in People
               /\ row.status = req[r].op /\ row.by = req[r].actor
               /\ row.days = leave[l].days /\ row.deleted = leave[l].deleted
               /\ disturbed' = IF leave[l] = req[r].row THEN disturbed
                               ELSE disturbed \cup {l}
               /\ Unguarded(l) /\ GoTo(r, "tell")
               /\ UNCHANGED <<year, policy, notices>>
<1>1. At(r, "decide") /\ req[r].step \in Held
  BY DEF Decide, At, Held
<1>2. PICK l \in LeaveIds : l = req[r].leave /\ leave[l].status # "none"
  BY <1>1 DEF IInv, RequestsCarry, Carries
<1>3. req[r].op \in Outcomes /\ req[r].actor \in People
  BY <1>1 DEF IInv, RequestsCarry, Carries, At
<1>4. PICK old \in Row : old = leave[l]
  BY DEF IInv, TypeOK
<1>5. PICK row : row = [old EXCEPT !.status = req[r].op, !.by = req[r].actor]
  OBVIOUS
<1>6. /\ row \in Row /\ row.status = req[r].op /\ row.by = req[r].actor
      /\ row.days = old.days /\ row.deleted = old.deleted
      /\ row.who = old.who /\ row.year = old.year /\ row.status \in Statuses
  BY <1>3, <1>5 DEF Row, Outcomes, Statuses
<1>7. leave' = [leave EXCEPT ![l] = row]
  BY <1>2, <1>4, <1>5 DEF Decide
<1>8. Writes(r, l, row)
  BY <1>2, <1>4, <1>6, <1>7 DEF Writes
<1>9. /\ disturbed' = IF leave[l] = req[r].row THEN disturbed ELSE disturbed \cup {l}
      /\ Unguarded(l) /\ GoTo(r, "tell") /\ UNCHANGED <<year, policy, notices>>
  BY <1>2 DEF Decide
<1> QED
  BY <1>1, <1>3, <1>4, <1>6, <1>8, <1>9

LEMMA UpdateHow ==
    ASSUME IInv, NEW r \in Reqs, Update(r)
    PROVE  \E l \in LeaveIds, row \in Row :
               /\ Writes(r, l, row) /\ At(r, "update")
               /\ row.by = leave[l].by /\ row.deleted = leave[l].deleted
               /\ disturbed' = disturbed \cup {l} /\ unchecked' = unchecked \cup {l}
               /\ GoTo(r, "done")
               /\ UNCHANGED <<year, policy, notices>>
<1>1. At(r, "update") /\ req[r].step \in Held
  BY DEF Update, At, Held
<1>2. PICK l \in LeaveIds : l = req[r].leave /\ leave[l].status # "none"
  BY <1>1 DEF IInv, RequestsCarry, Carries
<1>3. PICK old \in Row : old = leave[l] /\ old.status \in Statuses
  BY <1>2 DEF IInv, TypeOK, Row
<1>4. PICK new \in Row : new = req[r].row /\ new.status \in Statuses
  <2>1. req[r].row \in Row
    BY DEF IInv, TypeOK, Request
  <2> QED
    BY <1>1, <2>1 DEF IInv, RequestsCarry, Carries
<1>5. PICK row : row = IF req[r].op = "status" THEN [old EXCEPT !.status = new.status]
                       ELSE [old EXCEPT !.days = new.days]
  OBVIOUS
<1>6. /\ row \in Row /\ row.by = old.by /\ row.deleted = old.deleted
      /\ row.who = old.who /\ row.year = old.year /\ row.status \in Statuses
  <2>1. CASE req[r].op = "status"
    BY <1>3, <1>4, <1>5, <2>1 DEF Row, Statuses
  <2>2. CASE req[r].op # "status"
    BY <1>3, <1>4, <1>5, <2>2 DEF Row, Statuses
  <2> QED
    BY <2>1, <2>2
<1>7. leave' = [leave EXCEPT ![l] = row]
  BY <1>2, <1>3, <1>4, <1>5 DEF Update
<1>8. Writes(r, l, row)
  BY <1>2, <1>3, <1>6, <1>7 DEF Writes
<1>9. /\ disturbed' = disturbed \cup {l} /\ unchecked' = unchecked \cup {l}
      /\ GoTo(r, "done") /\ UNCHANGED <<year, policy, notices>>
  BY <1>2 DEF Update
<1> QED
  BY <1>1, <1>3, <1>6, <1>8, <1>9

LEMMA SoftDeleteHow ==
    ASSUME IInv, NEW r \in Reqs, SoftDelete(r)
    PROVE  \E l \in LeaveIds, row \in Row :
               /\ Writes(r, l, row) /\ At(r, "delete")
               /\ row.deleted /\ row.by = leave[l].by /\ row.days = leave[l].days
               /\ row.status = leave[l].status
               /\ GoTo(r, "done")
               /\ UNCHANGED <<year, policy, notices, unchecked, disturbed>>
<1>1. At(r, "delete") /\ req[r].step \in Held
  BY DEF SoftDelete, At, Held
<1>2. PICK l \in LeaveIds : l = req[r].leave /\ leave[l].status # "none"
  BY <1>1 DEF IInv, RequestsCarry, Carries
<1>3. PICK old \in Row : old = leave[l] /\ old.status \in Statuses
  BY <1>2 DEF IInv, TypeOK, Row
<1>4. PICK row : row = [old EXCEPT !.deleted = TRUE]
  OBVIOUS
<1>5. /\ row \in Row /\ row.deleted /\ row.by = old.by /\ row.days = old.days
      /\ row.who = old.who /\ row.year = old.year /\ row.status = old.status
  BY <1>4 DEF Row
<1>6. leave' = [leave EXCEPT ![l] = row]
  BY <1>2, <1>3, <1>4 DEF SoftDelete
<1>7. Writes(r, l, row)
  BY <1>2, <1>3, <1>5, <1>6 DEF Writes
<1> QED
  BY <1>1, <1>3, <1>5, <1>7 DEF SoftDelete

LEMMA InsertHow ==
    ASSUME IInv, NEW r \in Reqs, Insert(r)
    PROVE  \E row \in Row :
               /\ At(r, "insert") /\ row = req[r].row
               /\ leave[r] = NoRow /\ r \notin disturbed
               /\ row.status \in Statuses /\ row.who \in People
               /\ row.by = Nil /\ ~row.deleted
               /\ leave' = [leave EXCEPT ![r] = row] /\ GoTo(r, "done")
               /\ unchecked' \in {unchecked, unchecked \cup {r}}
               /\ UNCHANGED <<year, policy, notices, disturbed>>
<1>1. At(r, "insert")
  BY DEF Insert
<1>2. r \in LeaveIds /\ leave[r] = NoRow /\ r \notin disturbed
  BY <1>1 DEF IInv, RequestsCarry, Carries, UnfiledIsEmpty, At, LeaveIds
<1>3. PICK row \in Row : row = req[r].row
  BY DEF IInv, TypeOK, Request
<1>4. /\ row.status \in Statuses /\ row.who \in People
      /\ row.by = Nil /\ ~row.deleted
  BY <1>1, <1>3 DEF IInv, RequestsCarry, Carries, At
<1>5. /\ leave' = [leave EXCEPT ![r] = row] /\ GoTo(r, "done")
      /\ UNCHANGED <<year, policy, notices, disturbed>>
  BY <1>3 DEF Insert
<1>6. unchecked' \in {unchecked, unchecked \cup {r}}
  BY DEF Insert
<1> QED
  BY <1>1, <1>2, <1>3, <1>4, <1>5, <1>6

-----------------------------------------------------------------------------
(* The invariant is preserved.                                             *)

(* A step files no leave but its own, and empties none.                    *)
Files(r) ==
    \A l \in LeaveIds :
        /\ leave[l].status # "none" => leave'[l].status # "none"
        /\ l # r /\ leave[l].status = "none" => leave'[l] = leave[l]

LEMMA OthersCarry ==
    ASSUME IInv, NEW r \in Reqs, Files(r), \A q \in Reqs \ {r} : req'[q] = req[q]
    PROVE  \A q \in Reqs \ {r} : Carries(q)'
<1>1. ASSUME NEW q \in Reqs \ {r}
      PROVE  Carries(q)'
  <2>1. Carries(q) /\ req'[q] = req[q] /\ q \in LeaveIds
    BY DEF IInv, RequestsCarry, LeaveIds
  <2>2. leave[q].status = "none" => leave'[q].status = "none"
    BY <2>1 DEF Files
  <2>3. req[q].step \in Held => leave'[req[q].leave].status # "none"
    BY <2>1 DEF Files, Carries
  <2> QED
    BY <2>1, <2>2, <2>3 DEF Carries, At
<1> QED
  BY <1>1

LEMMA BeginIInv ==
    ASSUME IInv, NEW r \in Reqs, Begins(r), Carries(r)'
    PROVE  IInv'
<1>1. TypeOK'
  BY DEF IInv, TypeOK, Begins, notices
<1>2. Files(r)
  BY DEF Begins, Files
<1>3. RequestsCarry'
  BY <1>2, OthersCarry DEF Begins, RequestsCarry
<1> QED
  BY <1>1, <1>3 DEF IInv, UnfiledIsEmpty, Begins

(* A step that leaves the rows alone.                                      *)
LEMMA MoveIInv ==
    ASSUME IInv, NEW r \in Reqs,
           req' \in [Reqs -> Request], \A q \in Reqs \ {r} : req'[q] = req[q],
           Carries(r)', UNCHANGED <<year, policy, leave, unchecked, disturbed>>,
           asked' \subseteq LeaveIds, lost' \subseteq LeaveIds,
           told' \in [LeaveIds -> SUBSET Outcomes]
    PROVE  IInv'
<1>1. TypeOK'
  BY DEF IInv, TypeOK
<1>2. RequestsCarry'
  BY OthersCarry DEF RequestsCarry, Files
<1> QED
  BY <1>1, <1>2 DEF IInv, UnfiledIsEmpty

LEMMA ReadPolicyHow ==
    ASSUME IInv, NEW r \in Reqs, ReadPolicy(r)
    PROVE  /\ At(r, "policy") /\ req' \in [Reqs -> Request]
           /\ \A q \in Reqs \ {r} : req'[q] = req[q]
           /\ req'[r].op = req[r].op /\ req'[r].leave = req[r].leave
           /\ req'[r].row = req[r].row /\ req'[r].seen = req[r].seen
           /\ req'[r].step \in {"balance", "ask"}
           /\ UNCHANGED <<year, policy, leave, notices, unchecked, disturbed>>
<1>1. PICK x \in Request : x = req[r]
  BY DEF IInv, TypeOK
<1>2. PICK y : y = IF policy.active
                   THEN [x EXCEPT !.step = "balance",
                                  !.allowance = policy.daysPerYear]
                   ELSE [x EXCEPT !.step = "ask"]
  OBVIOUS
<1>3. policy.daysPerYear \in Nat
  BY LeavesAssumption DEF IInv, TypeOK, Policy
<1>4. /\ y \in Request /\ y.op = x.op /\ y.leave = x.leave /\ y.row = x.row
      /\ y.seen = x.seen /\ y.step \in {"balance", "ask"}
  <2>1. CASE policy.active
    BY <1>2, <1>3, <2>1 DEF Request, Steps
  <2>2. CASE ~policy.active
    BY <1>2, <2>2 DEF Request, Steps
  <2> QED
    BY <2>1, <2>2
<1>5. /\ At(r, "policy") /\ req' = [req EXCEPT ![r] = y]
      /\ UNCHANGED <<year, policy, leave, notices, unchecked, disturbed>>
  BY <1>1, <1>2 DEF ReadPolicy
<1>6. /\ req' \in [Reqs -> Request] /\ req'[r] = y
      /\ \A q \in Reqs \ {r} : req'[q] = req[q]
  BY <1>4, <1>5, StartReq DEF IInv
<1> QED
  BY <1>1, <1>4, <1>5, <1>6

LEMMA ReadPolicyIInv ==
    ASSUME IInv, NEW r \in Reqs, ReadPolicy(r)
    PROVE  IInv'
<1>1. Carries(r)
  BY DEF IInv, RequestsCarry
<1>2. Carries(r)'
  BY <1>1, ReadPolicyHow DEF Carries, At, Held
<1> QED
  BY <1>2, ReadPolicyHow, MoveIInv DEF IInv, TypeOK, notices

LEMMA DaysTyped ==
    ASSUME TypeOK, NEW S \in SUBSET LeaveIds
    PROVE  Days(S) \in Nat
<1>1. \A l \in S : leave[l].days \in Nat
  BY DEF TypeOK, Row
<1> QED
  BY <1>1, DaysNat, LeavesFinite DEF Days

(* What the guard admits is within what is left.                           *)
LEMMA CheckBalanceHow ==
    ASSUME IInv, NEW r \in Reqs, CheckBalance(r)
    PROVE  /\ At(r, "balance") /\ req' \in [Reqs -> Request]
           /\ \A q \in Reqs \ {r} : req'[q] = req[q]
           /\ req'[r].op = req[r].op /\ req'[r].leave = req[r].leave
           /\ req'[r].row = req[r].row
           /\ req'[r].allowance = req[r].allowance
           /\ \/ req'[r].step = "rejected"
              \/ /\ req'[r].step = "ask"
                 /\ req'[r].row.days <= req'[r].allowance - req'[r].seen
           /\ UNCHANGED <<year, policy, leave, notices, unchecked, disturbed>>
<1>1. PICK x \in Request : x = req[r]
  BY DEF IInv, TypeOK
<1>2. PICK used \in Nat : used = Days(Consuming(x.row.who, year))
  BY DaysTyped DEF IInv, Consuming
<1>3. PICK p \in {"rejected", "ask"} :
          p = IF x.row.days > x.allowance - used THEN "rejected" ELSE "ask"
  OBVIOUS
<1>4. PICK y : y = [x EXCEPT !.seen = used, !.step = p]
  OBVIOUS
<1>5. /\ y \in Request /\ y.op = x.op /\ y.leave = x.leave /\ y.row = x.row
      /\ y.step = p /\ y.seen = used /\ y.allowance = x.allowance
  <2>1. used \in Int /\ p \in Steps
    BY DEF Steps
  <2> QED
    BY <1>4, <2>1 DEF Request
<1>6. /\ At(r, "balance") /\ req' = [req EXCEPT ![r] = y]
      /\ UNCHANGED <<year, policy, leave, notices, unchecked, disturbed>>
  BY <1>1, <1>2, <1>3, <1>4 DEF CheckBalance, Judge
<1>7. /\ req' \in [Reqs -> Request] /\ req'[r] = y
      /\ \A q \in Reqs \ {r} : req'[q] = req[q]
  BY <1>5, <1>6, StartReq DEF IInv
<1>8. x.row.days \in Nat /\ x.allowance \in Nat
  BY DEF Request, Row
<1>9. p = "rejected" \/ (p = "ask" /\ x.row.days <= x.allowance - used)
  BY <1>3, <1>8
<1> QED
  BY <1>1, <1>5, <1>6, <1>7, <1>9

LEMMA CheckBalanceIInv ==
    ASSUME IInv, NEW r \in Reqs, CheckBalance(r)
    PROVE  IInv'
<1>1. Carries(r)
  BY DEF IInv, RequestsCarry
<1>2. Carries(r)'
  BY <1>1, CheckBalanceHow DEF Carries, At, Held
<1> QED
  BY <1>2, CheckBalanceHow, MoveIInv DEF IInv, TypeOK, notices

LEMMA AskHow ==
    ASSUME IInv, NEW r \in Reqs, Ask(r)
    PROVE  /\ At(r, "ask") /\ GoTo(r, "insert")
           /\ asked' \in {asked, asked \cup {r}} /\ lost' \in {lost, lost \cup {r}}
           /\ UNCHANGED <<year, policy, leave, told, unchecked, disturbed>>
  BY DEF Ask

LEMMA AskIInv ==
    ASSUME IInv, NEW r \in Reqs, Ask(r)
    PROVE  IInv'
<1>1. /\ At(r, "ask") /\ Carries(r) /\ GoTo(r, "insert")
      /\ UNCHANGED <<year, policy, leave, told, unchecked, disturbed>>
  BY AskHow DEF IInv, RequestsCarry
<1>2. Carries(r)' /\ req' \in [Reqs -> Request] /\ \A q \in Reqs \ {r} : req'[q] = req[q]
  BY <1>1, GoToReq DEF IInv, Carries, At, Held, Steps
<1>3. r \in LeaveIds
  BY DEF LeaveIds
<1>4. asked' \subseteq LeaveIds /\ lost' \subseteq LeaveIds
  BY <1>3, AskHow DEF IInv, TypeOK
<1> QED
  BY <1>1, <1>2, <1>4, MoveIInv DEF IInv, TypeOK

LEMMA TellHow ==
    ASSUME IInv, NEW r \in Reqs, Tell(r)
    PROVE  \E l \in LeaveIds :
               /\ l = req[r].leave /\ At(r, "tell") /\ req[r].op \in Outcomes
               /\ \/ /\ told' = [told EXCEPT ![l] = @ \cup {req[r].op}]
                     /\ UNCHANGED lost
                  \/ lost' = lost \cup {l} /\ UNCHANGED told
               /\ GoTo(r, "done")
               /\ UNCHANGED <<year, policy, leave, asked, unchecked, disturbed>>
<1>1. At(r, "tell") /\ req[r].step \in Held
  BY DEF Tell, At, Held
<1>2. req[r].leave \in LeaveIds /\ req[r].op \in Outcomes
  BY <1>1 DEF IInv, RequestsCarry, Carries, At
<1> QED
  BY <1>1, <1>2 DEF Tell

LEMMA TellIInv ==
    ASSUME IInv, NEW r \in Reqs, Tell(r)
    PROVE  IInv'
<1>1. PICK l \in LeaveIds :
          /\ l = req[r].leave /\ At(r, "tell") /\ req[r].op \in Outcomes
          /\ \/ told' = [told EXCEPT ![l] = @ \cup {req[r].op}] /\ UNCHANGED lost
             \/ lost' = lost \cup {l} /\ UNCHANGED told
          /\ GoTo(r, "done")
          /\ UNCHANGED <<year, policy, leave, asked, unchecked, disturbed>>
  BY TellHow
<1>2. Carries(r)' /\ req' \in [Reqs -> Request] /\ \A q \in Reqs \ {r} : req'[q] = req[q]
  BY <1>1, GoToReq DEF IInv, Carries, At, Held, Steps
<1>3. told' \in [LeaveIds -> SUBSET Outcomes] /\ lost' \subseteq LeaveIds
  BY <1>1 DEF IInv, TypeOK
<1> QED
  BY <1>1, <1>2, <1>3, MoveIInv DEF IInv, TypeOK

LEMMA AbortIInv ==
    ASSUME IInv, NEW r \in Reqs, Abort(r)
    PROVE  IInv'
<1>1. GoTo(r, "failed") /\ UNCHANGED <<year, policy, leave, notices, unchecked, disturbed>>
  BY DEF Abort
<1>2. Carries(r)' /\ req' \in [Reqs -> Request] /\ \A q \in Reqs \ {r} : req'[q] = req[q]
  BY <1>1, GoToReq DEF IInv, Carries, At, Held, Steps
<1> QED
  BY <1>1, <1>2, MoveIInv DEF IInv, TypeOK, notices

(* A step that writes a row.                                               *)
LEMMA WriteIInv ==
    ASSUME IInv, NEW r \in Reqs, NEW l \in LeaveIds, NEW row \in Row,
           NEW p \in {"tell", "done"}, GoTo(r, p),
           leave' = [leave EXCEPT ![l] = row], row.status \in Statuses,
           l = r \/ leave[l].status # "none",
           p = "tell" => req[r].leave = l /\ At(r, "decide"),
           disturbed' \subseteq LeaveIds, unchecked' \subseteq LeaveIds,
           \A k \in disturbed' : k \in disturbed \/ k = l,
           UNCHANGED <<year, policy, notices>>
    PROVE  IInv'
<1>1. /\ req' \in [Reqs -> Request] /\ \A q \in Reqs \ {r} : req'[q] = req[q]
      /\ req'[r].step = p /\ req'[r].leave = req[r].leave /\ req'[r].op = req[r].op
      /\ req'[r].actor = req[r].actor
  BY GoToReq DEF IInv, Steps
<1>2. leave'[l] = row /\ \A k \in LeaveIds \ {l} : leave'[k] = leave[k]
  BY DEF IInv, TypeOK
<1>3. TypeOK'
  BY <1>1 DEF IInv, TypeOK, notices
<1>4. row.status # "none"
  BY DEF Statuses
<1>5. Files(r)
  BY <1>2, <1>4 DEF Files
<1>6. Carries(r)'
  <2>1. Carries(r)
    BY DEF IInv, RequestsCarry
  <2> QED
    BY <1>1, <1>2, <1>4, <2>1 DEF Carries, At, Held
<1>7. RequestsCarry'
  BY <1>1, <1>5, <1>6, OthersCarry DEF RequestsCarry
<1>8. UnfiledIsEmpty'
  BY <1>2, <1>4 DEF IInv, UnfiledIsEmpty
<1> QED
  BY <1>3, <1>7, <1>8 DEF IInv

LEMMA InsertIInv ==
    ASSUME IInv, NEW r \in Reqs, Insert(r)
    PROVE  IInv'
<1>1. PICK row \in Row :
          /\ row.status \in Statuses
          /\ leave' = [leave EXCEPT ![r] = row] /\ GoTo(r, "done")
          /\ unchecked' \in {unchecked, unchecked \cup {r}}
          /\ UNCHANGED <<year, policy, notices, disturbed>>
  BY InsertHow
<1>2. r \in LeaveIds
  BY DEF LeaveIds
<1>3. disturbed' \subseteq LeaveIds /\ unchecked' \subseteq LeaveIds
  BY <1>1, <1>2 DEF IInv, TypeOK
<1> QED
  BY <1>1, <1>2, <1>3, WriteIInv

LEMMA DecideIInv ==
    ASSUME IInv, NEW r \in Reqs, Decide(r)
    PROVE  IInv'
<1>1. PICK l \in LeaveIds, row \in Row :
          /\ Writes(r, l, row) /\ At(r, "decide")
          /\ disturbed' = IF leave[l] = req[r].row THEN disturbed
                          ELSE disturbed \cup {l}
          /\ Unguarded(l) /\ GoTo(r, "tell")
          /\ UNCHANGED <<year, policy, notices>>
  BY DecideHow
<1>2. disturbed' \subseteq LeaveIds /\ unchecked' \subseteq LeaveIds
  BY <1>1 DEF IInv, TypeOK, Unguarded
<1> QED
  BY <1>1, <1>2, WriteIInv DEF Writes

LEMMA UpdateIInv ==
    ASSUME IInv, NEW r \in Reqs, Update(r)
    PROVE  IInv'
<1>1. PICK l \in LeaveIds, row \in Row :
          /\ Writes(r, l, row)
          /\ disturbed' = disturbed \cup {l} /\ unchecked' = unchecked \cup {l}
          /\ GoTo(r, "done")
          /\ UNCHANGED <<year, policy, notices>>
  BY UpdateHow
<1>2. disturbed' \subseteq LeaveIds /\ unchecked' \subseteq LeaveIds
  BY <1>1 DEF IInv, TypeOK
<1> QED
  BY <1>1, <1>2, WriteIInv DEF Writes

LEMMA SoftDeleteIInv ==
    ASSUME IInv, NEW r \in Reqs, SoftDelete(r)
    PROVE  IInv'
<1>1. PICK l \in LeaveIds, row \in Row :
          /\ Writes(r, l, row) /\ GoTo(r, "done")
          /\ UNCHANGED <<year, policy, notices, unchecked, disturbed>>
  BY SoftDeleteHow
<1> QED
  BY <1>1, WriteIInv DEF Writes, IInv, TypeOK

LEMMA NextIInv == IInv /\ [Next]_vars => IInv'
<1> SUFFICES ASSUME IInv, [Next]_vars PROVE IInv'
  OBVIOUS
<1>1. CASE UNCHANGED vars
  BY <1>1 DEF vars, notices, IInv, TypeOK, RequestsCarry, Carries, At, UnfiledIsEmpty
<1>2. CASE SetPolicy \/ NewYear
  <2>1. UNCHANGED <<leave, req, notices, unchecked, disturbed>>
    BY <1>2 DEF SetPolicy, NewYear
  <2>2. policy' \in Policy
    BY <1>2 DEF SetPolicy, NewYear, IInv, TypeOK
  <2>3. year' \in 0..MaxYear
    <3>1. MaxYear \in Nat /\ year \in 0..MaxYear
      BY LeavesAssumption DEF IInv, TypeOK
    <3>2. CASE SetPolicy
      BY <3>1, <3>2 DEF SetPolicy
    <3>3. CASE NewYear
      <4>1. year < MaxYear /\ year' = year + 1
        BY <3>3 DEF NewYear
      <4> QED
        BY <3>1, <4>1
    <3> QED
      BY <1>2, <3>2, <3>3
  <2> QED
    BY <2>1, <2>2, <2>3 DEF notices, IInv, TypeOK, RequestsCarry, Carries, At, UnfiledIsEmpty
<1>3. ASSUME NEW r \in Reqs, Apply(r) \/ Transition(r) \/ Edit(r) \/ Remove(r)
      PROVE  IInv'
  BY <1>3, ApplyBegins, TransitionBegins, HrBegins, BeginIInv
<1>4. ASSUME NEW r \in Reqs,
             ReadPolicy(r) \/ CheckBalance(r) \/ Ask(r) \/ Tell(r) \/ Abort(r)
      PROVE  IInv'
  BY <1>4, ReadPolicyIInv, CheckBalanceIInv, AskIInv, TellIInv, AbortIInv
<1>5. ASSUME NEW r \in Reqs, Insert(r) \/ Decide(r) \/ Update(r) \/ SoftDelete(r)
      PROVE  IInv'
  BY <1>5, InsertIInv, DecideIInv, UpdateIInv, SoftDeleteIInv
<1> QED
  BY <1>1, <1>2, <1>3, <1>4, <1>5 DEF Next

LEMMA Invariance == Spec => []IInv
  BY InitIInv, NextIInv, PTL DEF Spec

(* Every row, request and notification has its type: the days of a leave   *)
(* are a number, however the body's dates are ordered, and what a balance  *)
(* check has summed up is one.                                             *)
THEOREM TypeCorrect == Spec => []TypeOK
  BY Invariance, PTL DEF IInv

-----------------------------------------------------------------------------
(* The workflow.                                                           *)

PhaseMap   == [l \in LeaveIds |-> Phase(l)]
OwnerMap   == [l \in LeaveIds |-> leave[l].who]
DeciderMap == [l \in LeaveIds |-> leave[l].by]

(* Most steps write no leave.                                              *)
LEMMA WritersOnly ==
    ASSUME [Next]_vars
    PROVE  \/ UNCHANGED <<leave, disturbed>>
           \/ \E r \in Reqs : Insert(r) \/ Decide(r) \/ Update(r) \/ SoftDelete(r)
  BY DEF Next, vars, SetPolicy, NewYear, Apply, ReadPolicy, CheckBalance, Judge, Ask,
     Transition, Tell, Edit, Remove, StartHr, Abort

LEMMA WorkflowInit == Init => Workflow!Init
<1> SUFFICES ASSUME Init PROVE Workflow!Init
  OBVIOUS
<1>1. NoRow.status = "none" /\ NoRow.who = Nil /\ NoRow.by = Nil /\ NoRow.deleted = FALSE
  BY DEF NoRow
<1>2. ASSUME NEW l \in LeaveIds
      PROVE  /\ leave[l].status \in {"none", "PENDING"}
             /\ leave[l].who \in People \cup {Nil}
             /\ leave[l].by = Nil /\ leave[l].deleted = FALSE /\ l \notin disturbed
  <2>1. CASE l \in OldLeaves
    BY <2>1, LeavesAssumption DEF Init, NoRow
  <2>2. CASE l \notin OldLeaves
    BY <1>1, <2>2 DEF Init
  <2> QED
    BY <2>1, <2>2
<1>3. \A l \in LeaveIds : Phase(l) \in {"none", "PENDING"}
  BY <1>2 DEF Phase
<1> QED
  BY <1>2, <1>3 DEF Workflow!Init

(* A step that writes row into leave l alone moves the maps at l alone.    *)
LEMMA OneLeaveMoves ==
    ASSUME IInv, NEW l \in LeaveIds, NEW row \in Row,
           leave' = [leave EXCEPT ![l] = row],
           \A k \in LeaveIds \ {l} : k \in disturbed' <=> k \in disturbed
    PROVE  /\ leave'[l] = row
           /\ PhaseMap' = [PhaseMap EXCEPT ![l] = Phase(l)']
           /\ OwnerMap' = [OwnerMap EXCEPT ![l] = row.who]
           /\ DeciderMap' = [DeciderMap EXCEPT ![l] = row.by]
           /\ PhaseMap[l] = Phase(l) /\ OwnerMap[l] = leave[l].who
           /\ DeciderMap[l] = leave[l].by
           /\ OwnerMap \in [LeaveIds -> People \cup {Nil}]
           /\ DeciderMap \in [LeaveIds -> People \cup {Nil}]
<1>1. leave'[l] = row /\ \A k \in LeaveIds \ {l} : leave'[k] = leave[k]
  BY DEF IInv, TypeOK
<1>2. \A k \in LeaveIds \ {l} : Phase(k)' = Phase(k)
  BY <1>1 DEF Phase
<1>3. \A k \in LeaveIds : leave[k].who \in People \cup {Nil}
                          /\ leave[k].by \in People \cup {Nil}
  BY DEF IInv, TypeOK, Row
<1>4. PhaseMap' = [PhaseMap EXCEPT ![l] = Phase(l)'] /\ PhaseMap[l] = Phase(l)
  BY <1>2 DEF PhaseMap
<1>5. OwnerMap' = [OwnerMap EXCEPT ![l] = row.who] /\ OwnerMap[l] = leave[l].who
  <2>1. \A k \in LeaveIds \ {l} : leave'[k].who = leave[k].who
    BY <1>1
  <2>2. leave'[l].who = row.who
    BY <1>1
  <2> QED
    BY <2>1, <2>2 DEF OwnerMap
<1>6. DeciderMap' = [DeciderMap EXCEPT ![l] = row.by] /\ DeciderMap[l] = leave[l].by
  <2>1. \A k \in LeaveIds \ {l} : leave'[k].by = leave[k].by
    BY <1>1
  <2>2. leave'[l].by = row.by
    BY <1>1
  <2> QED
    BY <2>1, <2>2 DEF DeciderMap
<1>7. /\ OwnerMap \in [LeaveIds -> People \cup {Nil}]
      /\ DeciderMap \in [LeaveIds -> People \cup {Nil}]
  BY <1>3 DEF OwnerMap, DeciderMap
<1> QED
  BY <1>1, <1>4, <1>5, <1>6, <1>7

LEMMA InsertRefines ==
    ASSUME IInv, NEW r \in Reqs, Insert(r)
    PROVE  [Workflow!Next]_<<PhaseMap, OwnerMap, DeciderMap>>
<1>1. PICK row \in Row :
          /\ leave[r] = NoRow /\ r \notin disturbed
          /\ row.status \in Statuses /\ row.who \in People
          /\ row.by = Nil /\ ~row.deleted
          /\ leave' = [leave EXCEPT ![r] = row] /\ UNCHANGED disturbed
  BY InsertHow
<1>2. r \in LeaveIds
  BY DEF LeaveIds
<1>3. /\ leave[r].status = "none" /\ leave[r].by = Nil /\ ~leave[r].deleted
  BY <1>1 DEF NoRow
<1>4. /\ leave'[r] = row
      /\ PhaseMap' = [PhaseMap EXCEPT ![r] = Phase(r)']
      /\ OwnerMap' = [OwnerMap EXCEPT ![r] = row.who]
      /\ DeciderMap' = [DeciderMap EXCEPT ![r] = row.by]
      /\ PhaseMap[r] = Phase(r) /\ DeciderMap[r] = leave[r].by
  BY <1>1, <1>2, OneLeaveMoves
<1>5. Phase(r) = "none" /\ Phase(r)' \in {"PENDING", "APPROVED", "REJECTED", "CANCELLED"}
  BY <1>1, <1>3, <1>4 DEF Phase, Statuses
<1>6. DeciderMap' = DeciderMap
  BY <1>1, <1>3, <1>4 DEF DeciderMap
<1>7. Workflow!File(r)
  BY <1>1, <1>4, <1>5, <1>6
  DEF Workflow!File, Workflow!Becomes, PhaseMap, OwnerMap, DeciderMap
<1> QED
  BY <1>2, <1>7 DEF Workflow!Next

LEMMA DecideRefines ==
    ASSUME IInv, NEW r \in Reqs, Decide(r)
    PROVE  [Workflow!Next]_<<PhaseMap, OwnerMap, DeciderMap>>
<1>1. PICK l \in LeaveIds, row \in Row :
          /\ Writes(r, l, row) /\ At(r, "decide")
          /\ req[r].op \in Outcomes /\ req[r].actor \in People
          /\ row.status = req[r].op /\ row.by = req[r].actor
          /\ row.deleted = leave[l].deleted
          /\ disturbed' = IF leave[l] = req[r].row THEN disturbed
                          ELSE disturbed \cup {l}
  BY DecideHow
<1>2. /\ leave[l].status # "none" /\ row.who = leave[l].who
      /\ leave' = [leave EXCEPT ![l] = row]
      /\ leave[l].status \in Statuses
  BY <1>1 DEF Writes, IInv, TypeOK, Row
<1>3. /\ leave'[l] = row
      /\ PhaseMap' = [PhaseMap EXCEPT ![l] = Phase(l)']
      /\ OwnerMap' = [OwnerMap EXCEPT ![l] = row.who]
      /\ DeciderMap' = [DeciderMap EXCEPT ![l] = row.by]
      /\ PhaseMap[l] = Phase(l) /\ OwnerMap[l] = leave[l].who
      /\ OwnerMap \in [LeaveIds -> People \cup {Nil}]
  BY <1>1, <1>2, OneLeaveMoves
<1>4. OwnerMap' = OwnerMap
  BY <1>2, <1>3 DEF OwnerMap
<1>5. row.by \in People
  BY <1>1
<1>6. CASE Phase(l) = "off"
  <2>1. Phase(l)' = "off"
    BY <1>1, <1>2, <1>3, <1>6 DEF Phase, Statuses
  <2>2. PhaseMap' = PhaseMap
    BY <1>3, <1>6, <2>1 DEF PhaseMap
  <2>3. Workflow!Outside(l)
    BY <1>3, <1>4, <1>5, <1>6, <2>2
    DEF Workflow!Outside, PhaseMap, OwnerMap, DeciderMap
  <2> QED
    BY <2>3 DEF Workflow!Next
<1>7. CASE Phase(l) # "off" /\ leave[l] # req[r].row
  <2>1. Phase(l) = leave[l].status /\ Phase(l)' = "off"
    BY <1>1, <1>7 DEF Phase
  <2>2. Workflow!Leave(l)
    BY <1>2, <1>3, <1>4, <1>5, <1>7, <2>1
    DEF Workflow!Leave, Workflow!Becomes, PhaseMap, OwnerMap, DeciderMap
  <2> QED
    BY <2>2 DEF Workflow!Next
<1>8. CASE Phase(l) # "off" /\ leave[l] = req[r].row
  <2>1. Phase(l) = leave[l].status /\ Phase(l)' = req[r].op
    BY <1>1, <1>3, <1>8 DEF Phase
  <2>2. IF req[r].op = "CANCELLED"
        THEN leave[l].status \notin {"CANCELLED", "REJECTED"}
        ELSE leave[l].who # req[r].actor /\ leave[l].status = "PENDING"
    BY <1>1, <1>8 DEF IInv, RequestsCarry, Carries
  <2>3. CASE req[r].op = "CANCELLED"
    <3>1. leave[l].status \in {"PENDING", "APPROVED"}
      BY <1>2, <2>2, <2>3 DEF Statuses
    <3>2. Workflow!Cancel(l)
      BY <1>3, <1>4, <1>5, <2>1, <2>3, <3>1
      DEF Workflow!Cancel, Workflow!Becomes, PhaseMap, OwnerMap, DeciderMap
    <3> QED
      BY <3>2 DEF Workflow!Next
  <2>4. CASE req[r].op # "CANCELLED"
    <3>1. /\ req[r].op \in {"APPROVED", "REJECTED"} /\ leave[l].status = "PENDING"
          /\ row.by \in People \ {leave[l].who}
      BY <1>1, <2>2, <2>4 DEF Outcomes
    <3>2. Workflow!Decide(l)
      BY <1>3, <1>4, <2>1, <3>1
      DEF Workflow!Decide, Workflow!Becomes, PhaseMap, OwnerMap, DeciderMap
    <3> QED
      BY <3>2 DEF Workflow!Next
  <2> QED
    BY <2>3, <2>4
<1> QED
  BY <1>6, <1>7, <1>8

(* HR's edit or deletion takes a leave out of the workflow, if it was in.  *)
LEMMA LeavingRefines ==
    ASSUME IInv, NEW l \in LeaveIds, NEW row \in Row,
           leave[l].status # "none", leave' = [leave EXCEPT ![l] = row],
           row.who = leave[l].who, row.by = leave[l].by,
           row.deleted \/ l \in disturbed',
           \A k \in LeaveIds \ {l} : k \in disturbed' <=> k \in disturbed
    PROVE  [Workflow!Next]_<<PhaseMap, OwnerMap, DeciderMap>>
<1>1. /\ leave'[l] = row
      /\ PhaseMap' = [PhaseMap EXCEPT ![l] = Phase(l)']
      /\ OwnerMap' = [OwnerMap EXCEPT ![l] = row.who]
      /\ DeciderMap' = [DeciderMap EXCEPT ![l] = row.by]
      /\ PhaseMap[l] = Phase(l) /\ OwnerMap[l] = leave[l].who
      /\ DeciderMap[l] = leave[l].by
      /\ DeciderMap \in [LeaveIds -> People \cup {Nil}]
  BY OneLeaveMoves
<1>2. OwnerMap' = OwnerMap /\ Phase(l)' = "off" /\ row.by \in People \cup {Nil}
  BY <1>1 DEF OwnerMap, Phase, Row
<1>3. CASE Phase(l) = "off"
  <2>1. PhaseMap' = PhaseMap
    BY <1>1, <1>2, <1>3 DEF PhaseMap
  <2>2. DeciderMap' = DeciderMap
    BY <1>1 DEF DeciderMap
  <2> QED
    BY <1>2, <2>1, <2>2
<1>4. CASE Phase(l) # "off"
  <2>1. Phase(l) \notin {"none", "off"}
    BY <1>4 DEF Phase
  <2>2. Workflow!Leave(l)
    BY <1>1, <1>2, <2>1
    DEF Workflow!Leave, Workflow!Becomes, PhaseMap, OwnerMap, DeciderMap
  <2> QED
    BY <2>2 DEF Workflow!Next
<1> QED
  BY <1>3, <1>4

LEMMA WorkflowNext ==
    ASSUME IInv, [Next]_vars
    PROVE  [Workflow!Next]_<<PhaseMap, OwnerMap, DeciderMap>>
<1>1. CASE UNCHANGED <<leave, disturbed>>
  BY <1>1 DEF PhaseMap, OwnerMap, DeciderMap, Phase
<1>2. ASSUME NEW r \in Reqs, Update(r)
      PROVE  [Workflow!Next]_<<PhaseMap, OwnerMap, DeciderMap>>
  <2>1. PICK l \in LeaveIds, row \in Row :
            /\ Writes(r, l, row) /\ row.by = leave[l].by
            /\ disturbed' = disturbed \cup {l}
    BY <1>2, UpdateHow
  <2> QED
    BY <2>1, LeavingRefines DEF Writes
<1>3. ASSUME NEW r \in Reqs, SoftDelete(r)
      PROVE  [Workflow!Next]_<<PhaseMap, OwnerMap, DeciderMap>>
  <2>1. PICK l \in LeaveIds, row \in Row :
            /\ Writes(r, l, row) /\ row.deleted /\ row.by = leave[l].by
            /\ UNCHANGED disturbed
    BY <1>3, SoftDeleteHow
  <2> QED
    BY <2>1, LeavingRefines DEF Writes
<1> QED
  BY <1>1, <1>2, <1>3, WritersOnly, InsertRefines, DecideRefines

(* The leaves, as their rows show them, follow the workflow: a leave is    *)
(* decided once, by somebody else than its employee, can be cancelled      *)
(* until it is rejected or cancelled, and is final then, unless HR edits   *)
(* or deletes it or a decision overtakes another write.                    *)
THEOREM WorkflowHolds == Spec => ImplementsWorkflow
<1>1. IInv /\ [Next]_vars => [Workflow!Next]_<<PhaseMap, OwnerMap, DeciderMap>>
  BY WorkflowNext
<1> QED
  BY <1>1, WorkflowInit, Invariance, PTL
  DEF Spec, ImplementsWorkflow, Workflow!Spec, PhaseMap, OwnerMap, DeciderMap

(* The inductive part of "nobody decides their own leave": before a leave  *)
(* is decided nobody is written as its decider, and who decides it is not  *)
(* its employee.  It is preserved by the steps of LeaveLifecycle.          *)
OthersDecide ==
    \A l \in LeaveIds :
        /\ Phase(l) \in {"none", "PENDING"} => leave[l].by = Nil
        /\ Phase(l) \in {"APPROVED", "REJECTED"} =>
               leave[l].by = Nil \/ leave[l].by # leave[l].who

LEMMA OthersDecideNext ==
    ASSUME OthersDecide,
           [Workflow!Next]_<<PhaseMap, OwnerMap, DeciderMap>>
    PROVE  OthersDecide'
<1> DEFINE Same(l) == /\ Phase(l)' = Phase(l)
                      /\ leave'[l].who = leave[l].who
                      /\ leave'[l].by = leave[l].by
<1>0. \A l \in LeaveIds : /\ PhaseMap[l] = Phase(l) /\ PhaseMap'[l] = Phase(l)'
                          /\ OwnerMap[l] = leave[l].who
                          /\ OwnerMap'[l] = leave'[l].who
                          /\ DeciderMap[l] = leave[l].by
                          /\ DeciderMap'[l] = leave'[l].by
  BY DEF PhaseMap, OwnerMap, DeciderMap
<1> SUFFICES ASSUME NEW l \in LeaveIds
             PROVE  /\ Phase(l)' \in {"none", "PENDING"} => leave'[l].by = Nil
                    /\ Phase(l)' \in {"APPROVED", "REJECTED"} =>
                           leave'[l].by = Nil \/ leave'[l].by # leave'[l].who
  BY DEF OthersDecide
<1>1. CASE Same(l)
  BY <1>1 DEF OthersDecide
<1>2. CASE ~Same(l)
  <2>1. PICK x \in LeaveIds :
          \/ Workflow!File(x) \/ Workflow!Decide(x) \/ Workflow!Cancel(x)
          \/ Workflow!Leave(x) \/ Workflow!Outside(x)
    BY <1>0, <1>2 DEF Workflow!Next
  <2>2. x = l
    <3> SUFFICES ASSUME x # l PROVE Same(l)
      BY <1>2
    <3>1. /\ PhaseMap'[l] = PhaseMap[l] /\ OwnerMap'[l] = OwnerMap[l]
          /\ DeciderMap'[l] = DeciderMap[l]
      BY <2>1 DEF Workflow!File, Workflow!Decide, Workflow!Cancel,
         Workflow!Leave, Workflow!Outside, Workflow!Becomes, PhaseMap,
         OwnerMap, DeciderMap
    <3> QED
      BY <1>0, <3>1
  <2>3. CASE Workflow!File(l)
    <3>1. PhaseMap[l] = "none" /\ DeciderMap'[l] = DeciderMap[l]
      BY <2>3 DEF Workflow!File, PhaseMap, DeciderMap
    <3> QED
      BY <1>0, <3>1 DEF OthersDecide
  <2>4. CASE Workflow!Decide(l)
    <3>1. /\ PhaseMap'[l] \in {"APPROVED", "REJECTED"}
          /\ OwnerMap'[l] = OwnerMap[l] /\ DeciderMap'[l] # OwnerMap[l]
      BY <2>4 DEF Workflow!Decide, Workflow!Becomes, PhaseMap, OwnerMap,
         DeciderMap
    <3> QED
      BY <1>0, <3>1
  <2>5. CASE Workflow!Cancel(l) \/ Workflow!Leave(l) \/ Workflow!Outside(l)
    <3>1. PhaseMap'[l] \in {"CANCELLED", "off"}
      BY <2>5 DEF Workflow!Cancel, Workflow!Leave, Workflow!Outside,
         Workflow!Becomes, PhaseMap, DeciderMap
    <3> QED
      BY <1>0, <3>1
  <2> QED
    BY <2>1, <2>2, <2>3, <2>4, <2>5
<1> QED
  BY <1>1, <1>2

(* Nobody approves or rejects their own leave: as long as a leave is in    *)
(* the workflow, an approval or rejection that names its author names      *)
(* somebody else than its employee, however the requests interleave.  A    *)
(* consequence of WorkflowHolds, not of the code's guard directly.         *)
THEOREM NobodyDecidesTheirOwn ==
    Spec => [](\A l \in LeaveIds :
                 /\ l \notin disturbed /\ ~leave[l].deleted
                 /\ leave[l].status \in {"APPROVED", "REJECTED"}
                 /\ leave[l].by # Nil
                 => leave[l].by # leave[l].who)
<1>1. Workflow!Init => OthersDecide
  BY DEF Workflow!Init, OthersDecide
<1>2. /\ OthersDecide /\ [Workflow!Next]_<<PhaseMap, OwnerMap, DeciderMap>>
      => OthersDecide'
  BY OthersDecideNext
<1>3. OthersDecide =>
        \A l \in LeaveIds :
           /\ l \notin disturbed /\ ~leave[l].deleted
           /\ leave[l].status \in {"APPROVED", "REJECTED"}
           /\ leave[l].by # Nil
           => leave[l].by # leave[l].who
  BY DEF OthersDecide, Phase
<1> QED
  BY <1>1, <1>2, <1>3, WorkflowHolds, PTL
  DEF ImplementsWorkflow, Workflow!Spec, PhaseMap, OwnerMap, DeciderMap

(* A rejected or cancelled leave comes back only by HR's edit, or by a     *)
(* decision that had read it before: what it gave back to the balance is   *)
(* not taken again otherwise.  A consequence of WorkflowHolds too.         *)
THEOREM OutcomesAreFinal ==
    Spec => [][\A l \in LeaveIds :
                 /\ l \notin disturbed /\ ~leave[l].deleted
                 /\ leave[l].status \in {"REJECTED", "CANCELLED"}
                 => \/ leave'[l].status = leave[l].status
                    \/ leave'[l].deleted \/ l \in disturbed']_vars
<1> DEFINE Final == \A l \in LeaveIds :
                 /\ l \notin disturbed /\ ~leave[l].deleted
                 /\ leave[l].status \in {"REJECTED", "CANCELLED"}
                 => \/ leave'[l].status = leave[l].status
                    \/ leave'[l].deleted \/ l \in disturbed'
<1>1. ASSUME IInv', [Workflow!Next]_<<PhaseMap, OwnerMap, DeciderMap>>
      PROVE  [Final]_vars
  <2>0. \A l \in LeaveIds : leave'[l].status # "off"
    BY <1>1 DEF IInv, TypeOK, Row, Statuses
  <2> SUFFICES ASSUME NEW l \in LeaveIds,
                      Phase(l) \in {"REJECTED", "CANCELLED"}
               PROVE  Phase(l)' \in {Phase(l), "off"}
    BY <2>0 DEF Phase
  <2>1. PhaseMap[l] = Phase(l) /\ PhaseMap'[l] = Phase(l)'
    BY DEF PhaseMap
  <2>2. ASSUME NEW x \in LeaveIds,
               \/ Workflow!File(x) \/ Workflow!Decide(x) \/ Workflow!Cancel(x)
               \/ Workflow!Leave(x) \/ Workflow!Outside(x)
        PROVE  PhaseMap'[l] \in {PhaseMap[l], "off"}
    BY <2>1, <2>2 DEF Workflow!File, Workflow!Decide, Workflow!Cancel,
       Workflow!Leave, Workflow!Outside, Workflow!Becomes, PhaseMap
  <2> QED
    BY <1>1, <2>1, <2>2 DEF Workflow!Next
<1> QED
  BY <1>1, WorkflowHolds, Invariance, PTL
  DEF ImplementsWorkflow, Workflow!Spec, PhaseMap, OwnerMap, DeciderMap

-----------------------------------------------------------------------------
(* Telling the outcome.                                                    *)

(* Request r announces, or died before it announced, the status of leave l.*)
Announces(r, l) ==
    req[r].leave = l /\ req[r].op = leave[l].status /\ req[r].step \in {"tell", "failed"}

Heard(l) == leave[l].by # Nil =>
    leave[l].status \in told[l] \/ \E r \in Reqs : Announces(r, l)

(* A step that does not decide leave l, nor ends its announcement unheard. *)
LEMMA StillHeard ==
    ASSUME OutcomeIsTold, NEW r \in Reqs, NEW l \in LeaveIds,
           l \notin lost, l \notin disturbed,
           \A q \in Reqs \ {r} : req'[q] = req[q],
           leave'[l].status = leave[l].status, leave'[l].by = leave[l].by,
           told[l] \subseteq told'[l],
           Announces(r, l) => Announces(r, l)' \/ leave[l].status \in told'[l]
    PROVE  Heard(l)'
<1>1. Heard(l)
  BY DEF OutcomeIsTold, Heard, Announces
<1>2. \A q \in Reqs \ {r} : Announces(q, l) => Announces(q, l)'
  BY DEF Announces
<1> QED
  BY <1>1, <1>2 DEF Heard

LEMMA QuietStillHeard ==
    ASSUME IInv, OutcomeIsTold, NEW r \in Reqs, NEW l \in LeaveIds,
           l \notin lost, l \notin disturbed,
           \A q \in Reqs \ {r} : req'[q] = req[q],
           req[r].step \notin {"tell", "failed"}, UNCHANGED <<leave, told>>
    PROVE  Heard(l)'
  BY StillHeard DEF Announces

LEMMA OutcomeStep ==
    ASSUME IInv, OutcomeIsTold, [Next]_vars
    PROVE  OutcomeIsTold'
<1> SUFFICES ASSUME NEW l \in LeaveIds, l \notin lost', l \notin disturbed'
             PROVE  Heard(l)'
  BY DEF OutcomeIsTold, Heard, Announces
<1>1. CASE UNCHANGED vars \/ SetPolicy \/ NewYear
  <2>1. UNCHANGED <<leave, req, notices, disturbed>>
    BY <1>1 DEF vars, SetPolicy, NewYear
  <2> QED
    BY <2>1 DEF notices, OutcomeIsTold, Heard, Announces
<1>2. ASSUME NEW r \in Reqs, Apply(r) \/ Transition(r) \/ Edit(r) \/ Remove(r)
      PROVE  Heard(l)'
  <2>1. Begins(r)
    BY <1>2, ApplyBegins, TransitionBegins, HrBegins
  <2> QED
    BY <2>1, QuietStillHeard DEF Begins, At, notices
<1>3. ASSUME NEW r \in Reqs, ReadPolicy(r)
      PROVE  Heard(l)'
  BY <1>3, ReadPolicyHow, QuietStillHeard DEF At, notices
<1>4. ASSUME NEW r \in Reqs, CheckBalance(r)
      PROVE  Heard(l)'
  BY <1>4, CheckBalanceHow, QuietStillHeard DEF At, notices
<1>5. ASSUME NEW r \in Reqs, Ask(r)
      PROVE  Heard(l)'
  <2>1. l \notin lost /\ l \notin disturbed
    BY <1>5, AskHow
  <2> QED
    BY <1>5, <2>1, AskHow, GoToReq, QuietStillHeard DEF IInv, At, Steps
<1>6. ASSUME NEW r \in Reqs, Abort(r)
      PROVE  Heard(l)'
  <2>1. GoTo(r, "failed") /\ UNCHANGED <<leave, notices, disturbed>>
    BY <1>6 DEF Abort
  <2>2. Announces(r, l) => Announces(r, l)'
    BY <2>1, GoToReq DEF IInv, Announces, Steps
  <2> QED
    BY <2>1, <2>2, GoToReq, StillHeard DEF IInv, notices, Steps
<1>7. ASSUME NEW r \in Reqs, Tell(r)
      PROVE  Heard(l)'
  <2>1. PICK k \in LeaveIds :
            /\ k = req[r].leave
            /\ \/ told' = [told EXCEPT ![k] = @ \cup {req[r].op}] /\ UNCHANGED lost
               \/ lost' = lost \cup {k} /\ UNCHANGED told
            /\ GoTo(r, "done") /\ UNCHANGED <<leave, disturbed>>
    BY <1>7, TellHow
  <2>2. told[l] \subseteq told'[l] /\ l \notin lost /\ l \notin disturbed
    BY <2>1 DEF IInv, TypeOK
  <2>3. Announces(r, l) => leave[l].status \in told'[l]
    BY <2>1 DEF Announces, IInv, TypeOK
  <2> QED
    BY <2>1, <2>2, <2>3, GoToReq, StillHeard DEF IInv, Steps
<1>8. ASSUME NEW r \in Reqs, Insert(r)
      PROVE  Heard(l)'
  <2>1. PICK row \in Row :
            /\ At(r, "insert") /\ row.by = Nil /\ leave[r] = NoRow
            /\ leave' = [leave EXCEPT ![r] = row] /\ GoTo(r, "done")
            /\ UNCHANGED <<notices, disturbed>>
    BY <1>8, InsertHow
  <2>2. CASE l = r
    <3>1. leave'[l].by = Nil
      BY <2>1, <2>2 DEF IInv, TypeOK
    <3> QED
      BY <3>1 DEF Heard
  <2>3. CASE l # r
    <3>1. leave'[l] = leave[l] /\ l \notin lost /\ ~Announces(r, l)
      BY <2>1, <2>3 DEF notices, IInv, TypeOK, Announces, At
    <3> QED
      BY <2>1, <3>1, GoToReq, StillHeard DEF notices, IInv, Steps
  <2> QED
    BY <2>2, <2>3
<1>9. ASSUME NEW r \in Reqs, Decide(r)
      PROVE  Heard(l)'
  <2>1. PICK k \in LeaveIds, row \in Row :
            /\ Writes(r, k, row) /\ At(r, "decide") /\ row.status = req[r].op
            /\ disturbed' = IF leave[k] = req[r].row THEN disturbed
                            ELSE disturbed \cup {k}
            /\ GoTo(r, "tell") /\ UNCHANGED notices
    BY <1>9, DecideHow
  <2>2. /\ k = req[r].leave /\ leave'[k] = row
        /\ \A x \in LeaveIds \ {k} : leave'[x] = leave[x]
    BY <2>1 DEF Writes, IInv, TypeOK
  <2>3. CASE l = k
    <3>1. Announces(r, l)'
      BY <2>1, <2>2, <2>3, GoToReq DEF IInv, Announces, Steps
    <3> QED
      BY <3>1 DEF Heard
  <2>4. CASE l # k
    <3>1. leave'[l] = leave[l] /\ l \notin lost /\ l \notin disturbed /\ ~Announces(r, l)
      BY <2>1, <2>2, <2>4 DEF notices, Announces, At
    <3> QED
      BY <2>1, <3>1, GoToReq, StillHeard DEF notices, IInv, Steps
  <2> QED
    BY <2>3, <2>4
<1>10. ASSUME NEW r \in Reqs, Update(r)
       PROVE  Heard(l)'
  <2>1. PICK k \in LeaveIds, row \in Row :
            /\ Writes(r, k, row) /\ At(r, "update")
            /\ disturbed' = disturbed \cup {k}
            /\ GoTo(r, "done") /\ UNCHANGED notices
    BY <1>10, UpdateHow
  <2>2. leave'[l] = leave[l] /\ l \notin lost /\ l \notin disturbed /\ ~Announces(r, l)
    BY <2>1 DEF Writes, IInv, TypeOK, notices, Announces, At
  <2> QED
    BY <2>1, <2>2, GoToReq, StillHeard DEF notices, IInv, Steps
<1>11. ASSUME NEW r \in Reqs, SoftDelete(r)
       PROVE  Heard(l)'
  <2>1. PICK k \in LeaveIds, row \in Row :
            /\ Writes(r, k, row) /\ At(r, "delete")
            /\ row.by = leave[k].by /\ row.status = leave[k].status
            /\ GoTo(r, "done") /\ UNCHANGED <<notices, disturbed>>
    BY <1>11, SoftDeleteHow
  <2>2. /\ leave'[l].status = leave[l].status /\ leave'[l].by = leave[l].by
        /\ l \notin lost /\ l \notin disturbed /\ ~Announces(r, l)
    BY <2>1 DEF Writes, IInv, TypeOK, notices, Announces, At
  <2> QED
    BY <2>1, <2>2, GoToReq, StillHeard DEF notices, IInv, Steps
<1> QED
  BY <1>1, <1>2, <1>3, <1>4, <1>5, <1>6, <1>7, <1>8, <1>9, <1>10, <1>11 DEF Next

(* The applicant hears of the status the workflow has given a leave, or    *)
(* its announcement is under way, was lost, or died with its request.      *)
THEOREM OutcomesTold == Spec => []OutcomeIsTold
<1>1. Init => OutcomeIsTold
  <2> SUFFICES ASSUME Init PROVE OutcomeIsTold
    OBVIOUS
  <2>1. \A l \in LeaveIds : leave[l].by = Nil
    BY DEF Init, NoRow
  <2> QED
    BY <2>1 DEF OutcomeIsTold
<1>2. IInv /\ OutcomeIsTold /\ [Next]_vars => OutcomeIsTold'
  BY OutcomeStep
<1> QED
  BY <1>1, <1>2, Invariance, PTL DEF Spec

-----------------------------------------------------------------------------
(* Deleted leaves.                                                         *)

Writing == {"decide", "update", "delete"}

(* A request that has begun reads no other leave.                          *)
LEMMA LaterReadsNone ==
    ASSUME IInv, NEW r \in Reqs,
           \/ ReadPolicy(r) \/ CheckBalance(r) \/ Ask(r) \/ Insert(r)
           \/ Decide(r) \/ Tell(r) \/ Update(r) \/ SoftDelete(r) \/ Abort(r)
    PROVE  /\ \A q \in Reqs \ {r} : req'[q] = req[q]
           /\ req'[r].step \notin Writing
<1>1. CASE ReadPolicy(r) \/ CheckBalance(r)
  BY <1>1, ReadPolicyHow, CheckBalanceHow DEF Writing
<1>2. CASE ~ReadPolicy(r) /\ ~CheckBalance(r)
  <2>1. \E p \in {"insert", "tell", "done", "failed"} : GoTo(r, p)
    BY <1>2 DEF Ask, Insert, Decide, Tell, Update, SoftDelete, Abort
  <2> QED
    BY <2>1, GoToReq DEF IInv, Steps, Writing
<1> QED
  BY <1>1, <1>2

LEMMA FrozenStep ==
    ASSUME IInv, [Next]_vars, NEW l \in LeaveIds, Buried(l)
    PROVE  leave'[l] = leave[l] /\ Buried(l)'
<1>1. leave[l].deleted /\ \A r \in Reqs : ~Holds(r, l)
  BY DEF Buried
<1>2. CASE UNCHANGED vars \/ SetPolicy \/ NewYear
  BY <1>1, <1>2 DEF vars, SetPolicy, NewYear, Buried, Holds
<1>3. ASSUME NEW r \in Reqs, Apply(r) \/ Transition(r) \/ Edit(r) \/ Remove(r)
      PROVE  leave'[l] = leave[l] /\ Buried(l)'
  <2>1. Begins(r)
    BY <1>3, ApplyBegins, TransitionBegins, HrBegins
  <2>2. ~Holds(r, l)'
    BY <1>1, <2>1 DEF Begins, Held, Holds, Exists
  <2> QED
    BY <1>1, <2>1, <2>2 DEF Begins, Buried, Holds
<1>4. ASSUME NEW r \in Reqs,
             \/ ReadPolicy(r) \/ CheckBalance(r) \/ Ask(r) \/ Insert(r)
             \/ Decide(r) \/ Tell(r) \/ Update(r) \/ SoftDelete(r) \/ Abort(r)
      PROVE  leave'[l] = leave[l] /\ Buried(l)'
  <2>1. leave'[l] = leave[l]
    <3>1. CASE ReadPolicy(r) \/ CheckBalance(r) \/ Ask(r) \/ Tell(r) \/ Abort(r)
      BY <3>1 DEF ReadPolicy, CheckBalance, Judge, Ask, Tell, Abort
    <3>2. CASE Insert(r)
      <4>1. leave[r].deleted = FALSE /\ \E row : leave' = [leave EXCEPT ![r] = row]
        BY <3>2, InsertHow DEF NoRow
      <4> QED
        BY <1>1, <4>1 DEF IInv, TypeOK
    <3>3. ASSUME NEW k \in LeaveIds, NEW row \in Row, Writes(r, k, row),
                 req[r].step \in Writing
          PROVE  leave'[l] = leave[l]
      <4>1. k # l
        BY <1>1, <3>3 DEF Writes, Writing, Holds
      <4> QED
        BY <3>3, <4>1 DEF Writes, IInv, TypeOK
    <3>4. CASE Decide(r)
      BY <3>3, <3>4, DecideHow DEF At, Writing
    <3>5. CASE Update(r)
      BY <3>3, <3>5, UpdateHow DEF At, Writing
    <3>6. CASE SoftDelete(r)
      BY <3>3, <3>6, SoftDeleteHow DEF At, Writing
    <3> QED
      BY <1>4, <3>1, <3>2, <3>4, <3>5, <3>6
  <2>2. ~Holds(r, l)' /\ \A q \in Reqs \ {r} : ~Holds(q, l)'
    BY <1>1, <1>4, LaterReadsNone DEF Holds, Writing
  <2> QED
    BY <1>1, <2>1, <2>2 DEF Buried
<1> QED
  BY <1>2, <1>3, <1>4 DEF Next

(* A deleted leave changes no more, once the requests that had read it     *)
(* before are over: none can read it again.                                *)
THEOREM DeletedStayPut == Spec => DeletedLeaveIsFrozen
<1>1. IInv /\ [Next]_vars =>
        [\A l \in LeaveIds : Buried(l) => leave'[l] = leave[l] /\ Buried(l)']_vars
  BY FrozenStep
<1> QED
  BY <1>1, Invariance, PTL DEF Spec, DeletedLeaveIsFrozen

-----------------------------------------------------------------------------
(* The allowance.                                                          *)

Admitted(e, y) == Consuming(e, y) \ unchecked

LEMMA AdmittedTyped ==
    ASSUME IInv, NEW e, NEW y
    PROVE  /\ IsFiniteSet(Admitted(e, y)) /\ Admitted(e, y) \subseteq LeaveIds
           /\ \A l \in LeaveIds : leave[l].days \in Nat
<1>1. Admitted(e, y) \subseteq LeaveIds
  BY DEF Admitted, Consuming
<1> QED
  BY <1>1, LeavesFinite DEF IInv, TypeOK, Row

Fits(T) == T # {} => \E l \in T : Days(T) <= AdmittedUnder(l)

(* The inductive form.  Leaves leave the set in any order, so every part   *)
(* of it must fit: its last admitted leave was judged beside the others.   *)
EveryPartFits ==
    \A e \in People, y \in 0..MaxYear :
        \A T \in SUBSET Admitted(e, y) : Fits(T)

(* What a leave was admitted under stays.                                  *)
LEMMA AllowanceStays ==
    ASSUME IInv, [Next]_vars, NEW l \in LeaveIds, leave[l].status # "none"
    PROVE  AdmittedUnder(l)' = AdmittedUnder(l)
<1>1. CASE l \in OldLeaves \/ UNCHANGED vars \/ SetPolicy \/ NewYear
  BY <1>1 DEF AdmittedUnder, vars, SetPolicy, NewYear
<1>2. CASE l \notin OldLeaves /\ \E r \in Reqs :
               \/ Apply(r) \/ ReadPolicy(r) \/ CheckBalance(r) \/ Ask(r)
               \/ Insert(r) \/ Transition(r) \/ Decide(r) \/ Tell(r)
               \/ Edit(r) \/ Update(r) \/ Remove(r) \/ SoftDelete(r)
               \/ Abort(r)
  <2>1. l \in Reqs /\ req[l].step \notin {"idle", "policy"}
    BY <1>2 DEF LeaveIds, IInv, RequestsCarry, Carries
  <2>2. ASSUME NEW r \in Reqs,
               Apply(r) \/ Transition(r) \/ Edit(r) \/ Remove(r)
        PROVE  req'[l] = req[l]
    BY <2>1, <2>2, ApplyBegins, TransitionBegins, HrBegins DEF Begins, At
  <2>3. ASSUME NEW r \in Reqs, ReadPolicy(r)
        PROVE  req'[l] = req[l]
    BY <2>1, <2>3, ReadPolicyHow DEF At
  <2>4. ASSUME NEW r \in Reqs, CheckBalance(r)
        PROVE  req'[l].allowance = req[l].allowance
    BY <2>1, <2>4, CheckBalanceHow
  <2>5. ASSUME NEW r \in Reqs,
               \/ Ask(r) \/ Insert(r) \/ Decide(r) \/ Tell(r) \/ Update(r)
               \/ SoftDelete(r) \/ Abort(r)
        PROVE  req'[l].allowance = req[l].allowance
    <3>1. PICK p \in Steps : GoTo(r, p)
      BY <2>5 DEF Ask, Insert, Decide, Tell, Update, SoftDelete, Abort, Steps
    <3> QED
      BY <2>1, <3>1, GoToReq DEF IInv
  <2> QED
    BY <1>2, <2>2, <2>3, <2>4, <2>5 DEF AdmittedUnder
<1> QED
  BY <1>1, <1>2 DEF Next

(* Leaves that were admitted before and count for as many days.            *)
LEMMA PartStays ==
    ASSUME IInv, [Next]_vars, EveryPartFits,
           NEW e \in People, NEW y \in 0..MaxYear,
           NEW T \in SUBSET Admitted(e, y),
           \A l \in T : leave'[l].days = leave[l].days
    PROVE  T # {} => \E l \in T : DaysOf(leave', T) <= AdmittedUnder(l)'
<1>1. /\ IsFiniteSet(T)
      /\ \A l \in T : l \in LeaveIds /\ leave[l].status # "none"
  <2>1. \A l \in T : l \in LeaveIds /\ leave[l].status # "none"
    BY DEF Admitted, Consuming, Exists
  <2> QED
    BY <2>1, AdmittedTyped, FS_Subset
<1>2. DaysOf(leave', T) = DaysOf(leave, T)
  BY <1>1, DaysSame
<1>3. \A l \in T : AdmittedUnder(l)' = AdmittedUnder(l)
  BY <1>1, AllowanceStays
<1>4. T # {} => \E l \in T : DaysOf(leave, T) <= AdmittedUnder(l)
  BY DEF EveryPartFits, Fits, Days
<1> QED
  BY <1>2, <1>3, <1>4

(* A step after which no more leaves count, and those for no more days.    *)
LEMMA FitShrinks ==
    ASSUME IInv, [Next]_vars, EveryPartFits,
           NEW e \in People, NEW y \in 0..MaxYear,
           Admitted(e, y)' \subseteq Admitted(e, y),
           \A l \in Admitted(e, y)' : leave'[l].days = leave[l].days
    PROVE  \A T \in SUBSET Admitted(e, y)' : Fits(T)'
<1> SUFFICES ASSUME NEW T \in SUBSET Admitted(e, y)'
             PROVE  T # {} => \E l \in T : DaysOf(leave', T) <= AdmittedUnder(l)'
  BY DEF Fits, Days
<1> QED
  BY PartStays

LEMMA InsertFits ==
    ASSUME IInv, IInv', [Next]_vars, EveryPartFits,
           NEW r \in Reqs, Insert(r), NEW e \in People, NEW y \in 0..MaxYear
    PROVE  \A T \in SUBSET Admitted(e, y)' : Fits(T)'
<1> SUFFICES ASSUME NEW T \in SUBSET Admitted(e, y)'
             PROVE  T # {} => \E l \in T : DaysOf(leave', T) <= AdmittedUnder(l)'
  BY DEF Fits, Days
<1>1. PICK row \in Row :
          /\ At(r, "insert") /\ row = req[r].row
          /\ leave' = [leave EXCEPT ![r] = row] /\ GoTo(r, "done")
          /\ unchecked' \in {unchecked, unchecked \cup {r}}
  BY InsertHow
<1>2. /\ r \in LeaveIds /\ leave'[r] = row
      /\ \A l \in LeaveIds \ {r} : leave'[l] = leave[l]
  BY <1>1 DEF IInv, TypeOK, LeaveIds
<1>3. Admitted(e, y)' \ {r} \subseteq Admitted(e, y)
  BY <1>1, <1>2 DEF Admitted, Consuming, Exists
<1>4. CASE r \notin T
  <2>1. T \subseteq Admitted(e, y)
    BY <1>3, <1>4
  <2>2. \A l \in T : leave'[l].days = leave[l].days
    BY <1>2, <1>4, <2>1, AdmittedTyped
  <2> QED
    BY <2>1, <2>2, PartStays
<1>5. CASE r \in T
  <2>1. r \notin unchecked' /\ row.who = e /\ row.year = y
    BY <1>2, <1>5 DEF Admitted, Consuming
  <2>2. Days(Consuming(e, y)) <= req[r].seen
    BY <1>1, <2>1 DEF Insert
  <2>3. PICK S, U : S = Consuming(e, y) /\ U = T \ {r}
    OBVIOUS
  <2>4. /\ IsFiniteSet(S) /\ IsFiniteSet(T) /\ IsFiniteSet(U)
        /\ U \subseteq S
        /\ \A l \in S : leave[l].days \in Nat
        /\ \A l \in T : leave'[l].days \in Nat
        /\ \A l \in U : leave'[l].days = leave[l].days
    <3>1. S \subseteq LeaveIds /\ T \subseteq LeaveIds /\ U \subseteq LeaveIds
      BY <2>3 DEF Consuming, Admitted
    <3>2. U \subseteq S
      BY <1>3, <2>3 DEF Admitted
    <3>3. IsFiniteSet(S) /\ IsFiniteSet(T) /\ IsFiniteSet(U)
      BY <3>1, LeavesFinite
    <3>4. \A l \in LeaveIds : leave[l].days \in Nat /\ leave'[l].days \in Nat
      BY DEF IInv, TypeOK, Row
    <3>5. \A l \in U : leave'[l].days = leave[l].days
      BY <1>2, <2>3, <3>1
    <3> QED
      BY <3>1, <3>2, <3>3, <3>4, <3>5
  <2>5. DaysOf(leave', T) = row.days + DaysOf(leave', U)
    BY <1>2, <1>5, <2>3, <2>4, DaysTake
  <2>6. DaysOf(leave', U) = DaysOf(leave, U)
    BY <2>4, DaysSame
  <2>7. DaysOf(leave, U) <= DaysOf(leave, S)
    BY <2>4, DaysMonotone
  <2>8. DaysOf(leave, S) <= req[r].seen
    BY <2>2, <2>3 DEF Days
  <2>9. /\ DaysOf(leave, U) \in Nat /\ DaysOf(leave, S) \in Nat
        /\ req[r].seen \in Int /\ row.days \in Nat /\ req[r].allowance \in Nat
    <3>1. DaysOf(leave, S) \in Nat
      BY <2>4, DaysNat
    <3>2. \A l \in U : leave[l].days \in Nat
      BY <2>4
    <3>3. DaysOf(leave, U) \in Nat
      BY <2>4, <3>2, DaysNat
    <3>4. req[r].seen \in Int /\ req[r].allowance \in Nat
      BY DEF IInv, TypeOK, Request
    <3> QED
      BY <3>1, <3>3, <3>4 DEF Row
  <2>10. req[r].seen >= 0
    BY <2>8, <2>9
  <2>11. row.days <= req[r].allowance - req[r].seen
    BY <1>1, <2>10 DEF IInv, RequestsCarry, Carries, At
  <2>12. DaysOf(leave', T) <= req[r].allowance
    BY <2>5, <2>6, <2>7, <2>8, <2>9, <2>11
  <2>13. AdmittedUnder(r)' = req[r].allowance
    <3>1. r \notin OldLeaves /\ req'[r].allowance = req[r].allowance
      BY <1>1, GoToReq, LeavesAssumption DEF IInv, Steps
    <3> QED
      BY <3>1 DEF AdmittedUnder
  <2> QED
    BY <1>5, <2>12, <2>13
<1> QED
  BY <1>4, <1>5

LEMMA FitStep ==
    ASSUME IInv, IInv', EveryPartFits, [Next]_vars
    PROVE  EveryPartFits'
<1> SUFFICES ASSUME NEW e \in People, NEW y \in 0..MaxYear
             PROVE  \A T \in SUBSET Admitted(e, y)' : Fits(T)'
  BY DEF EveryPartFits
<1>1. CASE UNCHANGED <<leave, unchecked>>
  <2>1. Admitted(e, y)' = Admitted(e, y)
    BY <1>1 DEF Admitted, Consuming, Exists
  <2> QED
    BY <1>1, <2>1, FitShrinks
<1>2. ASSUME NEW r \in Reqs, NEW l \in LeaveIds, NEW row \in Row,
             Writes(r, l, row), unchecked \subseteq unchecked',
             \/ l \in unchecked'
             \/ row.deleted /\ row.days = leave[l].days
             \/ /\ row.days = leave[l].days
                /\ l \in Consuming(leave[l].who, leave[l].year)
      PROVE  \A T \in SUBSET Admitted(e, y)' : Fits(T)'
  <2>1. leave'[l] = row /\ \A k \in LeaveIds \ {l} : leave'[k] = leave[k]
    BY <1>2 DEF Writes, IInv, TypeOK
  <2>2. ASSUME NEW k \in Admitted(e, y)'
        PROVE  k \in Admitted(e, y) /\ leave'[k].days = leave[k].days
    <3>1. CASE k # l
      BY <1>2, <2>1, <2>2, <3>1 DEF Admitted, Consuming, Exists
    <3>2. CASE k = l
      <4>1. l \notin unchecked' /\ ~row.deleted /\ row.who = e /\ row.year = y
        BY <2>1, <2>2, <3>2 DEF Admitted, Consuming, Exists
      <4>2. row.days = leave[l].days /\ l \in Consuming(e, y)
        BY <1>2, <4>1 DEF Writes
      <4> QED
        BY <1>2, <2>1, <3>2, <4>1, <4>2 DEF Admitted
    <3> QED
      BY <3>1, <3>2
  <2> QED
    BY <2>2, FitShrinks
<1>3. ASSUME NEW r \in Reqs, Decide(r)
      PROVE  \A T \in SUBSET Admitted(e, y)' : Fits(T)'
  <2>1. PICK l \in LeaveIds, row \in Row :
            Writes(r, l, row) /\ row.days = leave[l].days /\ Unguarded(l)
    BY <1>3, DecideHow
  <2>2. /\ unchecked \subseteq unchecked'
        /\ l \in unchecked' \/ l \in Consuming(leave[l].who, leave[l].year)
    BY <2>1 DEF Unguarded
  <2> QED
    BY <1>2, <2>1, <2>2
<1>4. ASSUME NEW r \in Reqs, Update(r)
      PROVE  \A T \in SUBSET Admitted(e, y)' : Fits(T)'
  <2>1. PICK l \in LeaveIds, row \in Row :
            Writes(r, l, row) /\ unchecked' = unchecked \cup {l}
    BY <1>4, UpdateHow
  <2> QED
    BY <1>2, <2>1
<1>5. ASSUME NEW r \in Reqs, SoftDelete(r)
      PROVE  \A T \in SUBSET Admitted(e, y)' : Fits(T)'
  <2>1. PICK l \in LeaveIds, row \in Row :
            /\ Writes(r, l, row) /\ row.deleted /\ row.days = leave[l].days
            /\ UNCHANGED unchecked
    BY <1>5, SoftDeleteHow
  <2> QED
    BY <1>2, <2>1
<1>6. CASE \/ UNCHANGED vars \/ SetPolicy \/ NewYear
           \/ \E r \in Reqs : \/ Apply(r) \/ ReadPolicy(r) \/ CheckBalance(r) \/ Ask(r)
                              \/ Transition(r) \/ Tell(r) \/ Edit(r) \/ Remove(r)
                              \/ Abort(r)
  <2>1. UNCHANGED <<leave, unchecked>>
    BY <1>6 DEF vars, SetPolicy, NewYear, Apply, ReadPolicy, CheckBalance, Judge, Ask,
       Transition, Tell, Edit, Remove, StartHr, Abort
  <2> QED
    BY <1>1, <2>1
<1> QED
  BY <1>3, <1>4, <1>5, <1>6, InsertFits DEF Next

LEMMA FitInit == Init => EveryPartFits
<1> SUFFICES ASSUME Init, NEW e \in People, NEW y \in 0..MaxYear,
                    NEW T \in SUBSET Admitted(e, y), T # {}
             PROVE  \E l \in T : Days(T) <= AdmittedUnder(l)
  BY DEF EveryPartFits, Fits
<1>1. PICK O : O = {l \in OldLeaves : Applicant[l] = e}
  OBVIOUS
<1>2. \A l \in OldLeaves : leave[l].who = Applicant[l] /\ leave[l].days = 1
  BY DEF Init, NoRow, LeaveIds
<1>3. \A l \in LeaveIds \ OldLeaves : leave[l].status = "none"
  BY DEF Init, NoRow
<1>4. T \subseteq O /\ \A l \in T : leave[l].days = 1
  BY <1>1, <1>2, <1>3 DEF Admitted, Consuming, Exists
<1>5. IsFiniteSet(OldLeaves)
  BY LeavesAssumption
<1>6. IsFiniteSet(O)
  BY <1>1, <1>5, FS_Subset
<1>7. IsFiniteSet(T) /\ Cardinality(T) <= Cardinality(O)
  BY <1>4, <1>6, FS_Subset
<1>8. Cardinality(O) <= Allowance
  BY <1>1, LeavesAssumption
<1>9. Cardinality(T) \in Nat /\ Cardinality(O) \in Nat /\ Allowance \in Nat
  BY <1>6, <1>7, FS_CardinalityType, LeavesAssumption
<1>10. DaysOf(leave, T) = Cardinality(T)
  BY <1>4, <1>7, DaysOfOne
<1>11. Days(T) <= Allowance
  BY <1>7, <1>8, <1>9, <1>10 DEF Days
<1>12. \A l \in T : AdmittedUnder(l) = Allowance
  BY <1>1, <1>4 DEF AdmittedUnder
<1> QED
  BY <1>11, <1>12

(* Of the leaves the balance guard has admitted, and nothing has changed   *)
(* since, one was admitted under an allowance that all of them fit,        *)
(* whatever else is applied for, decided, edited or deleted beside them,   *)
(* and whatever becomes of the policy.                                     *)
THEOREM AllowanceHolds == Spec => []AdmittedLeavesFit
<1>1. IInv /\ IInv' /\ EveryPartFits /\ [Next]_vars => EveryPartFits'
  BY FitStep
<1>2. EveryPartFits => AdmittedLeavesFit
  BY DEF EveryPartFits, Fits, Admitted, AdmittedLeavesFit
<1> QED
  BY <1>1, <1>2, FitInit, Invariance, PTL DEF Spec


(***************************************************************************)
(* The onboarding checklist.  BoardIInv is its inductive invariant.        *)
(***************************************************************************)

(* Math.round takes the share of tasks done to a percentage that is off by *)
(* half a percent at most.                                                 *)
LEMMA PercentIsNearest ==
    ASSUME NEW done \in Nat, NEW total \in Nat, done <= total, total # 0
    PROVE  /\ Percent(done, total) \in 0..100
           /\ 2 * total * Percent(done, total) <= 200 * done + total
           /\ 200 * done + total < 2 * total * (Percent(done, total) + 1)
<1> DEFINE k == (200 * done + total) \div (2 * total)
<1>1. /\ k \in Int
      /\ 2 * total * k <= 200 * done + total
      /\ 200 * done + total < 2 * total * (k + 1)
  OBVIOUS
<1>2. k >= 0
  <2>1. 0 < 2 * total * (k + 1)
    BY <1>1
  <2> QED
    BY <1>1, <2>1
<1>3. k <= 100
  <2>1. 2 * total * k <= 201 * total
    BY <1>1
  <2> SUFFICES ASSUME k >= 101 PROVE FALSE
    BY <1>1
  <2>2. 2 * total * k >= 2 * total * 101
    BY <1>1
  <2> QED
    BY <2>1, <2>2
<1> QED
  BY <1>1, <1>2, <1>3 DEF Percent

(* recomputeProgress derives progress and status from the same two counts, *)
(* one rounded, the other not.  On a checklist of fewer than 200 tasks     *)
(* they cannot disagree: 100 % is shown exactly when the onboarding is     *)
(* completed, and 0 % exactly when it has not started.  (199 of 200 tasks  *)
(* are 100 % and in progress.)                                             *)
THEOREM ShareTellsStatus ==
    ASSUME NEW done \in Nat, NEW total \in 1..199, done <= total
    PROVE  /\ Percent(done, total) = 100 <=> StatusOf(done, total) = "COMPLETED"
           /\ Percent(done, total) = 0 <=> StatusOf(done, total) = "NOT_STARTED"
<1>1. PICK k \in 0..100 : /\ k = Percent(done, total)
                          /\ 2 * total * k <= 200 * done + total
                          /\ 200 * done + total < 2 * total * (k + 1)
  <2>1. total \in Nat /\ total # 0
    OBVIOUS
  <2> QED
    BY <2>1, PercentIsNearest
<1>2. k = 100 <=> done = total
  <2>1. CASE k = 100
    <3>1. 200 * (total - done) <= total
      BY <1>1, <2>1
    <3> QED
      BY <2>1, <3>1
  <2>2. CASE done = total
    <3>1. SUFFICES ASSUME k <= 99 PROVE FALSE
      BY <2>2
    <3>2. 2 * total * (k + 1) <= 2 * total * 100
      BY <3>1
    <3> QED
      BY <1>1, <2>2, <3>2
  <2> QED
    BY <2>1, <2>2
<1>3. k = 0 <=> done = 0
  <2>1. CASE k = 0
    <3>1. 200 * done < total
      BY <1>1, <2>1
    <3> QED
      BY <2>1, <3>1
  <2>2. CASE done = 0
    <3>1. SUFFICES ASSUME k >= 1 PROVE FALSE
      BY <2>2
    <3>2. 2 * total * k >= 2 * total
      BY <3>1
    <3> QED
      BY <1>1, <2>2, <3>2
  <2> QED
    BY <2>1, <2>2
<1>4. /\ StatusOf(done, total) = "NOT_STARTED" <=> done = 0
      /\ StatusOf(done, total) = "COMPLETED" <=> done = total
  BY DEF StatusOf
<1> QED
  BY <1>1, <1>2, <1>3, <1>4

LEMMA TasksCounted ==
    /\ Cardinality(Done) \in Nat /\ Cardinality(Live) \in Nat
    /\ Cardinality(Done) <= Cardinality(Live)
    /\ Live # {} => Cardinality(Live) # 0
<1>1. IsFiniteSet(Tasks)
  BY OnboardingAssumption, FS_Union DEF Tasks
<1>2. Done \subseteq Live /\ Live \subseteq Tasks
  BY DEF Done, Live
<1>3. IsFiniteSet(Live)
  BY <1>1, <1>2, FS_Subset
<1>4. IsFiniteSet(Done)
  BY <1>2, <1>3, FS_Subset
<1>5. Cardinality(Done) \in Nat /\ Cardinality(Live) \in Nat
  BY <1>3, <1>4, FS_CardinalityType
<1>6. Cardinality(Done) <= Cardinality(Live)
  BY <1>2, <1>3, FS_Subset
<1>7. Live # {} => Cardinality(Live) # 0
  BY <1>3, FS_EmptySet
<1> QED
  BY <1>5, <1>6, <1>7

(* The request has counted the checklist and carries what it found.        *)
Counted(q) == q.step \in {"status", "write"}

(* What a request carries at its steps; only a creation runs while there   *)
(* is no record, and there is one creation at most.                        *)
CarriesEnough(r) ==
    LET q == call[r] IN
    /\ q.step \in {"insert", "seed"} => q.op = "create"
    /\ q.step = "change" =>
           q.op \in {"add", "tick", "untick", "drop"} /\ q.task \in Tasks
    /\ Counted(q) => q.status \in Progressions /\ q.progress \in 0..100
    /\ q.step = "insert" => onboarding.status = "none"
    /\ onboarding.status = "none" => q.step \in {"idle", "insert", "failed"}

OneCreates ==
    \A r, o \in Calls : call[r].op = "create" /\ call[o].op = "create" => r = o

(* A count that no change of the checklist has overtaken is what the       *)
(* checklist says.                                                         *)
CountHolds(r) ==
    r \notin changed /\ Counted(call[r]) =>
        LET done == Cardinality(Done)  total == Cardinality(Live) IN
        /\ Live # {}
        /\ call[r].progress = Percent(done, total)
        /\ call[r].status \in {"ON_HOLD", StatusOf(done, total)}

(* A recomputation about to take the record off hold was under way before. *)
HoldSeen(r) ==
    /\ onboarding.status = "ON_HOLD"
    /\ call[r].step = "write" /\ call[r].status # "ON_HOLD"
    => r \in early

BoardIInv ==
    /\ OnboardingTypeOK
    /\ OneCreates
    /\ \A r \in Calls : CarriesEnough(r) /\ CountHolds(r) /\ HoldSeen(r)

LEMMA BoardInit == OnboardingInit => BoardIInv
<1> SUFFICES ASSUME OnboardingInit PROVE BoardIInv
  OBVIOUS
<1>1. IdleCall \in Call
  BY DEF IdleCall, Call, CallSteps
<1>2. onboarding \in Record
  BY DEF Record, OnboardingInit
<1>3. /\ call \in [Calls -> Call]
      /\ task \in [Tasks -> {"none", "open", "done", "deleted"}]
  BY <1>1 DEF OnboardingInit
<1>4. OnboardingTypeOK
  BY <1>2, <1>3 DEF OnboardingInit, OnboardingTypeOK
<1>5. \A r \in Calls : call[r].step = "idle" /\ call[r].op = "none"
  BY DEF OnboardingInit, IdleCall
<1> QED
  BY <1>4, <1>5
  DEF BoardIInv, OneCreates, CarriesEnough, CountHolds, HoldSeen, Counted

LEMMA CallMoves ==
    ASSUME OnboardingTypeOK, NEW r \in Calls, NEW q \in Call,
           call' = [call EXCEPT ![r] = q]
    PROVE  /\ call' \in [Calls -> Call]
           /\ call'[r] = q
           /\ \A o \in Calls \ {r} : call'[o] = call[o]
  BY DEF OnboardingTypeOK

LEMMA GoToMoves ==
    ASSUME OnboardingTypeOK, NEW r \in Calls, NEW step \in CallSteps, CallGoesTo(r, step)
    PROVE  /\ call' \in [Calls -> Call]
           /\ call'[r] = [call[r] EXCEPT !.step = step]
           /\ call'[r].step = step /\ call'[r].op = call[r].op
           /\ call'[r].task = call[r].task /\ call'[r].status = call[r].status
           /\ call'[r].progress = call[r].progress
           /\ \A o \in Calls \ {r} : call'[o] = call[o]
<1>1. PICK q \in Call : q = call[r]
  BY DEF OnboardingTypeOK
<1>2. [q EXCEPT !.step = step] \in Call
  BY <1>1 DEF Call
<1>3. call' = [call EXCEPT ![r] = [q EXCEPT !.step = step]]
  BY <1>1 DEF CallGoesTo
<1> QED
  BY <1>1, <1>2, <1>3, CallMoves DEF Call

(* A request arrives.                                                      *)
LEMMA StartKeeps ==
    ASSUME BoardIInv, NEW r \in Calls,
           NEW op \in CallOps, NEW step \in {"insert", "put", "delete", "change"},
           NEW t \in Tasks \cup {NoTask}, NEW s \in Progressions \cup {Absent},
           NEW p \in (0..100) \cup {Absent},
           Start(r, op, step, t, s, p),
           step = "insert" <=> op = "create",
           step = "change" =>
               op \in {"add", "tick", "untick", "drop"} /\ t \in Tasks,
           IF op = "create"
           THEN onboarding.status = "none" /\ \A q \in Calls : call[q].op # "create"
           ELSE Found
    PROVE  BoardIInv'
<1> DEFINE q == [op |-> op, step |-> step, task |-> t, status |-> s, progress |-> p]
<1>1. q \in Call
  BY DEF Call, CallSteps
<1>2. /\ call' \in [Calls -> Call] /\ call'[r] = q
      /\ \A o \in Calls \ {r} : call'[o] = call[o]
      /\ UNCHANGED <<onboarding, task, onboardingHistory>>
  BY <1>1, CallMoves DEF Start, BoardIInv
<1>3. UNCHANGED <<Live, Done>>
  BY <1>2 DEF Live, Done
<1>4. OnboardingTypeOK'
  BY <1>2 DEF BoardIInv, OnboardingTypeOK, onboardingHistory
<1>5. OneCreates'
  BY <1>2 DEF BoardIInv, OneCreates
<1>6. ASSUME NEW o \in Calls
      PROVE  (CarriesEnough(o) /\ CountHolds(o) /\ HoldSeen(o))'
  <2>1. CASE o = r
    BY <1>2, <2>1 DEF CarriesEnough, CountHolds, HoldSeen, Counted, Found
  <2>2. CASE o # r
    BY <1>2, <1>3, <2>2
    DEF BoardIInv, CarriesEnough, CountHolds, HoldSeen, Counted, onboardingHistory
  <2> QED
    BY <2>1, <2>2
<1> QED
  BY <1>4, <1>5, <1>6 DEF BoardIInv

(* The record is written.                                                  *)
LEMMA PutMoves ==
    ASSUME OnboardingTypeOK, NEW s \in Progressions, NEW p \in 0..100, Put(s, p)
    PROVE  /\ onboarding' \in Record /\ onboarding'.status = s /\ onboarding'.progress = p
           /\ early' \subseteq Calls
           /\ s = "ON_HOLD" =>
                  \A o \in Calls : call[o].step \notin CallEnded \cup {"idle"} =>
                      IF onboarding.status = "ON_HOLD" THEN early' = early ELSE o \in early'
<1>1. PICK x \in Record : x = onboarding
  BY DEF OnboardingTypeOK
<1>2. onboarding' = [x EXCEPT !.status = s, !.progress = p]
  BY <1>1 DEF Put
<1>3. onboarding' \in Record /\ onboarding'.status = s /\ onboarding'.progress = p
  BY <1>2 DEF Record
<1> QED
  BY <1>3 DEF Put, OnboardingTypeOK

LEMMA PutKeeps ==
    ASSUME BoardIInv, NEW r \in Calls,
           NEW s \in Progressions, NEW p \in 0..100, NEW step \in {"seed", "done"},
           Put(s, p), CallGoesTo(r, step), UNCHANGED <<task, changed>>,
           adrift' \in BOOLEAN,
           step = "seed" => call[r].op = "create",
           \A o \in Calls \ {r} : call[o].step # "insert"
    PROVE  BoardIInv'
<1>1. OnboardingTypeOK
  BY DEF BoardIInv
<1>2. /\ call' \in [Calls -> Call]
      /\ call'[r].step = step /\ call'[r].op = call[r].op
      /\ \A o \in Calls \ {r} : call'[o] = call[o]
  BY <1>1, GoToMoves DEF CallSteps, CallEnded, Recompute
<1>3. /\ onboarding' \in Record /\ onboarding'.status = s
      /\ early' \subseteq Calls
      /\ s = "ON_HOLD" =>
             \A o \in Calls : call[o].step \notin CallEnded \cup {"idle"} =>
                 IF onboarding.status = "ON_HOLD" THEN early' = early ELSE o \in early'
  BY <1>1, PutMoves
<1>4. UNCHANGED <<Live, Done>>
  BY DEF Live, Done
<1>5. OnboardingTypeOK'
  BY <1>1, <1>2, <1>3 DEF OnboardingTypeOK
<1>6. OneCreates'
  <2>1. \A o \in Calls : call'[o].op = call[o].op
    BY <1>2
  <2> QED
    BY <2>1 DEF BoardIInv, OneCreates
<1>7. ASSUME NEW o \in Calls
      PROVE  (CarriesEnough(o) /\ CountHolds(o) /\ HoldSeen(o))'
  <2>1. CASE o = r
    BY <1>2, <1>3, <2>1
    DEF CarriesEnough, CountHolds, HoldSeen, Counted, Progressions
  <2>2. CASE o # r
    <3>1. CarriesEnough(o) /\ CountHolds(o) /\ HoldSeen(o)
      BY DEF BoardIInv
    <3>2. call'[o] = call[o] /\ call[o].step # "insert" /\ s # "none"
      BY <1>2, <2>2 DEF Progressions
    <3>3. CarriesEnough(o)'
      BY <1>3, <3>1, <3>2 DEF CarriesEnough, Counted
    <3>4. CountHolds(o)'
      BY <1>4, <3>1, <3>2 DEF CountHolds, Counted
    <3>5. HoldSeen(o)'
      BY <1>3, <3>1, <3>2 DEF HoldSeen, CallEnded
    <3> QED
      BY <3>3, <3>4, <3>5
  <2> QED
    BY <2>1, <2>2
<1> QED
  BY <1>5, <1>6, <1>7 DEF BoardIInv

(* The checklist is written: no count still holds, and the request goes on *)
(* to count.                                                               *)
LEMMA TasksKeep ==
    ASSUME BoardIInv, NEW r \in Calls,
           CallAt(r, "seed") \/ CallAt(r, "change"),
           CallGoesTo(r, "count"), UNCHANGED <<onboarding, adrift, early>>,
           task' \in [Tasks -> {"none", "open", "done", "deleted"}],
           changed' =
               changed \cup {o \in Calls : call[o].step \in {"status", "write"}}
    PROVE  BoardIInv'
<1>1. /\ call' \in [Calls -> Call]
      /\ call'[r].step = "count" /\ call'[r].op = call[r].op
      /\ \A o \in Calls \ {r} : call'[o] = call[o]
  BY GoToMoves DEF CallSteps, Recompute, BoardIInv
<1>2. OnboardingTypeOK'
  BY <1>1 DEF OnboardingTypeOK, BoardIInv
<1>3. OneCreates'
  <2>1. \A o \in Calls : call'[o].op = call[o].op
    BY <1>1
  <2> QED
    BY <2>1 DEF BoardIInv, OneCreates
<1>4. ASSUME NEW o \in Calls
      PROVE  (CarriesEnough(o) /\ CountHolds(o) /\ HoldSeen(o))'
  <2>1. CarriesEnough(o) /\ HoldSeen(o) /\ CarriesEnough(r)
    BY DEF BoardIInv
  <2>2. CASE o = r
    BY <1>1, <2>1, <2>2 DEF CarriesEnough, CountHolds, HoldSeen, Counted, CallAt
  <2>3. CASE o # r
    BY <1>1, <2>1, <2>3 DEF CarriesEnough, CountHolds, HoldSeen, Counted
  <2> QED
    BY <2>2, <2>3
<1> QED
  BY <1>2, <1>3, <1>4 DEF BoardIInv

(* A request moves on or ends, with the record's status and the checklist  *)
(* as they are.                                                            *)
LEMMA EndKeeps ==
    ASSUME BoardIInv, NEW r \in Calls, NEW step \in CallEnded,
           CallGoesTo(r, step), UNCHANGED <<task, early>>, adrift' \in BOOLEAN,
           onboarding' \in Record, onboarding'.status = onboarding.status,
           step = "done" => onboarding.status # "none",
           changed' \in {changed, changed \ {r}}
    PROVE  BoardIInv'
<1> step \in CallSteps
  BY DEF CallSteps, CallEnded
<1>1. /\ call' \in [Calls -> Call]
      /\ call'[r].step = step /\ call'[r].op = call[r].op
      /\ \A o \in Calls \ {r} : call'[o] = call[o]
  BY GoToMoves DEF BoardIInv
<1>2. UNCHANGED <<Live, Done>>
  BY DEF Live, Done
<1>3. OnboardingTypeOK'
  BY <1>1 DEF OnboardingTypeOK, BoardIInv
<1>4. OneCreates'
  <2>1. \A o \in Calls : call'[o].op = call[o].op
    BY <1>1
  <2> QED
    BY <2>1 DEF BoardIInv, OneCreates
<1>5. ASSUME NEW o \in Calls
      PROVE  (CarriesEnough(o) /\ CountHolds(o) /\ HoldSeen(o))'
  <2>1. CarriesEnough(o) /\ CountHolds(o) /\ HoldSeen(o)
    BY DEF BoardIInv
  <2>2. CASE o = r
    BY <1>1, <2>2 DEF CarriesEnough, CountHolds, HoldSeen, Counted, CallEnded
  <2>3. CASE o # r
    BY <1>1, <1>2, <2>1, <2>3 DEF CarriesEnough, CountHolds, HoldSeen, Counted
  <2> QED
    BY <2>2, <2>3
<1> QED
  BY <1>3, <1>4, <1>5 DEF BoardIInv

(* The count: the request carries share and verdict from here on.          *)
LEMMA CountKeeps ==
    ASSUME BoardIInv, NEW r \in Calls, Count(r)
    PROVE  BoardIInv'
<1> DEFINE done == Cardinality(Done)
           total == Cardinality(Live)
<1>1. call[r].step = "count" /\ onboarding.status # "none"
  BY DEF Count, CallAt, BoardIInv, CarriesEnough
<1>2. CASE Live = {}
  BY <1>1, <1>2, EndKeeps DEF Count, CallEnded, BoardIInv, OnboardingTypeOK
<1>3. CASE Live # {}
  <2>1. StatusOf(done, total) \in Progressions /\ Percent(done, total) \in 0..100
    BY <1>3, TasksCounted, PercentIsNearest DEF StatusOf, Progressions
  <2>2. PICK old \in Call : old = call[r]
    BY DEF BoardIInv, OnboardingTypeOK
  <2> DEFINE q == [old EXCEPT !.step = "status", !.status = StatusOf(done, total),
                              !.progress = Percent(done, total)]
  <2>3. /\ q \in Call /\ q.step = "status" /\ q.op = old.op
        /\ q.status = StatusOf(done, total) /\ q.progress = Percent(done, total)
    BY <2>1 DEF Call, CallSteps, Recompute
  <2>4. call' = [call EXCEPT ![r] = q]
    BY <1>3, <2>2 DEF Count
  <2> HIDE DEF q
  <2>5. /\ call' \in [Calls -> Call] /\ call'[r] = q
        /\ \A o \in Calls \ {r} : call'[o] = call[o]
    BY <2>3, <2>4, CallMoves DEF BoardIInv
  <2>6. /\ UNCHANGED <<onboarding, task, adrift, early, Live, Done>>
        /\ changed' = changed \ {r}
    BY DEF Count, Live, Done
  <2>7. OnboardingTypeOK'
    BY <2>5, <2>6 DEF BoardIInv, OnboardingTypeOK
  <2>8. OneCreates'
    BY <2>2, <2>3, <2>5 DEF BoardIInv, OneCreates
  <2>9. ASSUME NEW o \in Calls
        PROVE  (CarriesEnough(o) /\ CountHolds(o) /\ HoldSeen(o))'
    <3>1. CarriesEnough(o) /\ CountHolds(o) /\ HoldSeen(o)
      BY DEF BoardIInv
    <3>2. CASE o = r
      BY <1>1, <1>3, <2>1, <2>3, <2>5, <2>6, <3>2
      DEF CarriesEnough, CountHolds, HoldSeen, Counted
    <3>3. CASE o # r
      BY <2>5, <2>6, <3>1, <3>3
      DEF CarriesEnough, CountHolds, HoldSeen, Counted
    <3> QED
      BY <3>2, <3>3
  <2> QED
    BY <2>7, <2>8, <2>9 DEF BoardIInv
<1> QED
  BY <1>2, <1>3

LEMMA ReadStatusKeeps ==
    ASSUME BoardIInv, NEW r \in Calls, ReadStatus(r)
    PROVE  BoardIInv'
<1>1. PICK old \in Call : old = call[r]
  BY DEF BoardIInv, OnboardingTypeOK
<1> DEFINE s == IF onboarding.status = "ON_HOLD" THEN "ON_HOLD" ELSE old.status
           q == [old EXCEPT !.step = "write", !.status = s]
<1>2. old.step = "status" /\ CarriesEnough(r) /\ CountHolds(r)
  BY <1>1 DEF ReadStatus, CallAt, BoardIInv
<1>3. s \in Progressions
  BY <1>1, <1>2 DEF CarriesEnough, Counted, Progressions
<1>4. s = IF onboarding.status = "ON_HOLD" THEN "ON_HOLD" ELSE old.status
  OBVIOUS
<1>5. call' = [call EXCEPT ![r] = q]
  <2>1. call' = [call EXCEPT ![r] = [call[r] EXCEPT !.step = "write",
                   !.status = IF onboarding.status = "ON_HOLD" THEN "ON_HOLD"
                              ELSE call[r].status]]
    BY Zenon DEF ReadStatus
  <2> QED
    BY <1>1, <2>1, Zenon
<1> HIDE DEF s
<1>6. /\ q \in Call /\ q.step = "write" /\ q.op = old.op
      /\ q.status = s /\ q.progress = old.progress
  BY <1>3 DEF Call, CallSteps, Recompute
<1> HIDE DEF q
<1>7. /\ call' \in [Calls -> Call] /\ call'[r] = q
      /\ \A o \in Calls \ {r} : call'[o] = call[o]
  BY <1>5, <1>6, CallMoves DEF BoardIInv
<1>8. UNCHANGED <<onboarding, task, changed, adrift, early, Live, Done>>
  BY DEF ReadStatus, Live, Done, onboardingHistory
<1>9. OnboardingTypeOK'
  BY <1>7, <1>8 DEF BoardIInv, OnboardingTypeOK
<1>10. OneCreates'
  BY <1>1, <1>6, <1>7 DEF BoardIInv, OneCreates
<1>11. ASSUME NEW o \in Calls
       PROVE  (CarriesEnough(o) /\ CountHolds(o) /\ HoldSeen(o))'
  <2>1. CarriesEnough(o) /\ CountHolds(o) /\ HoldSeen(o)
    BY DEF BoardIInv
  <2>2. CASE o = r
    BY <1>1, <1>2, <1>3, <1>4, <1>6, <1>7, <1>8, <2>2
    DEF CarriesEnough, CountHolds, HoldSeen, Counted
  <2>3. CASE o # r
    BY <1>7, <1>8, <2>1, <2>3 DEF CarriesEnough, CountHolds, HoldSeen, Counted
  <2> QED
    BY <2>2, <2>3
<1> QED
  BY <1>9, <1>10, <1>11 DEF BoardIInv

LEMMA BoardNext ==
    ASSUME BoardIInv, [OnboardingNext]_onboardingVars
    PROVE  BoardIInv'
<1>1. CASE UNCHANGED onboardingVars
  BY <1>1
  DEF BoardIInv, OnboardingTypeOK, OneCreates, CarriesEnough, CountHolds, HoldSeen,
      Counted, Live, Done, onboardingVars, onboardingHistory
<1>2. ASSUME NEW r \in Calls, Create(r) PROVE BoardIInv'
  <2>1. PICK s \in Progressions \cup {Absent}, p \in Marks \cup {Absent} :
            /\ onboarding.status = "none" /\ \A q \in Calls : call[q].op # "create"
            /\ Start(r, "create", "insert", NoTask, s, Pinned(s, p))
    BY <1>2 DEF Create
  <2>2. Pinned(s, p) \in (0..100) \cup {Absent}
    BY OnboardingAssumption DEF Pinned
  <2> QED
    BY <2>1, <2>2, StartKeeps DEF CallOps
<1>3. ASSUME NEW r \in Calls, EditOnboarding(r) PROVE BoardIInv'
  <2>1. PICK s \in Progressions \cup {Absent}, p \in Marks \cup {Absent} :
            Found /\ Start(r, "put", "put", NoTask, s, Pinned(s, p))
    BY <1>3 DEF EditOnboarding
  <2>2. Pinned(s, p) \in (0..100) \cup {Absent}
    BY OnboardingAssumption DEF Pinned
  <2> QED
    BY <2>1, <2>2, StartKeeps DEF CallOps
<1>4. ASSUME NEW r \in Calls, RemoveOnboarding(r) \/ Add(r) PROVE BoardIInv'
  BY <1>4, StartKeeps DEF RemoveOnboarding, Add, CallOps, Tasks
<1>5. ASSUME NEW r \in Calls, Tick(r) PROVE BoardIInv'
  <2>1. PICK t \in Live, op \in {"tick", "untick", "drop"} :
            Found /\ Start(r, op, "change", t, Absent, Absent)
    BY <1>5 DEF Tick
  <2>2. t \in Tasks
    BY DEF Live
  <2> QED
    BY <2>1, <2>2, StartKeeps DEF CallOps
<1>6. ASSUME NEW r \in Calls, InsertOnboarding(r) PROVE BoardIInv'
  <2>1. /\ Or(call[r].status, "NOT_STARTED") \in Progressions
        /\ Or(call[r].progress, 0) \in 0..100
        /\ CarriesEnough(r) /\ call[r].step = "insert"
    BY <1>6
    DEF InsertOnboarding, CallAt, Or, BoardIInv, OnboardingTypeOK, Call, Progressions
  <2>2. \A o \in Calls \ {r} : call[o].step # "insert"
    BY <2>1 DEF CarriesEnough, BoardIInv, OneCreates
  <2> QED
    BY <1>6, <2>1, <2>2, PutKeeps DEF InsertOnboarding, CarriesEnough
<1>7. ASSUME NEW r \in Calls, UpdateOnboarding(r) PROVE BoardIInv'
  <2>1. CarriesEnough(r) /\ call[r].step = "put" /\ onboarding.status # "none" /\ onboarding \in Record
    BY <1>7 DEF UpdateOnboarding, CallAt, BoardIInv, OnboardingTypeOK, CarriesEnough
  <2>2. /\ Or(call[r].status, onboarding.status) \in Progressions
        /\ Or(call[r].progress, onboarding.progress) \in 0..100
    BY <2>1 DEF Or, BoardIInv, OnboardingTypeOK, Call, Record
  <2>3. \A o \in Calls : call[o].step # "insert"
    BY <2>1 DEF CarriesEnough, BoardIInv
  <2>4. adrift' \in BOOLEAN
    BY <1>7 DEF UpdateOnboarding
  <2> QED
    BY <1>7, <2>2, <2>3, <2>4, PutKeeps DEF UpdateOnboarding
<1>8. ASSUME NEW r \in Calls, Write(r) PROVE BoardIInv'
  <2>1. CarriesEnough(r) /\ call[r].step = "write" /\ onboarding.status # "none"
    BY <1>8 DEF Write, CallAt, BoardIInv, CarriesEnough
  <2>2. \A o \in Calls : call[o].step # "insert"
    BY <2>1 DEF CarriesEnough, BoardIInv
  <2> QED
    BY <1>8, <2>1, <2>2, PutKeeps DEF Write, CarriesEnough, Counted
<1>9. ASSUME NEW r \in Calls, Seed(r) PROVE BoardIInv'
  <2>1. task' \in [Tasks -> {"none", "open", "done", "deleted"}]
    BY <1>9 DEF Seed, BoardIInv, OnboardingTypeOK
  <2> QED
    BY <1>9, <2>1, TasksKeep DEF Seed
<1>10. ASSUME NEW r \in Calls, Change(r) PROVE BoardIInv'
  <2>1. CarriesEnough(r) /\ call[r].step = "change" /\ onboarding.status # "none"
    BY <1>10 DEF Change, CallAt, BoardIInv, CarriesEnough
  <2>2. CASE call[r].op = "add" \/ call[r].task \in Live
    <3>1. PICK state \in {"open", "done", "deleted"} : PutTask(call[r].task, state)
      BY <1>10, <2>1, <2>2 DEF Change, CarriesEnough
    <3>2. task' \in [Tasks -> {"none", "open", "done", "deleted"}]
      BY <3>1 DEF PutTask, BoardIInv, OnboardingTypeOK
    <3> QED
      BY <1>10, <2>2, <3>1, <3>2, TasksKeep DEF Change, PutTask
  <2>3. CASE ~(call[r].op = "add" \/ call[r].task \in Live)
    BY <1>10, <2>1, <2>3, EndKeeps DEF Change, CallEnded, BoardIInv, OnboardingTypeOK
  <2> QED
    BY <2>2, <2>3
<1>11. ASSUME NEW r \in Calls, DeleteOnboarding(r) PROVE BoardIInv'
  <2>1. onboarding' \in Record /\ onboarding'.status = onboarding.status
    BY <1>11 DEF DeleteOnboarding, BoardIInv, OnboardingTypeOK, Record
  <2>2. onboarding.status # "none"
    BY <1>11 DEF DeleteOnboarding, CallAt, BoardIInv, CarriesEnough
  <2> QED
    BY <1>11, <2>1, <2>2, EndKeeps
    DEF DeleteOnboarding, CallEnded, BoardIInv, OnboardingTypeOK, onboardingHistory
<1>12. ASSUME NEW r \in Calls, AbortCall(r) PROVE BoardIInv'
  <2>1. adrift' \in BOOLEAN
    BY <1>12 DEF AbortCall
  <2> QED
    BY <1>12, <2>1, EndKeeps DEF AbortCall, CallEnded, BoardIInv, OnboardingTypeOK
<1> QED
  BY <1>1, <1>2, <1>3, <1>4, <1>5, <1>6, <1>7, <1>8, <1>9, <1>10, <1>11, <1>12,
     CountKeeps, ReadStatusKeeps
  DEF OnboardingNext

LEMMA BoardInvariance == OnboardingSpec => []BoardIInv
<1>1. BoardIInv /\ [OnboardingNext]_onboardingVars => BoardIInv'
  BY BoardNext
<1> QED
  BY <1>1, BoardInit, PTL DEF OnboardingSpec

(* The record, its task and the requests keep the types of the tables and *)
(* handlers they stand for; progress is a percentage (recomputeProgress).  *)
THEOREM ChecklistTypeCorrect == OnboardingSpec => []OnboardingTypeOK
<1>1. BoardIInv => OnboardingTypeOK
  BY DEF BoardIInv
<1> QED
  BY <1>1, BoardInvariance, PTL

(***************************************************************************)
(* Progress and status.                                                    *)
(***************************************************************************)
LEMMA GoToLeaves ==
    ASSUME BoardIInv, NEW r \in Calls, NEW step, CallGoesTo(r, step)
    PROVE  call'[r].step = step /\ \A o \in Calls \ {r} : call'[o] = call[o]
<1>1. PICK old \in Call : old = call[r]
  BY DEF BoardIInv, OnboardingTypeOK
<1>2. call' = [call EXCEPT ![r] = [old EXCEPT !.step = step]]
  BY <1>1 DEF CallGoesTo
<1>3. [old EXCEPT !.step = step].step = step
  BY DEF Call
<1> QED
  BY <1>2, <1>3 DEF BoardIInv, OnboardingTypeOK

LEMMA StartLeaves ==
    ASSUME BoardIInv, NEW r \in Calls, NEW op, NEW step, NEW t, NEW s, NEW p,
           Start(r, op, step, t, s, p)
    PROVE  /\ \A o \in Calls \ {r} : call'[o] = call[o]
           /\ call[r].step = "idle" /\ call'[r].step = step
           /\ UNCHANGED <<onboarding, task, onboardingHistory>>
  BY DEF Start, CallAt, BoardIInv, OnboardingTypeOK

(* A step of a request that is not recomputing, and that does not touch    *)
(* what the recomputation compares.                                        *)
LEMMA RulesStay ==
    ASSUME ChecklistRules, NEW r \in Calls, call[r].step \notin Recompute,
           \A o \in Calls \ {r} : call'[o] = call[o],
           onboarding'.status = onboarding.status \/ onboarding'.status = "ON_HOLD",
           onboarding'.progress = onboarding.progress,
           UNCHANGED <<task, adrift>>
    PROVE  ChecklistRules'
<1>1. UNCHANGED <<Live, Done>>
  BY DEF Live, Done
<1>2. \A o \in Calls : call[o].step \in Recompute => call'[o].step \in Recompute
  BY Zenon
<1> QED
  BY <1>1, <1>2 DEF ChecklistRules

LEMMA RulesStep ==
    ASSUME BoardIInv, ChecklistRules,
           [OnboardingNext]_onboardingVars
    PROVE  ChecklistRules'
<1>1. CASE UNCHANGED onboardingVars
  BY <1>1 DEF ChecklistRules, Live, Done, onboardingVars, onboardingHistory
<1>2. ASSUME NEW r \in Calls,
             Create(r) \/ EditOnboarding(r) \/ RemoveOnboarding(r) \/ Add(r)
             \/ Tick(r)
      PROVE  ChecklistRules'
  <2>1. \E op, step, t, s, p : Start(r, op, step, t, s, p)
    BY <1>2 DEF Create, EditOnboarding, RemoveOnboarding, Add, Tick
  <2> QED
    BY <2>1, StartLeaves, RulesStay DEF onboardingHistory, Recompute
<1>3. ASSUME NEW r \in Calls, InsertOnboarding(r) PROVE ChecklistRules'
  BY <1>3 DEF InsertOnboarding, ChecklistRules
<1>4. ASSUME NEW r \in Calls, call'[r].step \in Recompute PROVE ChecklistRules'
  BY <1>4 DEF ChecklistRules
<1>5. ASSUME NEW r \in Calls, Seed(r) PROVE ChecklistRules'
  BY <1>4, <1>5, GoToLeaves DEF Seed, Recompute
<1>6. ASSUME NEW r \in Calls, UpdateOnboarding(r) PROVE ChecklistRules'
  <2>1. CASE adrift'
    BY <2>1 DEF ChecklistRules
  <2>2. CASE ~adrift'
    <3>1. /\ ~adrift
          /\ call[r].status \in {"ON_HOLD", Absent} /\ call[r].progress = Absent
          /\ Put(Or(call[r].status, onboarding.status),
                   Or(call[r].progress, onboarding.progress))
          /\ call[r].step = "put" /\ CallGoesTo(r, "done") /\ UNCHANGED task
      BY <1>6, <2>2 DEF UpdateOnboarding, CallAt
    <3>2. PICK x \in Record : x = onboarding
      BY DEF BoardIInv, OnboardingTypeOK
    <3>3. PICK s : /\ s = Or(call[r].status, onboarding.status)
                   /\ s \in {"ON_HOLD", onboarding.status}
      BY <3>1 DEF Or
    <3>4. onboarding' = [x EXCEPT !.status = s, !.progress = x.progress]
      BY <3>1, <3>2, <3>3 DEF Put, Or
    <3>5. onboarding'.status = s /\ onboarding'.progress = onboarding.progress
      BY <3>2, <3>4 DEF Record
    <3>6. /\ call[r].step \notin Recompute
          /\ \A o \in Calls \ {r} : call'[o] = call[o]
      BY <3>1, GoToLeaves DEF Recompute
    <3>7. UNCHANGED <<task, adrift>>
      BY <2>2, <3>1, <1>6 DEF BoardIInv, OnboardingTypeOK, UpdateOnboarding
    <3>8. onboarding'.status = onboarding.status \/ onboarding'.status = "ON_HOLD"
      BY <3>3, <3>5
    <3> QED
      BY ONLY ChecklistRules, r \in Calls, <3>5, <3>6, <3>7, <3>8, RulesStay
  <2> QED
    BY <2>1, <2>2
<1>7. ASSUME NEW r \in Calls, DeleteOnboarding(r) PROVE ChecklistRules'
  <2>1. onboarding'.status = onboarding.status /\ onboarding'.progress = onboarding.progress
    BY <1>7 DEF DeleteOnboarding, BoardIInv, OnboardingTypeOK, Record
  <2> QED
    BY <1>7, <2>1, GoToLeaves, RulesStay
    DEF DeleteOnboarding, CallAt, Recompute, onboardingHistory
<1>8. ASSUME NEW r \in Calls, Change(r) PROVE ChecklistRules'
  <2>1. CASE call[r].op = "add" \/ call[r].task \in Live
    BY <1>4, <1>8, <2>1, GoToLeaves DEF Change, Recompute
  <2>2. CASE ~(call[r].op = "add" \/ call[r].task \in Live)
    BY <1>8, <2>2, GoToLeaves, RulesStay DEF Change, CallAt, Recompute
  <2> QED
    BY <2>1, <2>2
<1>9. ASSUME NEW r \in Calls, Count(r) PROVE ChecklistRules'
  <2>1. CASE Live = {}
    <3>1. Live' = {}
      BY <1>9, <2>1 DEF Count, Live
    <3> QED
      BY <3>1 DEF ChecklistRules
  <2>2. CASE Live # {}
    <3>1. PICK old \in Call : old = call[r]
      BY DEF BoardIInv, OnboardingTypeOK
    <3>2. call'[r].step = "status"
      BY <1>9, <2>2, <3>1 DEF Count, Call, BoardIInv, OnboardingTypeOK
    <3> QED
      BY <1>4, <3>2 DEF Recompute
  <2> QED
    BY <2>1, <2>2
<1>10. ASSUME NEW r \in Calls, ReadStatus(r) PROVE ChecklistRules'
  <2>1. PICK old \in Call : old = call[r]
    BY DEF BoardIInv, OnboardingTypeOK
  <2>2. call'[r].step = "write"
    BY <1>10, <2>1 DEF ReadStatus, Call, BoardIInv, OnboardingTypeOK
  <2> QED
    BY <1>4, <2>2 DEF Recompute
<1>11. ASSUME NEW r \in Calls, Write(r) PROVE ChecklistRules'
  <2>1. CASE r \in changed
    BY <1>11, <2>1 DEF Write, ChecklistRules
  <2>2. CASE r \notin changed
    <3>1. CountHolds(r) /\ Counted(call[r])
      BY <1>11 DEF Write, CallAt, BoardIInv, Counted
    <3>2. onboarding'.status = call[r].status /\ onboarding'.progress = call[r].progress
      BY <1>11 DEF Write, Put, BoardIInv, OnboardingTypeOK, Record
    <3>3. UNCHANGED <<Live, Done>>
      BY <1>11 DEF Write, Live, Done
    <3> QED
      BY <2>2, <3>1, <3>2, <3>3 DEF CountHolds, ChecklistRules
  <2> QED
    BY <2>1, <2>2
<1>12. ASSUME NEW r \in Calls, AbortCall(r) PROVE ChecklistRules'
  <2>1. CASE adrift'
    BY <2>1 DEF ChecklistRules
  <2>2. CASE ~adrift'
    BY <1>12, <2>2, GoToLeaves, RulesStay DEF AbortCall, BoardIInv, OnboardingTypeOK
  <2> QED
    BY <2>1, <2>2
<1> QED
  BY <1>1, <1>2, <1>3, <1>5, <1>6, <1>7, <1>8, <1>9, <1>10, <1>11, <1>12
  DEF OnboardingNext

(* The checklist is "the single source of truth for both progress% and     *)
(* status" (onboardingTasks.js, recomputeProgress): when no recomputation  *)
(* is under way they are what it says, or the record is on hold, but for a *)
(* record that PUT has written since or whose last recomputation died or   *)
(* was overtaken.                                                          *)
THEOREM ChecklistFollowed == OnboardingSpec => []ChecklistRules
<1>1. OnboardingInit => ChecklistRules
  BY DEF OnboardingInit, ChecklistRules, Live
<1>2. BoardIInv /\ ChecklistRules /\ [OnboardingNext]_onboardingVars => ChecklistRules'
  BY RulesStep
<1> QED
  BY <1>1, <1>2, BoardInvariance, PTL DEF OnboardingSpec

(***************************************************************************)
(* Holds.                                                                  *)
(***************************************************************************)
LEMMA HoldStep ==
    ASSUME BoardIInv, [OnboardingNext]_onboardingVars
    PROVE  OffHoldByPut
<1> SUFFICES ASSUME onboarding.status = "ON_HOLD", onboarding'.status # "ON_HOLD"
             PROVE  \E r \in Calls : /\ call'[r].step = "done"
                                     /\ \/ call[r].step = "put"
                                        \/ call[r].step = "write" /\ r \in early
  BY DEF OffHoldByPut
<1>1. PICK r \in Calls :
          InsertOnboarding(r) \/ UpdateOnboarding(r) \/ Write(r) \/ DeleteOnboarding(r)
  BY DEF OnboardingNext, onboardingVars, Create, EditOnboarding, RemoveOnboarding, Add, Tick, Start,
         Seed, Change, Count, ReadStatus, AbortCall
<1>2. ~InsertOnboarding(r)
  BY DEF InsertOnboarding, CallAt, BoardIInv, CarriesEnough
<1>3. ~DeleteOnboarding(r)
  BY DEF DeleteOnboarding, BoardIInv, OnboardingTypeOK, Record
<1>4. CASE UpdateOnboarding(r)
  BY <1>4, GoToLeaves DEF UpdateOnboarding, CallAt
<1>5. CASE Write(r)
  <2>1. onboarding'.status = call[r].status
    BY <1>5 DEF Write, Put, BoardIInv, OnboardingTypeOK, Record
  <2> QED
    BY <1>5, <2>1, GoToLeaves DEF Write, CallAt, BoardIInv, HoldSeen
<1> QED
  BY <1>1, <1>2, <1>3, <1>4, <1>5

(* Ticking task does not take an onboarding off hold (recomputeProgress   *)
(* reads the status first): only PUT does, or a recomputation that was     *)
(* under way when it was put on hold.                                      *)
THEOREM HoldsKept == OnboardingSpec => HoldIsKept
<1>1. BoardIInv /\ [OnboardingNext]_onboardingVars => OffHoldByPut
  BY HoldStep
<1> QED
  BY <1>1, BoardInvariance, PTL DEF OnboardingSpec, HoldIsKept
=============================================================================
