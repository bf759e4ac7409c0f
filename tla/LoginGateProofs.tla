-------------------------- MODULE LoginGateProofs --------------------------
(***************************************************************************)
(* Theorems about LoginGate, for any numbers of accounts and requests, any *)
(* limit of failures and any length of a lock.                             *)
(***************************************************************************)
EXTENDS LoginGate, TLAPS

Busy == {"gate", "fail", "clear", "open", "use"}

(* A request past its first read is about an account; who opened a session *)
(* or was given a challenge has ended; a challenge being used was given.   *)
RequestsWellFormed ==
    /\ \A r \in Reqs : req[r].step \in Busy => req[r].who \in Accounts
    /\ \A r \in opened : At(r, "done")
    /\ \A r \in Reqs : challenge[r] # "none" =>
           At(r, "done") /\ req[r].who \in Accounts
    /\ \A r \in Reqs : At(r, "use") =>
           req[r].of \in Reqs /\ challenge[req[r].of] # "none"

IInv == TypeOK /\ RequestsWellFormed /\ FailuresAreCounted

(* Counting modulo the limit, one failure at a time.                       *)
LEMMA OneMore ==
    ASSUME NEW n \in Nat, NEW m \in Nat \ {0}
    PROVE  /\ n % m \in Nat /\ 0 % m = 0
           /\ (n % m) + 1 >= m => (n + 1) % m = 0 /\ n + 1 >= m
           /\ (n % m) + 1 < m =>
                  /\ (n + 1) % m = (n % m) + 1
                  /\ n >= m <=> n + 1 >= m
<1>1. n % m \in 0 .. (m - 1) /\ n \div m \in Nat /\ 0 % m = 0
  BY SMT
<1>2. PICK d \in Nat, r \in 0 .. (m - 1) : d = n \div m /\ r = n % m
  BY <1>1
<1>3. n = d * m + r
  BY <1>2, SMTT(30)
<1>4. CASE r + 1 < m
  <2>1. (n + 1) % m = r + 1
    BY <1>3, <1>4, SMTT(30)
  <2>2. n < m => n % m = n
    BY SMT
  <2>3. n < m => n + 1 < m
    BY <1>2, <1>4, <2>2, SMT
  <2> QED
    BY <1>1, <1>2, <1>4, <2>1, <2>3, SMT
<1>5. CASE r = m - 1
  <2>1. (n + 1) % m = 0
    BY <1>3, <1>5, SMTT(30)
  <2>2. n % m <= n
    BY <1>2, <1>3, SMTT(30)
  <2> QED
    BY <1>1, <1>2, <1>5, <2>1, <2>2, SMT
<1> QED
  BY <1>4, <1>5, SMT

LEMMA InitIInv == Init => IInv
  BY LoginAssumption, OneMore
  DEF Init, IInv, TypeOK, Counters, Statuses, Request, Steps, Portals, Fresh,
      Idle, At, Challenges, Busy, RequestsWellFormed, FailuresAreCounted

-----------------------------------------------------------------------------
(* The steps of one request.                                               *)

LEMMA GoToReq ==
    ASSUME TypeOK, NEW r \in Reqs, NEW p \in Steps, GoTo(r, p)
    PROVE  /\ req' \in [Reqs -> Request]
           /\ \A q \in Reqs \ {r} : req'[q] = req[q]
           /\ req'[r].step = p /\ req'[r].who = req[r].who
           /\ req'[r].row = req[r].row /\ req'[r].of = req[r].of
<1>1. PICK x \in Request : x = req[r]
  BY DEF TypeOK
<1>2. /\ [x EXCEPT !.step = p] \in Request
      /\ [x EXCEPT !.step = p].step = p
      /\ [x EXCEPT !.step = p].who = x.who
      /\ [x EXCEPT !.step = p].row = x.row
      /\ [x EXCEPT !.step = p].of = x.of
  BY DEF Request
<1> QED
  BY <1>1, <1>2 DEF GoTo, TypeOK

(* A login that begins carries the row of its account as it is now, or has *)
(* to choose among several.                                                *)
LEMMA LoginHow ==
    ASSUME TypeOK, NEW r \in Reqs, Login(r)
    PROVE  /\ At(r, "idle")
           /\ UNCHANGED <<now, user, challenge, opened, streak, raced>>
           /\ req' \in [Reqs -> Request]
           /\ \A q \in Reqs \ {r} : req'[q] = req[q]
           /\ \/ /\ req'[r].step \in {"fail", "rejected", "gate"}
                 /\ req'[r].who \in Accounts
                 /\ req'[r].row = user[req'[r].who]
              \/ req'[r].step = "choose"
<1>1. /\ At(r, "idle")
      /\ UNCHANGED <<now, user, challenge, opened, streak, raced>>
  BY DEF Login
<1>2. ASSUME NEW a \in Accounts, NEW p \in {"fail", "rejected", "gate"},
             NEW portal \in Portals,
             req' = [req EXCEPT ![r] =
                 [step |-> p, who |-> a, row |-> user[a], portal |-> portal,
                  of |-> Nil]]
      PROVE  /\ req' \in [Reqs -> Request]
             /\ \A q \in Reqs \ {r} : req'[q] = req[q]
             /\ req'[r].step = p /\ req'[r].who = a /\ req'[r].row = user[a]
  <2>1. [step |-> p, who |-> a, row |-> user[a], portal |-> portal,
         of |-> Nil] \in Request
    BY <1>2 DEF TypeOK, Request, Steps
  <2> QED
    BY <1>2, <2>1 DEF TypeOK
<1>3. PICK e \in Emails, portal \in Portals,
           matches \in SUBSET Accounts, picked \in SUBSET Accounts :
        \/ \E a \in {x \in Accounts : Email[x] = e} :
               req' = [req EXCEPT ![r] =
                   [step |-> IF {x \in Accounts : Email[x] = e} = {a}
                             THEN "fail" ELSE "rejected",
                    who |-> a, row |-> user[a], portal |-> portal,
                    of |-> Nil]]
        \/ \E a \in Resolved(matches, picked) :
               req' = [req EXCEPT ![r] =
                   [step |-> "gate", who |-> a, row |-> user[a],
                    portal |-> portal, of |-> Nil]]
        \/ GoTo(r, "choose")
  BY DEF Login
<1>4. Resolved(matches, picked) \subseteq Accounts
  BY DEF Resolved
<1>5. CASE \E a \in {x \in Accounts : Email[x] = e} :
               req' = [req EXCEPT ![r] =
                   [step |-> IF {x \in Accounts : Email[x] = e} = {a}
                             THEN "fail" ELSE "rejected",
                    who |-> a, row |-> user[a], portal |-> portal,
                    of |-> Nil]]
  <2>1. PICK a \in Accounts, p \in {"fail", "rejected", "gate"} :
          req' = [req EXCEPT ![r] =
              [step |-> p, who |-> a, row |-> user[a], portal |-> portal,
               of |-> Nil]]
    BY <1>5
  <2> QED
    BY <1>1, <1>2, <2>1
<1>6. CASE \E a \in Resolved(matches, picked) :
               req' = [req EXCEPT ![r] =
                   [step |-> "gate", who |-> a, row |-> user[a],
                    portal |-> portal, of |-> Nil]]
  BY <1>1, <1>2, <1>4, <1>6
<1>7. CASE GoTo(r, "choose")
  BY <1>1, <1>7, GoToReq DEF Steps
<1> QED
  BY <1>3, <1>5, <1>6, <1>7

(* A verification that begins carries the account of a login that was      *)
(* given a challenge.                                                      *)
LEMMA VerifyHow ==
    ASSUME IInv, NEW r \in Reqs, VerifyMfa(r)
    PROVE  /\ At(r, "idle")
           /\ UNCHANGED <<now, user, challenge, opened, streak, raced>>
           /\ req' \in [Reqs -> Request]
           /\ \A q \in Reqs \ {r} : req'[q] = req[q]
           /\ req'[r].step = "use"
           /\ \E l \in Reqs : /\ challenge[l] = "open"
                             /\ req[l].who \in Accounts
                             /\ req'[r].who = req[l].who
                             /\ req'[r].of = l
<1>1. PICK l \in Reqs :
        /\ challenge[l] = "open"
        /\ req' = [req EXCEPT ![r] =
               [Idle EXCEPT !.step = "use", !.who = req[l].who, !.of = l]]
  BY DEF VerifyMfa
<1>2. PICK a \in Accounts : a = req[l].who
  BY <1>1 DEF IInv, RequestsWellFormed
<1>3. PICK x \in Request :
        x = [Idle EXCEPT !.step = "use", !.who = a, !.of = l]
  BY DEF Idle, Request, Steps, Fresh, Counters, Statuses, Portals
<1>4. x.step = "use" /\ x.who = a /\ x.of = l
  BY <1>3 DEF Idle
<1>5. /\ req' \in [Reqs -> Request] /\ req'[r] = x
      /\ \A q \in Reqs \ {r} : req'[q] = req[q]
  BY <1>1, <1>2, <1>3 DEF IInv, TypeOK
<1>6. /\ At(r, "idle")
      /\ UNCHANGED <<now, user, challenge, opened, streak, raced>>
  BY DEF VerifyMfa
<1>7. /\ req'[r].step = "use" /\ req'[r].of = l
      /\ req'[r].who = req[l].who /\ req[l].who \in Accounts
  BY <1>2, <1>4, <1>5
<1> QED
  BY <1>1, <1>5, <1>6, <1>7

(* The write of both counters of account a.                                *)
CountersAt(a, count, lock) ==
    user' = [user EXCEPT ![a].count = count, ![a].lock = lock]

LEMMA CountersWritten ==
    ASSUME TypeOK, NEW a \in Accounts, NEW count \in Nat, NEW lock \in Nat,
           CountersAt(a, count, lock)
    PROVE  /\ user' \in [Accounts -> Counters]
           /\ user'[a].count = count /\ user'[a].lock = lock
           /\ user'[a].status = user[a].status
           /\ \A b \in Accounts \ {a} : user'[b] = user[b]
<1>1. PICK x \in Counters : x = user[a]
  BY DEF TypeOK
<1>2. /\ [x EXCEPT !.count = count, !.lock = lock] \in Counters
      /\ [x EXCEPT !.count = count, !.lock = lock].count = count
      /\ [x EXCEPT !.count = count, !.lock = lock].lock = lock
      /\ [x EXCEPT !.count = count, !.lock = lock].status = x.status
  BY DEF Counters
<1>3. user' = [user EXCEPT ![a] = [x EXCEPT !.count = count, !.lock = lock]]
  BY <1>1 DEF CountersAt, TypeOK
<1> QED
  BY <1>1, <1>2, <1>3 DEF TypeOK

(* What a registered failure does to the row it finds.                     *)
LEMMA FailureHow ==
    ASSUME IInv, NEW r \in Reqs, RegisterFailure(r)
    PROVE  LET a == req[r].who IN
           /\ a \in Accounts /\ At(r, "fail")
           /\ UNCHANGED <<now, challenge, opened>>
           /\ user' \in [Accounts -> Counters]
           /\ \A b \in Accounts \ {a} : user'[b] = user[b]
           /\ user'[a].status = user[a].status
           /\ IF req[r].row.count + 1 >= MaxFailed
              THEN user'[a].count = 0 /\ user'[a].lock = now + LockTicks
              ELSE /\ user'[a].count = req[r].row.count + 1
                   /\ user'[a].lock = user[a].lock
<1> DEFINE a == req[r].who
<1>1. /\ a \in Accounts /\ At(r, "fail")
      /\ UNCHANGED <<now, challenge, opened>>
      /\ now \in Nat /\ req[r].row \in Counters /\ user[a] \in Counters
      /\ user \in [Accounts -> Counters]
  BY DEF RegisterFailure, IInv, RequestsWellFormed, Busy, TypeOK, Request, At
<1>2. /\ req[r].row.count + 1 \in Nat /\ now + LockTicks \in Nat
      /\ user[a].lock \in Nat
  BY <1>1, LoginAssumption DEF Counters
<1>3. CASE req[r].row.count + 1 >= MaxFailed
  <2>1. CountersAt(a, 0, now + LockTicks)
    BY <1>3 DEF RegisterFailure, LimitReached, CountersAt
  <2> HIDE DEF a
  <2> QED
    BY <1>1, <1>2, <1>3, <2>1, CountersWritten DEF IInv, a
<1>4. CASE ~(req[r].row.count + 1 >= MaxFailed)
  <2>1. CountersAt(a, req[r].row.count + 1, user[a].lock)
    <3>1. user' = [user EXCEPT ![a].count = req[r].row.count + 1]
      BY <1>4 DEF RegisterFailure, LimitReached
    <3>2. PICK x \in Counters : x = user[a]
      BY <1>1
    <3>3. [x EXCEPT !.count = req[r].row.count + 1]
            = [x EXCEPT !.count = req[r].row.count + 1, !.lock = x.lock]
      BY DEF Counters
    <3> QED
      BY <1>1, <3>1, <3>2, <3>3 DEF CountersAt
  <2> HIDE DEF a
  <2> QED
    BY <1>1, <1>2, <1>4, <2>1, CountersWritten DEF IInv, a
<1> QED
  BY <1>3, <1>4

LEMMA ClearHow ==
    ASSUME IInv, NEW r \in Reqs, ClearCounters(r)
    PROVE  LET a == req[r].who IN
           /\ a \in Accounts /\ At(r, "clear")
           /\ UNCHANGED <<now, challenge, opened>>
           /\ user' \in [Accounts -> Counters]
           /\ \A b \in Accounts \ {a} : user'[b] = user[b]
           /\ user'[a].status = user[a].status
           /\ user'[a].count = 0 /\ user'[a].lock = 0
<1> DEFINE a == req[r].who
<1>1. /\ a \in Accounts /\ At(r, "clear")
      /\ UNCHANGED <<now, challenge, opened>>
      /\ CountersAt(a, 0, 0)
  BY DEF ClearCounters, IInv, RequestsWellFormed, Busy, At, CountersAt
<1> HIDE DEF a
<1> QED
  BY <1>1, CountersWritten DEF IInv, a

LEMMA SetStatusHow ==
    ASSUME TypeOK, SetStatus
    PROVE  /\ user' \in [Accounts -> Counters]
           /\ \A a \in Accounts : /\ user'[a].count = user[a].count
                                  /\ user'[a].lock = user[a].lock
           /\ UNCHANGED <<now, challenge, req, opened, streak, raced>>
<1>1. PICK a \in Accounts, s \in Statuses :
        user' = [user EXCEPT ![a].status = s]
  BY DEF SetStatus
<1>2. PICK x \in Counters : x = user[a]
  BY DEF TypeOK
<1>3. /\ [x EXCEPT !.status = s] \in Counters
      /\ [x EXCEPT !.status = s].count = x.count
      /\ [x EXCEPT !.status = s].lock = x.lock
  BY DEF Counters
<1> QED
  BY <1>1, <1>2, <1>3 DEF TypeOK, SetStatus

-----------------------------------------------------------------------------
(* IInv is inductive.                                                      *)

LEMMA RegisterFailureIInv ==
    ASSUME IInv, NEW r \in Reqs, RegisterFailure(r)
    PROVE  IInv'
<1> DEFINE a == req[r].who
           limit == req[r].row.count + 1 >= MaxFailed
<1>1. /\ a \in Accounts /\ At(r, "fail")
      /\ UNCHANGED <<now, challenge, opened>>
      /\ user' \in [Accounts -> Counters]
      /\ \A b \in Accounts \ {a} : user'[b] = user[b]
      /\ limit => user'[a].count = 0 /\ user'[a].lock = now + LockTicks
      /\ ~limit => /\ user'[a].count = req[r].row.count + 1
                   /\ user'[a].lock = user[a].lock
  BY FailureHow
<1>2. /\ GoTo(r, "rejected") /\ Touch(r)
      /\ streak' = [streak EXCEPT ![a] = streak[a] + 1]
  BY DEF RegisterFailure
<1>3. /\ req' \in [Reqs -> Request]
      /\ \A q \in Reqs \ {r} : req'[q] = req[q]
      /\ req'[r].step = "rejected"
  BY <1>2, GoToReq DEF IInv, Steps
<1>4. /\ streak' \in [Accounts -> Nat] /\ streak'[a] = streak[a] + 1
      /\ \A b \in Accounts \ {a} : streak'[b] = streak[b]
      /\ streak[a] \in Nat
  BY <1>1, <1>2 DEF IInv, TypeOK
<1>5. raced \subseteq raced' /\ raced' \subseteq Accounts
  BY <1>1, <1>2 DEF Touch, IInv, TypeOK
<1>6. TypeOK'
  BY <1>1, <1>3, <1>4, <1>5 DEF IInv, TypeOK
<1>7. RequestsWellFormed'
  <2>1. \A q \in opened : q \in Reqs \ {r}
    BY <1>1 DEF IInv, TypeOK, RequestsWellFormed, At
  <2>2. \A q \in opened' : At(q, "done")'
    BY <1>1, <1>3, <2>1 DEF IInv, RequestsWellFormed, At
  <2>3. \A q \in Reqs : req'[q].step \in Busy => req'[q].who \in Accounts
    BY <1>1, <1>3 DEF IInv, RequestsWellFormed, Busy
  <2>4. \A q \in Reqs : challenge'[q] # "none" =>
          req'[q].step = "done" /\ req'[q].who \in Accounts
    BY <1>1, <1>3 DEF IInv, RequestsWellFormed, At
  <2>5. \A q \in Reqs : req'[q].step = "use" =>
          req'[q].of \in Reqs /\ challenge'[req'[q].of] # "none"
    BY <1>1, <1>3 DEF IInv, RequestsWellFormed, At
  <2> QED
    BY <2>2, <2>3, <2>4, <2>5 DEF RequestsWellFormed, At
<1>8. ASSUME a \notin raced'
      PROVE  /\ user'[a].count = streak'[a] % MaxFailed
             /\ user'[a].lock # 0 <=> streak'[a] >= MaxFailed
  <2>1. /\ a \notin raced /\ req[r].row.count = user[a].count
    BY <1>2, <1>8 DEF Touch, Stale
  <2>2. /\ user[a].count = streak[a] % MaxFailed
        /\ user[a].lock # 0 <=> streak[a] >= MaxFailed
    BY <1>1, <2>1 DEF IInv, FailuresAreCounted
  <2>3. /\ now \in Nat /\ LockTicks \in Nat \ {0} /\ MaxFailed \in Nat \ {0}
    BY LoginAssumption DEF IInv, TypeOK
  <2> HIDE DEF a
  <2>4. CASE limit
    <3>1. /\ (streak[a] + 1) % MaxFailed = 0 /\ streak[a] + 1 >= MaxFailed
      BY <1>4, <2>1, <2>2, <2>3, <2>4, OneMore
    <3>2. now + LockTicks # 0
      BY <2>3
    <3> QED
      BY <1>1, <1>4, <2>4, <3>1, <3>2
  <2>5. CASE ~limit
    <3>1. streak[a] % MaxFailed \in Nat
      BY <1>4, <2>3, OneMore
    <3>2. (streak[a] % MaxFailed) + 1 < MaxFailed
      BY <2>1, <2>2, <2>3, <2>5, <3>1
    <3>3. /\ (streak[a] + 1) % MaxFailed = (streak[a] % MaxFailed) + 1
          /\ streak[a] >= MaxFailed <=> streak[a] + 1 >= MaxFailed
      BY <1>4, <2>3, <3>2, OneMore
    <3> QED
      BY <1>1, <1>4, <2>1, <2>2, <2>5, <3>3
  <2> QED
    BY <2>4, <2>5
<1>9. FailuresAreCounted'
  <2> HIDE DEF a
  <2> SUFFICES ASSUME NEW b \in Accounts, b \notin raced'
               PROVE  /\ user'[b].count = streak'[b] % MaxFailed
                      /\ user'[b].lock # 0 <=> streak'[b] >= MaxFailed
    BY DEF FailuresAreCounted
  <2>1. CASE b = a
    BY <1>8, <2>1
  <2>2. CASE b # a
    BY <1>1, <1>4, <1>5, <2>2 DEF IInv, FailuresAreCounted
  <2> QED
    BY <2>1, <2>2
<1> QED
  BY <1>6, <1>7, <1>9 DEF IInv

LEMMA ClearCountersIInv ==
    ASSUME IInv, NEW r \in Reqs, ClearCounters(r)
    PROVE  IInv'
<1>0. PICK a \in Accounts : a = req[r].who
  BY ClearHow
<1>1. /\ At(r, "clear") /\ UNCHANGED <<now, challenge, opened>>
      /\ user' \in [Accounts -> Counters]
      /\ \A b \in Accounts \ {a} : user'[b] = user[b]
      /\ user'[a].count = 0 /\ user'[a].lock = 0
  BY <1>0, ClearHow
<1>2. /\ GoTo(r, "open") /\ Touch(r)
      /\ streak' = [streak EXCEPT ![a] = 0]
  BY <1>0 DEF ClearCounters
<1>3. /\ req' \in [Reqs -> Request]
      /\ \A q \in Reqs \ {r} : req'[q] = req[q]
      /\ req'[r].step = "open" /\ req'[r].who = a
  BY <1>0, <1>2, GoToReq DEF IInv, Steps
<1>4. /\ streak' \in [Accounts -> Nat] /\ streak'[a] = 0
      /\ \A b \in Accounts \ {a} : streak'[b] = streak[b]
  BY <1>2 DEF IInv, TypeOK
<1>5. raced \subseteq raced' /\ raced' \subseteq Accounts
  BY <1>0, <1>2 DEF Touch, IInv, TypeOK
<1>6. TypeOK'
  BY <1>1, <1>3, <1>4, <1>5 DEF IInv, TypeOK
<1>7. RequestsWellFormed'
  <2>1. \A q \in opened : q \in Reqs \ {r}
    BY <1>1 DEF IInv, TypeOK, RequestsWellFormed, At
  <2>2. \A q \in opened' : At(q, "done")'
    BY <1>1, <1>3, <2>1 DEF IInv, RequestsWellFormed, At
  <2>3. \A q \in Reqs : req'[q].step \in Busy => req'[q].who \in Accounts
    BY <1>1, <1>3 DEF IInv, RequestsWellFormed, Busy
  <2>4. \A q \in Reqs : challenge'[q] # "none" =>
          req'[q].step = "done" /\ req'[q].who \in Accounts
    BY <1>1, <1>3 DEF IInv, RequestsWellFormed, At
  <2>5. \A q \in Reqs : req'[q].step = "use" =>
          req'[q].of \in Reqs /\ challenge'[req'[q].of] # "none"
    BY <1>1, <1>3 DEF IInv, RequestsWellFormed, At
  <2> QED
    BY <2>2, <2>3, <2>4, <2>5 DEF RequestsWellFormed, At
<1>8. 0 % MaxFailed = 0 /\ ~(0 >= MaxFailed)
  BY LoginAssumption, OneMore
<1>9. FailuresAreCounted'
  BY <1>1, <1>4, <1>5, <1>8 DEF IInv, FailuresAreCounted
<1> QED
  BY <1>6, <1>7, <1>9 DEF IInv

LEMMA NextIInv ==
    ASSUME IInv, [Next]_vars
    PROVE  IInv'
<1>1. CASE Tick \/ UNCHANGED vars
  BY <1>1 DEF Tick, vars, IInv, TypeOK, RequestsWellFormed, FailuresAreCounted,
     At
<1>2. CASE SetStatus
  BY <1>2, SetStatusHow DEF IInv, TypeOK, RequestsWellFormed,
     FailuresAreCounted, At
<1>3. ASSUME NEW r \in Reqs, Login(r)
      PROVE  IInv'
  BY <1>3, LoginHow DEF IInv, TypeOK, RequestsWellFormed, FailuresAreCounted,
     At, Busy
<1>4. ASSUME NEW r \in Reqs, Gate(r)
      PROVE  IInv'
  <2>1. PICK p \in {"rejected", "clear", "open"} : GoTo(r, p)
    BY <1>4 DEF Gate
  <2>2. /\ At(r, "gate")
        /\ UNCHANGED <<now, user, challenge, opened, streak, raced>>
    BY <1>4 DEF Gate
  <2> QED
    BY <2>1, <2>2, GoToReq DEF IInv, TypeOK, RequestsWellFormed,
       FailuresAreCounted, At, Steps, Busy
<1>5. ASSUME NEW r \in Reqs, Open(r)
      PROVE  IInv'
  <2>1. /\ At(r, "open") /\ GoTo(r, "done") /\ opened' = opened \cup {r}
        /\ UNCHANGED <<now, user, challenge, streak, raced>>
    BY <1>5 DEF Open
  <2> QED
    BY <2>1, GoToReq DEF IInv, TypeOK, RequestsWellFormed,
       FailuresAreCounted, At, Steps, Busy
<1>6. ASSUME NEW r \in Reqs, Challenge(r)
      PROVE  IInv'
  <2>1. /\ At(r, "open") /\ GoTo(r, "done")
        /\ challenge' = [challenge EXCEPT ![r] = "open"]
        /\ UNCHANGED <<now, user, opened, streak, raced>>
    BY <1>6 DEF Challenge
  <2> QED
    BY <2>1, GoToReq DEF IInv, TypeOK, RequestsWellFormed, Challenges,
       FailuresAreCounted, At, Steps, Busy
<1>7. ASSUME NEW r \in Reqs, VerifyMfa(r)
      PROVE  IInv'
  BY <1>7, VerifyHow DEF IInv, TypeOK, RequestsWellFormed, FailuresAreCounted,
     At, Busy
<1>8. ASSUME NEW r \in Reqs, UseChallenge(r)
      PROVE  IInv'
  <2>1. /\ At(r, "use") /\ GoTo(r, "done") /\ opened' = opened \cup {r}
        /\ challenge' = [challenge EXCEPT ![req[r].of] = "spent"]
        /\ UNCHANGED <<now, user, streak, raced>>
    BY <1>8 DEF UseChallenge
  <2>2. req[r].of \in Reqs /\ challenge[req[r].of] # "none"
    BY <2>1 DEF IInv, RequestsWellFormed
  <2>3. /\ challenge' \in [Reqs -> Challenges]
        /\ \A q \in Reqs : challenge'[q] # "none" <=> challenge[q] # "none"
    BY <2>1, <2>2 DEF IInv, TypeOK, Challenges
  <2>4. /\ req' \in [Reqs -> Request] /\ req'[r].step = "done"
        /\ req'[r].who = req[r].who /\ req[r].who \in Accounts
        /\ \A q \in Reqs \ {r} : req'[q] = req[q]
    BY <2>1, GoToReq DEF IInv, Steps, RequestsWellFormed, Busy, At
  <2>5. RequestsWellFormed'
    BY <2>1, <2>3, <2>4 DEF IInv, TypeOK, RequestsWellFormed, At, Busy
  <2> QED
    BY <2>1, <2>3, <2>4, <2>5 DEF IInv, TypeOK, FailuresAreCounted
<1>9. CASE Expire
  BY <1>9 DEF Expire, IInv, TypeOK, RequestsWellFormed, Challenges,
     FailuresAreCounted, At, Busy
<1> QED
  BY <1>1, <1>2, <1>3, <1>4, <1>5, <1>6, <1>7, <1>8, <1>9,
     RegisterFailureIInv, ClearCountersIInv
  DEF Next

LEMMA Invariance == Spec => []IInv
  BY InitIInv, NextIInv, PTL DEF Spec

(* Every variable keeps its type: no counter is written for an account     *)
(* that the login did not resolve.                                         *)
THEOREM TypeCorrect == Spec => []TypeOK
<1>1. IInv => TypeOK
  BY DEF IInv
<1> QED
  BY <1>1, Invariance, PTL

(* For any limit of failures: the counter of an account is the number of   *)
(* failures since its last reset or lock, and it carries a lock exactly if *)
(* it has reached the limit, unless a write came from an old row.          *)
THEOREM FailuresCounted == Spec => []FailuresAreCounted
<1>1. IInv => FailuresAreCounted
  BY DEF IInv
<1> QED
  BY <1>1, Invariance, PTL

-----------------------------------------------------------------------------
(* Locked and disabled accounts.                                           *)

Moves(r) ==
    \/ Login(r) \/ RegisterFailure(r) \/ Gate(r) \/ ClearCounters(r)
    \/ Open(r) \/ Challenge(r) \/ VerifyMfa(r) \/ UseChallenge(r)

(* One request takes a step; those that have opened a session do not move. *)
LEMMA RequestStep ==
    ASSUME IInv, NEW r \in Reqs, Moves(r)
    PROVE  /\ \A q \in Reqs \ {r} : req'[q] = req[q]
           /\ r \notin opened /\ now' = now
<1>1. \A q \in Reqs \ {r} : req'[q] = req[q]
  <2>1. CASE Login(r) \/ VerifyMfa(r)
    BY <2>1, LoginHow, VerifyHow DEF IInv
  <2>2. CASE ~Login(r) /\ ~VerifyMfa(r)
    <3>1. \E p : GoTo(r, p)
      BY <2>2 DEF Moves, RegisterFailure, Gate, ClearCounters, Open,
         Challenge, UseChallenge
    <3> QED
      BY <3>1 DEF GoTo, IInv, TypeOK
  <2> QED
    BY <2>1, <2>2
<1>2. ~At(r, "done") /\ now' = now
  BY DEF Moves, Login, RegisterFailure, Gate, ClearCounters, Open, Challenge,
     VerifyMfa, UseChallenge, At
<1> QED
  BY <1>1, <1>2 DEF IInv, RequestsWellFormed

(* Only who has a way in enters an account.                                *)
LEMMA WhoEnters ==
    ASSUME IInv, [Next]_vars, NEW a \in Accounts,
           \A r \in Reqs : ~WayIn(r, a)
    PROVE  OpenedFor(a)' = OpenedFor(a)
<1>1. CASE Tick \/ SetStatus \/ Expire \/ UNCHANGED vars
  BY <1>1 DEF Tick, SetStatus, Expire, vars, OpenedFor
<1>2. ASSUME NEW r \in Reqs, Moves(r)
      PROVE  OpenedFor(a)' = OpenedFor(a)
  <2>1. \A q \in opened : req'[q] = req[q]
    BY <1>2, RequestStep DEF IInv, TypeOK
  <2>2. CASE Open(r) \/ UseChallenge(r)
    <3>1. /\ opened' = opened \cup {r} /\ GoTo(r, "done")
          /\ At(r, "open") \/ At(r, "use")
      BY <2>2 DEF Open, UseChallenge
    <3>2. req'[r].who # a
      BY <3>1, GoToReq DEF IInv, Steps, WayIn, At
    <3> QED
      BY <2>1, <3>1, <3>2 DEF OpenedFor
  <2>3. CASE ~Open(r) /\ ~UseChallenge(r)
    <3>1. opened' = opened
      BY <1>2, <2>3 DEF Moves, Login, RegisterFailure, Gate, ClearCounters,
         Challenge, VerifyMfa
    <3> QED
      BY <2>1, <3>1 DEF OpenedFor
  <2> QED
    BY <2>2, <2>3
<1> QED
  BY <1>1, <1>2 DEF Next, Moves

(* An account gets no new way in as long as its gate lets nobody pass.     *)
LEMMA NoNewWay ==
    ASSUME IInv, [Next]_vars, NEW a \in Accounts,
           \A r \in Reqs : ~WayIn(r, a),
           \A r \in Reqs : Gate(r) /\ req[r].who = a => GoTo(r, "rejected")
    PROVE  \A r \in Reqs : ~WayIn(r, a)'
<1>1. CASE Tick \/ SetStatus \/ UNCHANGED vars
  BY <1>1 DEF Tick, SetStatus, vars, WayIn
<1>2. CASE Expire
  BY <1>2 DEF Expire, WayIn, IInv, TypeOK
<1>3. ASSUME NEW r \in Reqs, Login(r)
      PROVE  \A q \in Reqs : ~WayIn(q, a)'
  BY <1>3, LoginHow DEF IInv, RequestsWellFormed, WayIn, At
<1>4. ASSUME NEW r \in Reqs, VerifyMfa(r)
      PROVE  \A q \in Reqs : ~WayIn(q, a)'
  BY <1>4, VerifyHow DEF IInv, WayIn
<1>5. ASSUME NEW r \in Reqs, RegisterFailure(r)
      PROVE  \A q \in Reqs : ~WayIn(q, a)'
  BY <1>5, GoToReq DEF RegisterFailure, IInv, Steps, WayIn
<1>6. ASSUME NEW r \in Reqs, Gate(r)
      PROVE  \A q \in Reqs : ~WayIn(q, a)'
  <2>1. PICK p \in {"rejected", "clear", "open"} :
          GoTo(r, p) /\ (req[r].who = a => p = "rejected")
    <3>1. PICK p \in {"rejected", "clear", "open"} : GoTo(r, p)
      BY <1>6 DEF Gate
    <3>2. CASE req[r].who = a
      BY <1>6, <3>2
    <3> QED
      BY <3>1, <3>2
  <2> QED
    BY <1>6, <2>1, GoToReq DEF Gate, IInv, Steps, WayIn
<1>7. ASSUME NEW r \in Reqs,
             \/ ClearCounters(r) \/ Open(r) \/ Challenge(r)
             \/ UseChallenge(r)
      PROVE  \A q \in Reqs : ~WayIn(q, a)'
  <2>1. req[r].who # a
    BY <1>7 DEF ClearCounters, Open, Challenge, UseChallenge, WayIn, At
  <2>2. PICK p \in Steps : GoTo(r, p)
    BY <1>7 DEF ClearCounters, Open, Challenge, UseChallenge, Steps
  <2>3. \A q \in Reqs \ {r} : challenge'[q] = "open" => challenge[q] = "open"
    BY <1>7 DEF ClearCounters, Open, Challenge, UseChallenge, IInv, TypeOK
  <2> QED
    BY <2>1, <2>2, <2>3, GoToReq DEF IInv, WayIn
<1> QED
  BY <1>1, <1>2, <1>3, <1>4, <1>5, <1>6, <1>7 DEF Next

(* Who stands at the gate has stood there, or has just read the row.       *)
LEMMA AtGate ==
    ASSUME IInv, [Next]_vars, NEW r \in Reqs, req'[r].step = "gate"
    PROVE  \/ req'[r] = req[r]
           \/ user' = user /\ req'[r].row = user[req'[r].who]
<1>1. CASE Tick \/ SetStatus \/ Expire \/ UNCHANGED vars
  BY <1>1 DEF Tick, SetStatus, Expire, vars
<1>2. ASSUME NEW q \in Reqs, Moves(q)
      PROVE  \/ req'[r] = req[r]
             \/ user' = user /\ req'[r].row = user[req'[r].who]
  <2>1. CASE q # r
    BY <1>2, <2>1, RequestStep
  <2>2. CASE q = r /\ (Login(r) \/ VerifyMfa(r))
    BY <2>2, LoginHow, VerifyHow DEF IInv
  <2>3. CASE q = r /\ ~Login(r) /\ ~VerifyMfa(r)
    <3>1. PICK p \in Steps \ {"gate"} : GoTo(r, p)
      BY <1>2, <2>3 DEF Moves, RegisterFailure, Gate, ClearCounters, Open,
         Challenge, UseChallenge, Steps
    <3> QED
      BY <3>1, GoToReq DEF IInv
  <2> QED
    BY <2>1, <2>2, <2>3
<1> QED
  BY <1>1, <1>2 DEF Next, Moves

(* The lock of an account without a way in changes by a failure only, and  *)
(* then anew from the clock.                                               *)
LEMMA LockWritten ==
    ASSUME IInv, [Next]_vars, NEW a \in Accounts,
           \A r \in Reqs : ~WayIn(r, a)
    PROVE  \/ user'[a].lock = user[a].lock
           \/ now' = now /\ user'[a].lock = now + LockTicks
<1>1. CASE Tick \/ Expire \/ UNCHANGED vars
  BY <1>1 DEF Tick, Expire, vars
<1>2. CASE SetStatus
  BY <1>2, SetStatusHow DEF IInv
<1>3. ASSUME NEW r \in Reqs, RegisterFailure(r)
      PROVE  \/ user'[a].lock = user[a].lock
             \/ now' = now /\ user'[a].lock = now + LockTicks
  BY <1>3, FailureHow
<1>4. ASSUME NEW r \in Reqs, ClearCounters(r)
      PROVE  user'[a].lock = user[a].lock
  BY <1>4, ClearHow DEF WayIn, At
<1>5. ASSUME NEW r \in Reqs, Moves(r), ~RegisterFailure(r),
             ~ClearCounters(r)
      PROVE  user'[a].lock = user[a].lock
  BY <1>5 DEF Moves, Login, Gate, Open, Challenge, VerifyMfa, UseChallenge
<1> QED
  BY <1>1, <1>2, <1>3, <1>4, <1>5 DEF Next, Moves

LEMMA SealStep ==
    ASSUME IInv, [Next]_vars, NEW a \in Accounts, Sealed(a)
    PROVE  \/ Sealed(a)'
           \/ user[a].lock <= now'
           \/ user'[a].lock # user[a].lock /\ Locked(a)'
<1>1. /\ now \in Nat /\ now' \in Nat /\ user[a].lock \in Nat
      /\ LockTicks \in Nat \ {0} /\ user[a].lock > now
  BY LoginAssumption, NextIInv
  DEF IInv, TypeOK, Counters, Sealed, Locked
<1>2. \A r \in Reqs : ~WayIn(r, a)
  BY DEF Sealed, HeldBack
<1>3. CASE user'[a].lock = user[a].lock /\ user[a].lock > now'
  <2>1. \A r \in Reqs : ~WayIn(r, a)'
    <3>1. ASSUME NEW r \in Reqs, Gate(r), req[r].who = a
          PROVE  GoTo(r, "rejected")
      <4>1. req[r].row.lock > now
        BY <1>1, <3>1 DEF Gate, Sealed, HeldBack
      <4> QED
        BY <3>1, <4>1 DEF Gate
    <3> QED
      BY <1>2, <3>1, NoNewWay
  <2>2. ASSUME NEW r \in Reqs, req'[r].who = a, req'[r].step = "gate"
        PROVE  req'[r].row.lock = user'[a].lock
    BY <1>3, <2>2, AtGate DEF Sealed, HeldBack, At
  <2> QED
    BY <1>3, <2>1, <2>2 DEF Sealed, Locked, HeldBack, At
<1>4. CASE now' = now /\ user'[a].lock = now + LockTicks
  <2>1. user'[a].lock > now'
    BY <1>1, <1>4
  <2>2. CASE user'[a].lock # user[a].lock
    BY <2>1, <2>2 DEF Locked
  <2> QED
    BY <1>1, <1>3, <1>4, <2>2
<1> QED
  BY <1>1, <1>2, <1>3, <1>4, LockWritten

(* A lock keeps everyone out who has no way in left from before it was     *)
(* written (a login past its read, an open challenge), with the right      *)
(* password too, until it runs out or a further failure prolongs it.       *)
THEOREM LocksHold == Spec => LockSealsAccount
<1>1. IInv /\ [Next]_vars =>
        [\A a \in Accounts : Sealed(a) =>
           /\ OpenedFor(a)' = OpenedFor(a)
           /\ \/ Sealed(a)'
              \/ user[a].lock <= now'
              \/ user'[a].lock # user[a].lock /\ Locked(a)']_vars
  <2> SUFFICES ASSUME IInv, [Next]_vars, NEW a \in Accounts, Sealed(a)
               PROVE  /\ OpenedFor(a)' = OpenedFor(a)
                      /\ \/ Sealed(a)'
                         \/ user[a].lock <= now'
                         \/ user'[a].lock # user[a].lock /\ Locked(a)'
    OBVIOUS
  <2>1. OpenedFor(a)' = OpenedFor(a)
    BY WhoEnters DEF Sealed, HeldBack
  <2> QED
    BY <2>1, SealStep
<1> QED
  BY <1>1, Invariance, PTL DEF Spec, LockSealsAccount

LEMMA DisabledStep ==
    ASSUME IInv, [Next]_vars, NEW a \in Accounts, Disabled(a),
           user'[a].status = "DISABLED"
    PROVE  Disabled(a)'
<1>1. \A r \in Reqs : ~WayIn(r, a)'
  <2>1. ASSUME NEW r \in Reqs, Gate(r), req[r].who = a
        PROVE  GoTo(r, "rejected")
    BY <2>1 DEF Gate, Disabled
  <2> QED
    BY <2>1, NoNewWay DEF Disabled
<1>2. ASSUME NEW r \in Reqs, req'[r].who = a, req'[r].step = "gate"
      PROVE  req'[r].row.status = "DISABLED"
  BY <1>2, AtGate DEF Disabled, At
<1> QED
  BY <1>1, <1>2 DEF Disabled, At

(* While an account stays disabled nobody enters it but by a login past    *)
(* its read or a challenge from before, and no new way in arises.          *)
THEOREM DisabledStayOut == Spec => DisabledAccountStaysOut
<1>1. IInv /\ [Next]_vars =>
        [\A a \in Accounts : Disabled(a) =>
           /\ OpenedFor(a)' = OpenedFor(a)
           /\ user'[a].status = "DISABLED" => Disabled(a)']_vars
  <2> SUFFICES ASSUME IInv, [Next]_vars, NEW a \in Accounts, Disabled(a)
               PROVE  /\ OpenedFor(a)' = OpenedFor(a)
                      /\ user'[a].status = "DISABLED" => Disabled(a)'
    OBVIOUS
  <2>1. OpenedFor(a)' = OpenedFor(a)
    BY WhoEnters DEF Disabled
  <2> QED
    BY <2>1, DisabledStep
<1> QED
  BY <1>1, Invariance, PTL DEF Spec, DisabledAccountStaysOut

=============================================================================
