----------------------- MODULE TenantSuspensionProofs -----------------------
(***************************************************************************)
(* Theorems about TenantSuspension, for any companies, users, requests and *)
(* sessions.                                                               *)
(***************************************************************************)
EXTENDS TenantSuspension, TLAPS

(* What a request in flight carries.                                       *)
RequestsWellFormed ==
    \A r \in Reqs :
        /\ ~At(r, "idle") => req[r].company \in Companies
        /\ req[r].step \in {"challenge", "use", "insert", "user", "rotate"} =>
               /\ req[r].account \in Accounts
               /\ req[r].company = Home[req[r].account]
        /\ At(r, "use") => req[r].sid \in Reqs
        /\ req[r].step \in {"user", "rotate"} => req[r].sid \in Sids
        /\ req[r].step \in {"update", "archive", "flag"} =>
               req[r].to \in Status
        /\ At(r, "archive") => req[r].to = "SUSPENDED"

RowsWellFormed ==
    /\ \A s \in Sids : Live(s) => session[s].account \in Accounts
    /\ \A l \in Reqs : challenge[l].state = "open" =>
                           challenge[l].account \in Accounts

Shape == TypeOK /\ RequestsWellFormed /\ RowsWellFormed

(* The writers of a company that has not been crossed come one after the   *)
(* other, and the one at work knows the row.                               *)
WritersTakeTurns ==
    \A c \in Companies \ crossed, r \in Reqs : Writing(r, c) =>
        /\ \A q \in Reqs : Writing(q, c) => q = r
        /\ At(r, "update") => req[r].before = company[c].status
        /\ At(r, "flag") => req[r].to = company[c].status

IInv == Shape /\ WritersTakeTurns /\ FlagFollowsStatus

USE SuspensionAssumption DEF Sids, disturbed

LEMMA InitIInv == Init => IInv
<1> SUFFICES ASSUME Init PROVE IInv
  OBVIOUS
<1>1. TypeOK
  BY DEF Init, TypeOK, Idle, Request, Session, Challenge, Status, Steps
<1>2. \A r \in Reqs : req[r].step = "idle"
  BY DEF Init, Idle
<1>3. RequestsWellFormed /\ WritersTakeTurns
  BY <1>2 DEF RequestsWellFormed, WritersTakeTurns, Writing, At
<1>4. RowsWellFormed
  BY DEF Init, RowsWellFormed, Live
<1>5. FlagFollowsStatus
  BY DEF Init, FlagFollowsStatus, Suspended
<1> QED
  BY <1>1, <1>3, <1>4, <1>5 DEF IInv, Shape

(* Request r is replaced by q: what has to be seen of q.                   *)
LEMMA MoveShape ==
    ASSUME Shape, NEW r \in Reqs, NEW q \in Request,
           req' = [req EXCEPT ![r] = q],
           q.step # "idle", q.company \in Companies,
           q.step \in {"challenge", "use", "insert", "user", "rotate"} =>
               /\ q.account \in Accounts
               /\ q.company = Home[q.account],
           q.step = "use" => q.sid \in Reqs,
           q.step \in {"user", "rotate"} => q.sid \in Sids,
           q.step \in {"update", "archive", "flag"} => q.to \in Status,
           q.step = "archive" => q.to = "SUSPENDED"
    PROVE  /\ req' \in [Reqs -> Request]
           /\ req'[r] = q
           /\ \A p \in Reqs \ {r} : req'[p] = req[p]
           /\ RequestsWellFormed'
  BY DEF Shape, TypeOK, RequestsWellFormed, At

LEMMA StepShape ==
    ASSUME Shape, NEW r \in Reqs, ~At(r, "idle"),
           NEW p \in {"done", "rejected", "failed", "revoke", "flag"},
           GoTo(r, p), p = "flag" => req[r].to \in Status
    PROVE  /\ req' \in [Reqs -> Request]
           /\ req'[r] = [req[r] EXCEPT !.step = p]
           /\ \A q \in Reqs \ {r} : req'[q] = req[q]
           /\ RequestsWellFormed'
<1> DEFINE q == [req[r] EXCEPT !.step = p]
<1>1. req[r] \in Request
  BY DEF Shape, TypeOK
<1>2. /\ q \in Request /\ q.step = p /\ q.company = req[r].company
      /\ q.to = req[r].to
  BY <1>1 DEF Request, Steps
<1>3. req' = [req EXCEPT ![r] = q]
  BY <1>1 DEF GoTo, Shape, TypeOK, Request
<1>4. q.company \in Companies
  BY <1>2 DEF Shape, RequestsWellFormed
<1> HIDE DEF q
<1>5. /\ req' \in [Reqs -> Request] /\ req'[r] = q
      /\ \A x \in Reqs \ {r} : req'[x] = req[x]
      /\ RequestsWellFormed'
  BY <1>2, <1>3, <1>4, MoveShape
<1> QED
  BY <1>5 DEF q

(* The rows stay as they are.                                              *)
LEMMA FrameShape ==
    ASSUME Shape, req' \in [Reqs -> Request], RequestsWellFormed',
           UNCHANGED <<company, flag, session, challenge, tokens, late>>,
           (crossed \cup unflagged)' \subseteq Companies
    PROVE  Shape'
<1>1. TypeOK'
  BY DEF Shape, TypeOK
<1>2. RowsWellFormed'
  BY DEF Shape, RowsWellFormed, Live
<1> QED
  BY <1>1, <1>2 DEF Shape

LEMMA AssembleShape ==
    ASSUME req' \in [Reqs -> Request], RequestsWellFormed',
           company' \in [Companies -> [status: Status, deleted: BOOLEAN]],
           flag' \in [Companies -> BOOLEAN],
           session' \in [Sids -> Session],
           \A s \in Sids : session'[s].state = "live" =>
                               session'[s].account \in Accounts,
           challenge' \in [Reqs -> Challenge],
           \A l \in Reqs : challenge'[l].state = "open" =>
                               challenge'[l].account \in Accounts,
           tokens' \subseteq [jti: Sids, sid: Sids, account: Accounts],
           (crossed \cup unflagged)' \subseteq Companies, late' \subseteq Sids
    PROVE  Shape'
<1>1. TypeOK'
  BY DEF TypeOK
<1>2. RowsWellFormed'
  BY DEF RowsWellFormed, Live
<1> QED
  BY <1>1, <1>2 DEF Shape

LEMMA ShapeParts ==
    ASSUME Shape
    PROVE  /\ req \in [Reqs -> Request]
           /\ company \in [Companies -> [status: Status, deleted: BOOLEAN]]
           /\ flag \in [Companies -> BOOLEAN]
           /\ session \in [Sids -> Session]
           /\ \A s \in Sids : session[s].state = "live" =>
                               session[s].account \in Accounts
           /\ challenge \in [Reqs -> Challenge]
           /\ \A l \in Reqs : challenge[l].state = "open" =>
                               challenge[l].account \in Accounts
           /\ tokens \subseteq [jti: Sids, sid: Sids, account: Accounts]
           /\ crossed \cup unflagged \subseteq Companies /\ late \subseteq Sids
  BY DEF Shape, TypeOK, RowsWellFormed, Live

-----------------------------------------------------------------------------
(* Shape is inductive.                                                     *)

LEMMA LoginShape ==
    ASSUME Shape, NEW r \in Reqs, Login(r)
    PROVE  /\ Shape'
           /\ req'[r].step \in {"rejected", "challenge", "insert"}
           /\ req'[r].account \in Accounts
           /\ req'[r].company = Home[req'[r].account]
           /\ req'[r].step # "rejected" => ~Barred(req'[r].account)
           /\ \A p \in Reqs \ {r} : req'[p] = req[p]
<1>1. PICK a \in Accounts, p \in {"rejected", "challenge", "insert"} :
     /\ p # "rejected" => ~Barred(a)
     /\ req' = [req EXCEPT ![r] = [Idle EXCEPT !.op = "login",
                   !.company = Home[a], !.account = a, !.sid = r,
                   !.before = company[Home[a]].status, !.step = p]]
  BY DEF Login
<1>q. PICK q : q = [Idle EXCEPT !.op = "login",
                   !.company = Home[a], !.account = a, !.sid = r,
                   !.before = company[Home[a]].status, !.step = p]
  OBVIOUS
<1>2. /\ q \in Request /\ req' = [req EXCEPT ![r] = q]
      /\ q.step = p
      /\ q.account = a
      /\ q.company = Home[a]
  BY <1>1, <1>q DEF Shape, TypeOK, Idle, Request, Operations, Steps
<1>3. /\ req' \in [Reqs -> Request] /\ RequestsWellFormed'
      /\ req'[r] = q /\ \A x \in Reqs \ {r} : req'[x] = req[x]
  BY <1>2, MoveShape
<1>4. /\ UNCHANGED <<company, flag, session, challenge, tokens, late>>
      /\ (crossed \cup unflagged)' \subseteq Companies
  BY DEF Login, logins, Shape, TypeOK
<1>5. Shape'
  BY <1>3, <1>4, FrameShape
<1> QED
  BY <1>1, <1>2, <1>3, <1>5

LEMMA VerifyShape ==
    ASSUME Shape, NEW r \in Reqs, VerifyMfa(r)
    PROVE  /\ Shape'
           /\ req'[r].step = "use"
           /\ req'[r].company = Home[req'[r].account]
           /\ \E l \in Reqs : /\ challenge[l].state = "open"
                             /\ challenge[l].account = req'[r].account
           /\ \A p \in Reqs \ {r} : req'[p] = req[p]
<1>1. PICK l \in Reqs, a \in Accounts :
        /\ challenge[l].state = "open" /\ a = challenge[l].account
        /\ req' = [req EXCEPT ![r] = [Idle EXCEPT !.op = "verify",
                      !.step = "use", !.company = Home[a], !.account = a,
                      !.sid = l, !.before = company[Home[a]].status]]
  BY DEF VerifyMfa, Shape, RowsWellFormed
<1>q. PICK q : q = [Idle EXCEPT !.op = "verify",
                      !.step = "use", !.company = Home[a], !.account = a,
                      !.sid = l, !.before = company[Home[a]].status]
  OBVIOUS
<1>2. /\ q \in Request /\ req' = [req EXCEPT ![r] = q]
      /\ q.step = "use"
      /\ q.account = a
      /\ q.company = Home[a]
      /\ q.sid = l
  BY <1>1, <1>q DEF Shape, TypeOK, Idle, Request, Operations, Steps
<1>3. /\ req' \in [Reqs -> Request] /\ RequestsWellFormed'
      /\ req'[r] = q /\ \A x \in Reqs \ {r} : req'[x] = req[x]
  BY <1>2, MoveShape
<1>4. /\ UNCHANGED <<company, flag, session, challenge, tokens, late>>
      /\ (crossed \cup unflagged)' \subseteq Companies
  BY DEF VerifyMfa, logins, Shape, TypeOK
<1>5. Shape'
  BY <1>3, <1>4, FrameShape
<1> QED
  BY <1>1, <1>2, <1>3, <1>5

LEMMA RefreshShape ==
    ASSUME Shape, NEW r \in Reqs, Refresh(r)
    PROVE  /\ Shape'
           /\ req'[r].step = "user"
           /\ \A p \in Reqs \ {r} : req'[p] = req[p]
<1>1. PICK s \in Sids, a \in Accounts :
        /\ a = session[s].account
        /\ req' = [req EXCEPT ![r] = [Idle EXCEPT !.op = "refresh",
                      !.step = "user", !.company = Home[a],
                      !.account = a, !.sid = s]]
  BY DEF Refresh, Shape, RowsWellFormed, CompanyOf
<1>q. PICK q : q = [Idle EXCEPT !.op = "refresh",
                      !.step = "user", !.company = Home[a],
                      !.account = a, !.sid = s]
  OBVIOUS
<1>2. /\ q \in Request /\ req' = [req EXCEPT ![r] = q]
      /\ q.step = "user"
      /\ q.account = a
      /\ q.company = Home[a]
      /\ q.sid = s
  BY <1>1, <1>q DEF Shape, TypeOK, Idle, Request, Operations, Steps
<1>3. /\ req' \in [Reqs -> Request] /\ RequestsWellFormed'
      /\ req'[r] = q /\ \A x \in Reqs \ {r} : req'[x] = req[x]
  BY <1>2, MoveShape
<1>4. /\ UNCHANGED <<company, flag, session, challenge, tokens, late>>
      /\ (crossed \cup unflagged)' \subseteq Companies
  BY DEF Refresh, logins, Shape, TypeOK
<1>5. Shape'
  BY <1>3, <1>4, FrameShape
<1> QED
  BY <1>1, <1>2, <1>3, <1>5

LEMMA StartWriterShape ==
    ASSUME Shape, NEW r \in Reqs, NEW op \in {"update", "archive"},
           NEW c \in Companies, NEW to \in Status,
           op = "archive" => to = "SUSPENDED", StartWriter(r, op, c, to)
    PROVE  /\ Shape'
           /\ req'[r].step = op /\ req'[r].company = c
           /\ req'[r].before = company[c].status /\ req'[r].to = to
           /\ \A p \in Reqs \ {r} : req'[p] = req[p]
<1>q. PICK q : q = [Idle EXCEPT !.op = op, !.step = op,
                  !.company = c, !.before = company[c].status, !.to = to]
  OBVIOUS
<1>1. /\ q \in Request /\ req' = [req EXCEPT ![r] = q]
      /\ q.step = op
      /\ q.company = c
      /\ q.to = to
      /\ q.before = company[c].status
  BY <1>q DEF StartWriter, Shape, TypeOK, Idle, Request, Operations, Steps
<1>2. /\ req' \in [Reqs -> Request] /\ RequestsWellFormed'
      /\ req'[r] = q /\ \A p \in Reqs \ {r} : req'[p] = req[p]
  BY <1>1, MoveShape
<1>3. /\ UNCHANGED <<company, flag, session, challenge, tokens, late>>
      /\ (crossed \cup unflagged)' \subseteq Companies
  BY DEF StartWriter, logins, Shape, TypeOK
<1>4. Shape'
  BY <1>2, <1>3, FrameShape
<1> QED
  BY <1>1, <1>2, <1>4

LEMMA ResetAdminShape ==
    ASSUME Shape, NEW r \in Reqs, ResetAdmin(r)
    PROVE  /\ Shape'
           /\ req'[r].step = "revoke" /\ req'[r].to = Nil
           /\ \A p \in Reqs \ {r} : req'[p] = req[p]
<1>1. PICK c \in Companies :
        req' = [req EXCEPT ![r] = [Idle EXCEPT !.op = "resetAdmin",
                   !.step = "revoke", !.company = c]]
  BY DEF ResetAdmin
<1>q. PICK q : q = [Idle EXCEPT !.op = "resetAdmin",
                   !.step = "revoke", !.company = c]
  OBVIOUS
<1>c. /\ q \in Request /\ req' = [req EXCEPT ![r] = q]
      /\ q.step = "revoke"
      /\ q.company \in Companies
      /\ q.to = Nil
  BY <1>1, <1>q DEF Shape, TypeOK, Idle, Request, Operations, Steps
<1>2. /\ req' \in [Reqs -> Request] /\ RequestsWellFormed'
      /\ req'[r] = q /\ \A p \in Reqs \ {r} : req'[p] = req[p]
  BY <1>c, MoveShape
<1>3. /\ UNCHANGED <<company, flag, session, challenge, tokens, late>>
      /\ (crossed \cup unflagged)' \subseteq Companies
  BY DEF ResetAdmin, logins, Shape, TypeOK
<1>4. Shape'
  BY <1>2, <1>3, FrameShape
<1> QED
  BY <1>c, <1>2, <1>4

(* The continuations that move request r by GoTo and write one table.      *)
LEMMA ContinueShape ==
    ASSUME Shape, NEW r \in Reqs, Continue(r) PROVE Shape'
<1>0. req[r] \in Request /\ req \in [Reqs -> Request]
  BY DEF Shape, TypeOK
<1>1. CASE IssueChallenge(r)
  <2>1. PICK q : q = [req[r] EXCEPT !.step = "done", !.sid = Nil]
    OBVIOUS
  <2>2. /\ q \in Request /\ q.step = "done" /\ q.company = req[r].company
        /\ req' = [req EXCEPT ![r] = q]
    BY <1>0, <1>1, <2>1 DEF IssueChallenge, Request, Steps
  <2>3. q.company \in Companies /\ req[r].account \in Accounts
    BY <1>1, <2>2 DEF IssueChallenge, Shape, RequestsWellFormed, At
  <2>4. req' \in [Reqs -> Request] /\ RequestsWellFormed'
    BY <2>2, <2>3, MoveShape
  <2>5. /\ challenge' \in [Reqs -> Challenge]
        /\ \A l \in Reqs : challenge'[l].state = "open" =>
                             challenge'[l].account \in Accounts
    BY <1>1, <2>3 DEF IssueChallenge, Shape, TypeOK, Challenge, RowsWellFormed
  <2> QED
    BY <1>1, <2>4, <2>5, ShapeParts, AssembleShape DEF IssueChallenge
<1>2. CASE UseChallenge(r)
  <2>1. PICK q : q = [req[r] EXCEPT !.step = "insert", !.sid = r]
    OBVIOUS
  <2>2. /\ q \in Request /\ q.step = "insert" /\ q.company = req[r].company
        /\ q.account = req[r].account /\ req' = [req EXCEPT ![r] = q]
    BY <1>0, <1>2, <2>1 DEF UseChallenge, Request, Steps
  <2>3. /\ q.company \in Companies /\ q.account \in Accounts
        /\ q.company = Home[q.account] /\ req[r].sid \in Reqs
    BY <1>2, <2>2 DEF UseChallenge, Shape, RequestsWellFormed, At
  <2>4. req' \in [Reqs -> Request] /\ RequestsWellFormed'
    BY <2>2, <2>3, MoveShape
  <2>5. /\ challenge' \in [Reqs -> Challenge]
        /\ \A l \in Reqs : challenge'[l].state = "open" =>
                             challenge'[l].account \in Accounts
    BY <1>2, <2>3 DEF UseChallenge, Shape, TypeOK, Challenge, RowsWellFormed
  <2> QED
    BY <1>2, <2>4, <2>5, ShapeParts, AssembleShape DEF UseChallenge
<1>3. CASE InsertSession(r)
  <2>1. req[r].account \in Accounts /\ ~At(r, "idle")
    BY <1>3 DEF InsertSession, Shape, RequestsWellFormed, At
  <2>2. req' \in [Reqs -> Request] /\ RequestsWellFormed'
    <3>1. GoTo(r, "done")
      BY <1>3 DEF InsertSession
    <3> QED
      BY <2>1, <3>1, StepShape
  <2>3. /\ session' \in [Sids -> Session]
        /\ \A s \in Sids : session'[s].state = "live" =>
                             session'[s].account \in Accounts
    BY <1>3, <2>1 DEF InsertSession, Shape, TypeOK, Session, RowsWellFormed, Live
  <2>4. /\ tokens' \subseteq [jti: Sids, sid: Sids, account: Accounts]
        /\ late' \subseteq Sids
    BY <1>3, <2>1 DEF InsertSession, Deliver, Shape, TypeOK
  <2> QED
    BY <1>3, <2>2, <2>3, <2>4, ShapeParts, AssembleShape DEF InsertSession
<1>4. CASE RefreshUser(r)
  <2>1. PICK p \in {"rejected", "rotate"}, b \in Status :
          req' = [req EXCEPT ![r] = [req[r] EXCEPT !.before = b, !.step = p]]
    BY <1>4 DEF RefreshUser, Shape, TypeOK, RequestsWellFormed, At
  <2>2. PICK q : q = [req[r] EXCEPT !.before = b, !.step = p]
    OBVIOUS
  <2>3. /\ q \in Request /\ q.step = p /\ q.company = req[r].company
        /\ q.account = req[r].account /\ q.sid = req[r].sid
        /\ req' = [req EXCEPT ![r] = q]
    BY <1>0, <2>1, <2>2 DEF Request, Steps
  <2>4. /\ q.company \in Companies /\ q.account \in Accounts
        /\ q.company = Home[q.account] /\ q.sid \in Sids
    BY <1>4, <2>3 DEF RefreshUser, Shape, RequestsWellFormed, At
  <2>5. req' \in [Reqs -> Request] /\ RequestsWellFormed'
    BY <2>3, <2>4, MoveShape
  <2>6. UNCHANGED <<company, flag, session, challenge, tokens, late, disturbed>>
    BY <1>4 DEF RefreshUser, logins
  <2> QED
    BY <2>5, <2>6, FrameShape DEF Shape, TypeOK
<1>5. CASE Rotate(r)
  <2>1. req[r].account \in Accounts /\ req[r].sid \in Sids /\ ~At(r, "idle")
    BY <1>5 DEF Rotate, Shape, RequestsWellFormed, At
  <2>2. req' \in [Reqs -> Request] /\ RequestsWellFormed'
    <3>1. GoTo(r, "done")
      BY <1>5 DEF Rotate
    <3> QED
      BY <2>1, <3>1, StepShape
  <2>3. tokens' \subseteq [jti: Sids, sid: Sids, account: Accounts]
    BY <1>5, <2>1 DEF Rotate, Deliver, Shape, TypeOK
  <2> QED
    BY <1>5, <2>2, <2>3, ShapeParts, AssembleShape DEF Rotate
<1>6. CASE UpdateCompany(r) \/ ArchiveCompany(r)
  <2>1. PICK p \in {"done", "flag"} : GoTo(r, p)
    BY <1>6 DEF UpdateCompany, ArchiveCompany
  <2>2. ~At(r, "idle") /\ req[r].to \in Status
    BY <1>6 DEF UpdateCompany, ArchiveCompany, Shape, RequestsWellFormed, At
  <2>3. req' \in [Reqs -> Request] /\ RequestsWellFormed'
    BY <2>1, <2>2, StepShape
  <2>4. company' \in [Companies -> [status: Status, deleted: BOOLEAN]]
    <3>1. CASE UpdateCompany(r)
      <4>1. PICK c \in Companies, to \in Status :
              company' = [company EXCEPT ![c].status = to]
        BY <2>2, <3>1 DEF UpdateCompany, Shape, RequestsWellFormed, At
      <4> QED
        BY <4>1, ShapeParts
    <3>2. CASE ArchiveCompany(r)
      BY <3>2 DEF ArchiveCompany, Shape, TypeOK, Status
    <3> QED
      BY <1>6, <3>1, <3>2
  <2>5. UNCHANGED <<flag, session, challenge, tokens, late, disturbed>>
    BY <1>6 DEF UpdateCompany, ArchiveCompany, logins
  <2> QED
    BY <2>3, <2>4, <2>5, ShapeParts, AssembleShape
<1>7. CASE WriteFlag(r)
  <2>1. ~At(r, "idle") /\ req[r].company \in Companies
    BY <1>7 DEF WriteFlag, Shape, RequestsWellFormed, At
  <2>2. req' \in [Reqs -> Request] /\ RequestsWellFormed'
    <3>1. PICK p \in {"revoke", "done"} : GoTo(r, p)
      BY <1>7 DEF WriteFlag, AfterFlag
    <3> QED
      BY <2>1, <3>1, StepShape
  <2>3. flag' \in [Companies -> BOOLEAN] /\ (crossed \cup unflagged)' \subseteq Companies
    BY <1>7, <2>1 DEF WriteFlag, Shape, TypeOK
  <2>4. UNCHANGED <<company, session, challenge, tokens, late>>
    BY <1>7 DEF WriteFlag, logins
  <2> QED
    BY <2>2, <2>3, <2>4, ShapeParts, AssembleShape
<1>8. CASE RevokeCompany(r)
  <2>1. ~At(r, "idle")
    BY <1>8 DEF RevokeCompany, At
  <2>2. req' \in [Reqs -> Request] /\ RequestsWellFormed'
    <3>1. GoTo(r, "done")
      BY <1>8 DEF RevokeCompany
    <3> QED
      BY <2>1, <3>1, StepShape
  <2>3. /\ session' \in [Sids -> Session]
        /\ \A s \in Sids : session'[s].state = "live" =>
                             session'[s].account \in Accounts
    BY <1>8 DEF RevokeCompany, Shape, TypeOK, Session, RowsWellFormed, Live
  <2>4. UNCHANGED <<company, flag, challenge, tokens, late, disturbed>>
    BY <1>8 DEF RevokeCompany, logins
  <2> QED
    BY <2>2, <2>3, <2>4, ShapeParts, AssembleShape
<1> QED
  BY <1>1, <1>2, <1>3, <1>4, <1>5, <1>6, <1>7, <1>8 DEF Continue

LEMMA EnvironmentShape ==
    ASSUME Shape,
           Restart \/ \E r \in Reqs : Abort(r) \/ Expire(r)
    PROVE  Shape'
<1>1. CASE Restart
  <2>1. /\ req' \in [Reqs -> Request]
        /\ \A r \in Reqs : /\ req'[r].company = req[r].company
                           /\ \/ req'[r].step = "failed" /\ ~At(r, "idle")
                              \/ req'[r] = req[r]
    <3>1. \A r \in Reqs : req[r] \in Request
      BY DEF Shape, TypeOK
    <3>2. \A r \in Reqs :
            /\ [req[r] EXCEPT !.step = "failed"] \in Request
            /\ [req[r] EXCEPT !.step = "failed"].company = req[r].company
            /\ [req[r] EXCEPT !.step = "failed"].step = "failed"
      BY <3>1 DEF Request, Steps
    <3>3. \A r \in Reqs : InFlight(r) => ~At(r, "idle")
      BY DEF InFlight, At
    <3>4. req' = [r \in Reqs |-> IF InFlight(r)
                    THEN [req[r] EXCEPT !.step = "failed"] ELSE req[r]]
      BY <1>1 DEF Restart
    <3> QED
      BY <3>1, <3>2, <3>3, <3>4
  <2>2. RequestsWellFormed'
    BY <2>1 DEF Shape, RequestsWellFormed, At
  <2>3. (crossed \cup unflagged)' \subseteq Companies
    BY <1>1 DEF Restart, Unflagged, Shape, TypeOK, RequestsWellFormed, At
  <2> QED
    BY <1>1, <2>1, <2>2, <2>3, ShapeParts, AssembleShape DEF Restart, logins
<1>2. ASSUME NEW r \in Reqs, Abort(r) PROVE Shape'
  <2>1. ~At(r, "idle")
    BY <1>2 DEF Abort, InFlight, At
  <2>2. req' \in [Reqs -> Request] /\ RequestsWellFormed'
    <3>1. GoTo(r, "failed")
      BY <1>2 DEF Abort
    <3> QED
      BY <2>1, <3>1, StepShape
  <2>3. /\ UNCHANGED <<company, flag, session, challenge, tokens, late>>
        /\ (crossed \cup unflagged)' \subseteq Companies
    BY <1>2 DEF Abort, Unflagged, logins, Shape, TypeOK, RequestsWellFormed, At
  <2> QED
    BY <2>2, <2>3, FrameShape
<1>3. ASSUME NEW l \in Reqs, Expire(l) PROVE Shape'
  BY <1>3 DEF Expire, Shape, TypeOK, Challenge, RequestsWellFormed,
              RowsWellFormed, Live, At
<1> QED
  BY <1>1, <1>2, <1>3

LEMMA NextShape == ASSUME Shape, [Next]_vars PROVE Shape'
<1>1. CASE UNCHANGED vars
  BY <1>1, ShapeParts, AssembleShape
  DEF vars, Shape, RequestsWellFormed, At
<1>2. ASSUME NEW r \in Reqs, PlatformUpdate(r) PROVE Shape'
  BY <1>2, StartWriterShape DEF PlatformUpdate
<1>3. ASSUME NEW r \in Reqs, Archive(r) PROVE Shape'
  BY <1>3, StartWriterShape DEF Archive, Status
<1> QED
  BY <1>1, <1>2, <1>3, LoginShape, VerifyShape, RefreshShape, ResetAdminShape,
     ContinueShape, EnvironmentShape DEF Next, Arrive

-----------------------------------------------------------------------------
(* The flag.  A step that leaves both copies alone and whose requests take *)
(* no part in the writing, or go on as they were.                          *)

FlagParts == WritersTakeTurns /\ FlagFollowsStatus

LEMMA FlagFrame ==
    ASSUME FlagParts, UNCHANGED <<company, flag>>,
           crossed \subseteq crossed', unflagged \subseteq unflagged',
           \A p \in Reqs :
              \/ req'[p] = req[p]
              \/ /\ req'[p].step \notin {"update", "archive", "flag"}
                 /\ At(p, "flag") => req[p].company \in unflagged'
    PROVE  FlagParts'
<1>1. WritersTakeTurns'
  BY DEF FlagParts, WritersTakeTurns, Writing, At
<1>2. FlagFollowsStatus'
  BY DEF FlagParts, FlagFollowsStatus, Suspended, At
<1> QED
  BY <1>1, <1>2 DEF FlagParts

LEMMA GoToFields ==
    ASSUME Shape, NEW r \in Reqs, NEW p, GoTo(r, p)
    PROVE  /\ req'[r].step = p /\ req'[r].company = req[r].company
           /\ req'[r].to = req[r].to /\ req'[r].account = req[r].account
           /\ \A q \in Reqs \ {r} : req'[q] = req[q]
<1>1. req[r] \in Request
  BY DEF Shape, TypeOK
<1>2. /\ req'[r] = [req[r] EXCEPT !.step = p]
      /\ \A q \in Reqs \ {r} : req'[q] = req[q]
  BY DEF GoTo, Shape, TypeOK
<1> QED
  BY <1>1, <1>2 DEF Request

LEMMA StartWriterFlag ==
    ASSUME Shape, FlagParts, NEW r \in Reqs, NEW op \in {"update", "archive"},
           NEW c \in Companies, NEW to \in Status,
           op = "archive" => to = "SUSPENDED", StartWriter(r, op, c, to)
    PROVE  FlagParts'
<1>1. /\ req'[r].step = op /\ req'[r].company = c
      /\ req'[r].before = company[c].status /\ req'[r].to = to
      /\ \A p \in Reqs \ {r} : req'[p] = req[p]
  BY StartWriterShape
<1>2. /\ At(r, "idle") /\ UNCHANGED <<company, flag>>
      /\ crossed' = IF \E q \in Reqs : Writing(q, c) THEN crossed \cup {c}
                    ELSE crossed
      /\ UNCHANGED unflagged
  BY DEF StartWriter
<1>3. WritersTakeTurns'
  BY <1>1, <1>2 DEF FlagParts, WritersTakeTurns, Writing, At
<1>4. FlagFollowsStatus'
  BY <1>1, <1>2 DEF FlagParts, FlagFollowsStatus, Suspended, At
<1> QED
  BY <1>3, <1>4 DEF FlagParts

LEMMA UpdateCompanyFlag ==
    ASSUME Shape, FlagParts, NEW r \in Reqs, UpdateCompany(r)
    PROVE  FlagParts'
<1> DEFINE c == req[r].company
<1>1. /\ c \in Companies /\ req[r].to \in Status /\ Writing(r, c)
  BY DEF UpdateCompany, Shape, RequestsWellFormed, Writing, At
<1>2. PICK p \in {"done", "flag"} :
        GoTo(r, p) /\ (p = "done" <=> req[r].to = req[r].before)
  BY DEF UpdateCompany
<1>3. /\ req'[r].step = p /\ req'[r].company = c /\ req'[r].to = req[r].to
      /\ \A q \in Reqs \ {r} : req'[q] = req[q]
  BY <1>2, GoToFields
<1>4. /\ company'[c].status = req[r].to
      /\ \A d \in Companies \ {c} : company'[d] = company[d]
      /\ UNCHANGED <<flag, disturbed>>
  BY <1>1 DEF UpdateCompany, Shape, TypeOK
<1>5. c \notin crossed => req[r].before = company[c].status
  BY <1>1 DEF FlagParts, WritersTakeTurns, UpdateCompany, At
<1>6. WritersTakeTurns'
  BY <1>1, <1>2, <1>3, <1>4 DEF FlagParts, WritersTakeTurns, Writing, At
<1>7. FlagFollowsStatus'
  <2> SUFFICES ASSUME NEW d \in Companies \ (crossed \cup unflagged)
               PROVE  \/ flag[d] = (company'[d].status = "SUSPENDED")
                      \/ \E q \in Reqs : /\ req'[q].company = d
                                        /\ req'[q].step = "flag"
    BY <1>4 DEF FlagFollowsStatus, Suspended, At
  <2>1. CASE d # c
    BY <2>1, <1>3, <1>4 DEF FlagParts, FlagFollowsStatus, Suspended, At
  <2>2. CASE d = c /\ p = "flag"
    BY <2>2, <1>3
  <2>3. CASE d = c /\ p = "done"
    <3>1. company'[c].status = company[c].status
      BY <2>3, <1>2, <1>4, <1>5
    <3>2. \A q \in Reqs : ~(req[q].company = c /\ At(q, "flag"))
      BY <2>3, <1>1 DEF FlagParts, WritersTakeTurns, Writing, UpdateCompany, At
    <3> QED
      BY <2>3, <3>1, <3>2 DEF FlagParts, FlagFollowsStatus, Suspended
  <2> QED
    BY <2>1, <2>2, <2>3
<1> QED
  BY <1>6, <1>7 DEF FlagParts

LEMMA ArchiveCompanyFlag ==
    ASSUME Shape, FlagParts, NEW r \in Reqs, ArchiveCompany(r)
    PROVE  FlagParts'
<1> DEFINE c == req[r].company
<1>1. /\ c \in Companies /\ req[r].to = "SUSPENDED" /\ Writing(r, c)
  BY DEF ArchiveCompany, Shape, RequestsWellFormed, Writing, At
<1>2. /\ req'[r].step = "flag" /\ req'[r].company = c
      /\ req'[r].to = "SUSPENDED"
      /\ \A q \in Reqs \ {r} : req'[q] = req[q]
  BY <1>1, GoToFields DEF ArchiveCompany
<1>3. /\ company'[c].status = "SUSPENDED"
      /\ \A d \in Companies \ {c} : company'[d] = company[d]
      /\ UNCHANGED <<flag, disturbed>>
  BY <1>1 DEF ArchiveCompany, Shape, TypeOK
<1>4. WritersTakeTurns'
  BY <1>1, <1>2, <1>3 DEF FlagParts, WritersTakeTurns, Writing, At
<1>5. FlagFollowsStatus'
  BY <1>1, <1>2, <1>3 DEF FlagParts, FlagFollowsStatus, Suspended, At
<1> QED
  BY <1>4, <1>5 DEF FlagParts

LEMMA WriteFlagFlag ==
    ASSUME Shape, FlagParts, NEW r \in Reqs, WriteFlag(r)
    PROVE  FlagParts'
<1> DEFINE c == req[r].company
<1>1. /\ c \in Companies /\ Writing(r, c) /\ UNCHANGED company
  BY DEF WriteFlag, Shape, RequestsWellFormed, Writing, At
<1>2. PICK p \in {"revoke", "done"} : GoTo(r, p)
  BY DEF WriteFlag, AfterFlag
<1>3. req'[r].step = p /\ \A q \in Reqs \ {r} : req'[q] = req[q]
  BY <1>2, GoToFields
<1>4. CASE UNCHANGED <<flag, crossed>> /\ unflagged' = unflagged \cup {c}
  BY <1>1, <1>3, <1>4, FlagFrame
<1>5. CASE /\ flag' = [flag EXCEPT ![c] = req[r].to = "SUSPENDED"]
           /\ unflagged' = unflagged \ {c} /\ UNCHANGED crossed
  <2>1. /\ flag'[c] = (req[r].to = "SUSPENDED")
        /\ \A d \in Companies \ {c} : flag'[d] = flag[d]
    BY <1>1, <1>5 DEF Shape, TypeOK
  <2>2. WritersTakeTurns'
    BY <1>1, <1>3, <1>5 DEF FlagParts, WritersTakeTurns, Writing, At
  <2>3. c \notin crossed => req[r].to = company[c].status
    BY <1>1 DEF FlagParts, WritersTakeTurns, WriteFlag
  <2>4. FlagFollowsStatus'
    <3> SUFFICES ASSUME NEW d \in Companies \ (crossed \cup unflagged')
                 PROVE  \/ flag'[d] = (company[d].status = "SUSPENDED")
                        \/ \E q \in Reqs : /\ req'[q].company = d
                                          /\ req'[q].step = "flag"
      BY <1>1, <1>5 DEF FlagFollowsStatus, Suspended, At
    <3>1. CASE d = c
      BY <3>1, <2>1, <2>3
    <3>2. CASE d # c
      BY <3>2, <2>1, <1>3, <1>5
      DEF FlagParts, FlagFollowsStatus, Suspended, At
    <3> QED
      BY <3>1, <3>2
  <2> QED
    BY <2>2, <2>4 DEF FlagParts
<1> QED
  BY <1>4, <1>5 DEF WriteFlag

LEMMA RestartFlag ==
    ASSUME Shape, FlagParts, Restart PROVE FlagParts'
<1>1. /\ UNCHANGED company
      /\ \A c \in Companies : flag'[c] = FALSE
      /\ unflagged' = unflagged \cup {c \in Companies : flag[c]}
                                \cup UNION {Unflagged(r) : r \in Reqs}
      /\ UNCHANGED crossed
  BY DEF Restart
<1>2. \A r \in Reqs : ~(req'[r].step \in {"update", "archive", "flag"})
  BY DEF Restart, InFlight, Ended, Shape, TypeOK, Request
<1>3. WritersTakeTurns'
  BY <1>2 DEF WritersTakeTurns, Writing
<1>4. FlagFollowsStatus'
  <2> SUFFICES ASSUME NEW c \in Companies \ (crossed \cup unflagged)'
               PROVE  flag'[c] = (company[c].status = "SUSPENDED")
    BY <1>1 DEF FlagFollowsStatus, Suspended
  <2>1. c \notin crossed \cup unflagged /\ flag[c] = FALSE
    BY <1>1 DEF Shape, TypeOK
  <2>2. \A r \in Reqs : ~(req[r].company = c /\ At(r, "flag"))
    BY <1>1 DEF Unflagged
  <2>3. flag[c] = (company[c].status = "SUSPENDED")
    BY <2>1, <2>2 DEF FlagParts, FlagFollowsStatus, Suspended
  <2> QED
    BY <2>1, <2>3, <1>1
<1> QED
  BY <1>3, <1>4 DEF FlagParts

LEMMA NextFlag == ASSUME Shape, FlagParts, [Next]_vars PROVE FlagParts'
<1>1. CASE UNCHANGED vars
  BY <1>1, FlagFrame DEF vars
<1>2. ASSUME NEW r \in Reqs,
             Login(r) \/ VerifyMfa(r) \/ Refresh(r) \/ ResetAdmin(r)
      PROVE  FlagParts'
  <2>1. /\ \A p \in Reqs \ {r} : req'[p] = req[p]
        /\ req'[r].step \notin {"update", "archive", "flag"}
    BY <1>2, LoginShape, VerifyShape, RefreshShape, ResetAdminShape
  <2>2. UNCHANGED <<company, flag, disturbed>> /\ At(r, "idle")
    BY <1>2 DEF Login, VerifyMfa, Refresh, ResetAdmin
  <2> QED
    BY <2>1, <2>2, FlagFrame DEF At
<1>3. ASSUME NEW r \in Reqs,
             \/ IssueChallenge(r) \/ UseChallenge(r) \/ InsertSession(r)
             \/ RefreshUser(r) \/ Rotate(r) \/ RevokeCompany(r)
      PROVE  FlagParts'
  <2>1. /\ \A p \in Reqs \ {r} : req'[p] = req[p]
        /\ req'[r].step \notin {"update", "archive", "flag"}
    <3>1. req \in [Reqs -> Request] /\ req[r] \in Request
      BY DEF Shape, TypeOK
    <3>2. CASE InsertSession(r) \/ Rotate(r) \/ RevokeCompany(r)
      BY <3>2, GoToFields DEF InsertSession, Rotate, RevokeCompany
    <3>3. CASE IssueChallenge(r)
      BY <3>1, <3>3 DEF IssueChallenge, Request
    <3>4. CASE UseChallenge(r)
      BY <3>1, <3>4 DEF UseChallenge, Request
    <3>5. CASE RefreshUser(r)
      BY <3>1, <3>5 DEF RefreshUser, Request
    <3> QED
      BY <1>3, <3>2, <3>3, <3>4, <3>5
  <2>2. UNCHANGED <<company, flag, disturbed>> /\ ~At(r, "flag")
    BY <1>3 DEF IssueChallenge, UseChallenge, InsertSession, RefreshUser,
        Rotate, RevokeCompany, At
  <2> QED
    BY <2>1, <2>2, FlagFrame
<1>4. ASSUME NEW r \in Reqs, Abort(r) PROVE FlagParts'
  <2>1. /\ \A p \in Reqs \ {r} : req'[p] = req[p]
        /\ req'[r].step = "failed"
    BY <1>4 DEF Abort, GoTo, Shape, TypeOK, Request
  <2>2. /\ UNCHANGED <<company, flag, crossed>> /\ unflagged \subseteq unflagged'
        /\ At(r, "flag") => req[r].company \in unflagged'
    BY <1>4 DEF Abort, Unflagged
  <2> QED
    BY <2>1, <2>2, FlagFrame
<1>5. ASSUME NEW l \in Reqs, Expire(l) PROVE FlagParts'
  BY <1>5, FlagFrame DEF Expire
<1>6. ASSUME NEW r \in Reqs, PlatformUpdate(r) PROVE FlagParts'
  BY <1>6, StartWriterFlag DEF PlatformUpdate
<1>7. ASSUME NEW r \in Reqs, Archive(r) PROVE FlagParts'
  BY <1>7, StartWriterFlag DEF Archive, Status
<1> QED
  BY <1>1, <1>2, <1>3, <1>4, <1>5, <1>6, <1>7, UpdateCompanyFlag,
     ArchiveCompanyFlag, WriteFlagFlag, RestartFlag
  DEF Next, Arrive, Continue

-----------------------------------------------------------------------------
(* The sessions.                                                           *)

(* Request r accounts for the live sessions of the company it suspends.    *)
Suspending(r) == /\ req[r].to = "SUSPENDED"
                 /\ req[r].step \in {"flag", "revoke", "failed"}

LEMMA EvictFrame ==
    ASSUME SuspensionEvictsSessions,
           crossed \subseteq crossed', late \subseteq late',
           UNCHANGED company,
           \A s \in Sids \ late' : session'[s].state = "live" =>
               \/ session'[s] = session[s]
               \/ company[Home[session'[s].account]].status # "SUSPENDED",
           \A p \in Reqs : Suspending(p) =>
               Suspending(p)' /\ req'[p].company = req[p].company
    PROVE  SuspensionEvictsSessions'
<1> SUFFICES ASSUME NEW s \in Sids \ late', Live(s)', CompanyOf(s)' \notin crossed',
                    company[CompanyOf(s)'].status = "SUSPENDED"
             PROVE  \E r \in Reqs : Suspending(r)' /\ req'[r].company = CompanyOf(s)'
  BY DEF SuspensionEvictsSessions, Suspending, Suspended
<1>1. Live(s) /\ CompanyOf(s)' = CompanyOf(s)
  BY DEF Live, CompanyOf
<1>2. PICK r \in Reqs : Suspending(r) /\ req[r].company = CompanyOf(s)
  BY <1>1 DEF SuspensionEvictsSessions, Suspending, Suspended
<1> QED
  BY <1>1, <1>2

LEMMA UpdateCompanyEvicts ==
    ASSUME Shape, FlagParts, SuspensionEvictsSessions,
           NEW r \in Reqs, UpdateCompany(r) \/ ArchiveCompany(r)
    PROVE  SuspensionEvictsSessions'
<1> DEFINE c == req[r].company
<1>1. /\ c \in Companies /\ Writing(r, c) /\ req[r].to \in Status
      /\ req[r].step \in {"update", "archive"}
  BY DEF UpdateCompany, ArchiveCompany, Shape, RequestsWellFormed, Writing, At
<1>2. PICK p \in {"done", "flag"} :
        GoTo(r, p) /\ (p = "done" => At(r, "update")
                                       /\ req[r].to = req[r].before)
  BY DEF UpdateCompany, ArchiveCompany
<1>3. /\ req'[r].step = p /\ req'[r].company = c /\ req'[r].to = req[r].to
      /\ \A q \in Reqs \ {r} : req'[q] = req[q]
  BY <1>2, GoToFields
<1>4. /\ company'[c].status = req[r].to
      /\ \A d \in Companies \ {c} : company'[d] = company[d]
      /\ UNCHANGED <<session, late, disturbed>>
  BY <1>1 DEF UpdateCompany, ArchiveCompany, Shape, TypeOK, logins,
              RequestsWellFormed, At
<1>5. \A q \in Reqs : Suspending(q) => Suspending(q)' /\ req'[q] = req[q]
  BY <1>1, <1>3 DEF Suspending
<1>6. CASE p = "flag" /\ req[r].to = "SUSPENDED"
  BY <1>3, <1>4, <1>5, <1>6
  DEF SuspensionEvictsSessions, Suspending, Suspended, Live, CompanyOf, At,
      Shape, RowsWellFormed
<1>7. CASE p = "done" \/ req[r].to # "SUSPENDED"
  <2>1. c \in crossed \/ req[r].to # "SUSPENDED"
            \/ company[c].status = "SUSPENDED"
    BY <1>1, <1>2, <1>7 DEF FlagParts, WritersTakeTurns
  <2> QED
    BY <1>3, <1>4, <1>5, <2>1
    DEF SuspensionEvictsSessions, Suspending, Suspended, Live, CompanyOf, At,
        Shape, RowsWellFormed
<1> QED
  BY <1>6, <1>7 DEF Status

LEMMA NextEvicts ==
    ASSUME Shape, FlagParts, SuspensionEvictsSessions, [Next]_vars
    PROVE  SuspensionEvictsSessions'
<1>1. CASE UNCHANGED vars
  BY <1>1, EvictFrame DEF vars, Suspending
<1>2. ASSUME NEW r \in Reqs, Arrive(r) PROVE SuspensionEvictsSessions'
  <2>1. /\ At(r, "idle") /\ UNCHANGED <<company, session, late>>
        /\ crossed \subseteq crossed'
    BY <1>2 DEF Arrive, Login, VerifyMfa, Refresh, PlatformUpdate, Archive,
                StartWriter, ResetAdmin, logins
  <2>2. \A p \in Reqs \ {r} : req'[p] = req[p]
    BY <1>2, LoginShape, VerifyShape, RefreshShape, ResetAdminShape,
       StartWriterShape DEF Arrive, PlatformUpdate, Archive, Status
  <2>3. \A p \in Reqs : Suspending(p) => Suspending(p)' /\ req'[p] = req[p]
    BY <2>1, <2>2 DEF Suspending, At
  <2> QED
    BY <2>1, <2>3, EvictFrame
<1>3. ASSUME NEW r \in Reqs,
             IssueChallenge(r) \/ UseChallenge(r) \/ RefreshUser(r) \/ Rotate(r)
      PROVE  SuspensionEvictsSessions'
  <2>1. /\ ~Suspending(r) /\ UNCHANGED <<company, session, late, disturbed>>
        /\ \A p \in Reqs \ {r} : req'[p] = req[p]
    BY <1>3 DEF IssueChallenge, UseChallenge, RefreshUser, Rotate, GoTo,
                Suspending, At, logins, Shape, TypeOK
  <2>2. \A p \in Reqs : Suspending(p) => Suspending(p)' /\ req'[p] = req[p]
    BY <2>1 DEF Suspending
  <2> QED
    BY <2>1, <2>2, EvictFrame
<1>4. ASSUME NEW r \in Reqs, InsertSession(r) PROVE SuspensionEvictsSessions'
  <2>1. /\ At(r, "insert") /\ UNCHANGED <<company, disturbed>>
        /\ \A p \in Reqs \ {r} : req'[p] = req[p]
    BY <1>4, GoToFields DEF InsertSession
  <2>2. \A p \in Reqs : Suspending(p) => Suspending(p)' /\ req'[p] = req[p]
    BY <2>1 DEF Suspending, At
  <2>3. /\ session'[r].account = req[r].account
        /\ req[r].company = Home[req[r].account]
        /\ \A s \in Sids \ {r} : session'[s] = session[s]
    BY <1>4 DEF InsertSession, Shape, TypeOK, RequestsWellFormed, At
  <2>4. /\ late \subseteq late'
        /\ r \notin late' =>
               company[Home[session'[r].account]].status # "SUSPENDED"
    BY <1>4, <2>3 DEF InsertSession, Suspended
  <2> QED
    BY <2>1, <2>2, <2>3, <2>4, EvictFrame
<1>5. ASSUME NEW r \in Reqs, WriteFlag(r) PROVE SuspensionEvictsSessions'
  <2>1. /\ UNCHANGED <<company, session, late>> /\ crossed \subseteq crossed'
        /\ GoTo(r, AfterFlag(r))
    BY <1>5 DEF WriteFlag, logins
  <2>2. \A p \in Reqs : Suspending(p) =>
            Suspending(p)' /\ req'[p].company = req[p].company
    BY <2>1, GoToFields DEF Suspending, AfterFlag
  <2> QED
    BY <2>1, <2>2, EvictFrame
<1>6. ASSUME NEW r \in Reqs, RevokeCompany(r) PROVE SuspensionEvictsSessions'
  <2>1. /\ At(r, "revoke") /\ UNCHANGED <<company, late, disturbed>>
        /\ \A p \in Reqs \ {r} : req'[p] = req[p]
    BY <1>6, GoToFields DEF RevokeCompany, logins
  <2>2. \A s \in Sids : session'[s].state = "live" =>
            session'[s] = session[s] /\ CompanyOf(s) # req[r].company
    BY <1>6 DEF RevokeCompany, Live, Shape, TypeOK, Session
  <2> QED
    BY <2>1, <2>2 DEF SuspensionEvictsSessions, Suspended, Live, CompanyOf
<1>7. ASSUME NEW r \in Reqs, Abort(r) PROVE SuspensionEvictsSessions'
  <2>1. /\ UNCHANGED <<company, session, late>> /\ crossed \subseteq crossed'
        /\ GoTo(r, "failed")
    BY <1>7 DEF Abort, logins
  <2>2. \A p \in Reqs : Suspending(p) =>
            Suspending(p)' /\ req'[p].company = req[p].company
    BY <2>1, GoToFields DEF Suspending
  <2> QED
    BY <2>1, <2>2, EvictFrame
<1>8. ASSUME NEW l \in Reqs, Expire(l) PROVE SuspensionEvictsSessions'
  BY <1>8, EvictFrame DEF Expire, Suspending
<1>9. CASE Restart
  <2>1. /\ UNCHANGED <<company, session, late>> /\ crossed \subseteq crossed'
    BY <1>9 DEF Restart, logins
  <2>2. \A p \in Reqs : Suspending(p) =>
            Suspending(p)' /\ req'[p].company = req[p].company
    <3>1. \A p \in Reqs : req[p] \in Request
      BY DEF Shape, TypeOK
    <3> QED
      BY <1>9, <3>1 DEF Restart, Suspending, InFlight, Request
  <2> QED
    BY <2>1, <2>2, EvictFrame
<1> QED
  BY <1>1, <1>2, <1>3, <1>4, <1>5, <1>6, <1>7, <1>8, <1>9, UpdateCompanyEvicts
  DEF Next, Continue

-----------------------------------------------------------------------------
(* Tokens of a company that is shut down.                                  *)

LEMMA NextShutDown ==
    ASSUME Shape, NEW c \in Companies, ShutDown(c), [Next]_vars
    PROVE  /\ TenantTokens(c)' = TenantTokens(c)
           /\ Suspended(c)' => ShutDown(c)'
<1>1. CASE UNCHANGED vars
  BY <1>1 DEF vars, TenantTokens, ShutDown, Suspended, Committed
<1>2. ASSUME NEW r \in Reqs,
             UNCHANGED <<challenge, tokens>>,
             \A p \in Reqs \ {r} : req'[p] = req[p],
             Committed(r, c)' => req'[r].account \in Supers
      PROVE  /\ TenantTokens(c)' = TenantTokens(c)
             /\ Suspended(c)' => ShutDown(c)'
  BY <1>2 DEF TenantTokens, ShutDown, Committed
<1>3. ASSUME NEW r \in Reqs, Login(r)
      PROVE  /\ TenantTokens(c)' = TenantTokens(c)
             /\ Suspended(c)' => ShutDown(c)'
  <2>1. UNCHANGED <<challenge, tokens>>
    BY <1>3 DEF Login, logins
  <2>2. Committed(r, c)' => req'[r].account \in Supers
    BY <1>3, LoginShape DEF Committed, Barred, ShutDown
  <2>3. \A p \in Reqs \ {r} : req'[p] = req[p]
    BY <1>3, LoginShape
  <2> QED
    BY <1>2, <2>1, <2>2, <2>3
<1>4. ASSUME NEW r \in Reqs, VerifyMfa(r)
      PROVE  /\ TenantTokens(c)' = TenantTokens(c)
             /\ Suspended(c)' => ShutDown(c)'
  <2>1. UNCHANGED <<challenge, tokens>>
    BY <1>4 DEF VerifyMfa, logins
  <2>2. Committed(r, c)' => req'[r].account \in Supers
    BY <1>4, VerifyShape DEF Committed, ShutDown
  <2>3. \A p \in Reqs \ {r} : req'[p] = req[p]
    BY <1>4, VerifyShape
  <2> QED
    BY <1>2, <2>1, <2>2, <2>3
<1>5. ASSUME NEW r \in Reqs,
             Refresh(r) \/ PlatformUpdate(r) \/ Archive(r) \/ ResetAdmin(r)
      PROVE  /\ TenantTokens(c)' = TenantTokens(c)
             /\ Suspended(c)' => ShutDown(c)'
  <2>1. UNCHANGED <<challenge, tokens>>
    BY <1>5 DEF Refresh, PlatformUpdate, Archive, StartWriter, ResetAdmin, logins
  <2>2. /\ \A p \in Reqs \ {r} : req'[p] = req[p]
        /\ ~Committed(r, c)'
    BY <1>5, RefreshShape, StartWriterShape, ResetAdminShape
    DEF Committed, PlatformUpdate, Archive, Status
  <2> QED
    BY <1>2, <2>1, <2>2
<1>6. ASSUME NEW r \in Reqs, IssueChallenge(r)
      PROVE  /\ TenantTokens(c)' = TenantTokens(c)
             /\ Suspended(c)' => ShutDown(c)'
  <2>1. /\ req[r].company = Home[req[r].account]
        /\ req[r].company = c => req[r].account \in Supers
    BY <1>6 DEF IssueChallenge, Shape, RequestsWellFormed, ShutDown, Committed, At
  <2>2. /\ challenge'[r].account = req[r].account
        /\ \A l \in Reqs \ {r} : challenge'[l] = challenge[l]
        /\ req'[r].step = "done"
        /\ \A p \in Reqs \ {r} : req'[p] = req[p]
        /\ UNCHANGED <<tokens, company>>
    BY <1>6 DEF IssueChallenge, Shape, TypeOK, Request
  <2> QED
    BY <2>1, <2>2 DEF TenantTokens, ShutDown, Committed
<1>7. ASSUME NEW r \in Reqs, UseChallenge(r)
      PROVE  /\ TenantTokens(c)' = TenantTokens(c)
             /\ Suspended(c)' => ShutDown(c)'
  <2>1. req[r].company = c => req[r].account \in Supers
    BY <1>7 DEF UseChallenge, ShutDown, Committed, At
  <2>2. /\ req'[r].account = req[r].account /\ req'[r].company = req[r].company
        /\ \A p \in Reqs \ {r} : req'[p] = req[p]
        /\ UNCHANGED <<tokens, company>>
    BY <1>7 DEF UseChallenge, Shape, TypeOK, Request
  <2>3. \A l \in Reqs : challenge'[l].state = "open" =>
                           challenge'[l] = challenge[l]
    BY <1>7 DEF UseChallenge, Shape, TypeOK, Challenge, RequestsWellFormed
  <2> QED
    BY <2>1, <2>2, <2>3 DEF TenantTokens, ShutDown, Committed
<1>8. ASSUME NEW r \in Reqs, InsertSession(r) \/ Rotate(r)
      PROVE  /\ TenantTokens(c)' = TenantTokens(c)
             /\ Suspended(c)' => ShutDown(c)'
  <2>1. /\ req[r].company = Home[req[r].account]
        /\ req[r].company = c => req[r].account \in Supers
    BY <1>8 DEF InsertSession, Rotate, Shape, RequestsWellFormed, ShutDown,
                Committed, At
  <2>2. /\ \E s : tokens' = tokens \cup
               {[jti |-> r, sid |-> s, account |-> req[r].account]}
        /\ GoTo(r, "done") /\ UNCHANGED <<challenge, company>>
    BY <1>8 DEF InsertSession, Rotate, Deliver
  <2>3. TenantTokens(c)' = TenantTokens(c)
    BY <2>1, <2>2 DEF TenantTokens
  <2>4. Suspended(c)' => ShutDown(c)'
    BY <2>2, GoToFields DEF ShutDown, Committed, Suspended
  <2> QED
    BY <2>3, <2>4
<1>9. ASSUME NEW r \in Reqs, RefreshUser(r)
      PROVE  /\ TenantTokens(c)' = TenantTokens(c)
             /\ Suspended(c)' => ShutDown(c)'
  <2>1. UNCHANGED <<challenge, tokens>>
    BY <1>9 DEF RefreshUser, logins
  <2>2. /\ \A p \in Reqs \ {r} : req'[p] = req[p]
        /\ req'[r].account = req[r].account /\ req'[r].company = req[r].company
        /\ Barred(req[r].account) => req'[r].step = "rejected"
    BY <1>9 DEF RefreshUser, Shape, TypeOK, Request
  <2>3. Committed(r, c)' => req'[r].account \in Supers
    BY <1>9, <2>2 DEF RefreshUser, Shape, RequestsWellFormed, Committed, Barred,
                      ShutDown, At
  <2> QED
    BY <1>2, <2>1, <2>2, <2>3
<1>10. ASSUME NEW r \in Reqs,
              \/ UpdateCompany(r) \/ ArchiveCompany(r) \/ WriteFlag(r)
              \/ RevokeCompany(r) \/ Abort(r)
       PROVE  /\ TenantTokens(c)' = TenantTokens(c)
              /\ Suspended(c)' => ShutDown(c)'
  <2>1. UNCHANGED <<challenge, tokens>>
    BY <1>10 DEF UpdateCompany, ArchiveCompany, WriteFlag, RevokeCompany, Abort,
                 logins
  <2>2. PICK p \in {"done", "flag", "revoke", "failed"} : GoTo(r, p)
    BY <1>10 DEF UpdateCompany, ArchiveCompany, WriteFlag, RevokeCompany, Abort,
                 AfterFlag
  <2>3. ~Committed(r, c)'
    BY <2>2, GoToFields DEF Committed
  <2> QED
    BY <1>2, <2>1, <2>2, <2>3, GoToFields
<1>11. ASSUME NEW l \in Reqs, Expire(l)
       PROVE  /\ TenantTokens(c)' = TenantTokens(c)
              /\ Suspended(c)' => ShutDown(c)'
  <2>1. \A k \in Reqs : challenge'[k].state = "open" =>
                           challenge'[k] = challenge[k]
    BY <1>11 DEF Expire, Shape, TypeOK, Challenge
  <2> QED
    BY <1>11, <2>1 DEF Expire, TenantTokens, ShutDown, Committed
<1>12. ASSUME Restart
       PROVE  /\ TenantTokens(c)' = TenantTokens(c)
              /\ Suspended(c)' => ShutDown(c)'
  <2>1. \A p \in Reqs : req'[p] = req[p] \/ ~Committed(p, c)'
    <3>1. \A p \in Reqs : req[p] \in Request
      BY DEF Shape, TypeOK
    <3> QED
      BY <1>12, <3>1 DEF Restart, Committed, Request
  <2> QED
    BY <1>12, <2>1 DEF Restart, logins, TenantTokens, ShutDown, Committed
<1> QED
  BY <1>1, <1>3, <1>4, <1>5, <1>6, <1>7, <1>8, <1>9, <1>10, <1>11, <1>12
  DEF Next, Arrive, Continue

-----------------------------------------------------------------------------
LEMMA Invariance == Spec => [](IInv /\ SuspensionEvictsSessions)
<1>1. Init => IInv /\ SuspensionEvictsSessions
  BY InitIInv DEF Init, SuspensionEvictsSessions, Suspended, CompanyOf, Live,
                  IInv, Shape, RowsWellFormed
<1>2. IInv /\ SuspensionEvictsSessions /\ [Next]_vars
          => IInv' /\ SuspensionEvictsSessions'
  BY NextShape, NextFlag, NextEvicts DEF IInv, FlagParts
<1> QED
  BY <1>1, <1>2, PTL DEF Spec

(* The state of the tenants has its type.                                  *)
THEOREM TenantTypeCorrect == Spec => []TypeOK
<1>1. IInv => TypeOK
  BY DEF IInv, Shape
<1> QED
  BY <1>1, Invariance, PTL

(* company.service and auth.middleware: for a company whose administrators *)
(* take turns and whose flag has not been lost, or missed, since the last  *)
(* writer, the Redis flag and the status in the database agree whenever no *)
(* writer is between the two.                                              *)
THEOREM FlagFollows == Spec => []FlagFollowsStatus
<1>1. IInv => FlagFollowsStatus
  BY DEF IInv
<1> QED
  BY <1>1, Invariance, PTL

(* Suspending a company whose administrators take turns leaves no session  *)
(* live but those of logins that had passed the gates before, also when    *)
(* the flag could not be written: it rests on WritersTakeTurns alone.      *)
THEOREM SuspensionEvicts == Spec => []SuspensionEvictsSessions
  BY Invariance, PTL

(* Whatever happens to Redis, a suspended company with no login or refresh *)
(* under way obtains no token until it is reactivated.                     *)
THEOREM NoTokenWhileSuspended == Spec => SuspendedTenantGetsNoToken
<1>1. IInv /\ [Next]_vars =>
        [\A c \in Companies : ShutDown(c) =>
           /\ TenantTokens(c)' = TenantTokens(c)
           /\ Suspended(c)' => ShutDown(c)']_vars
  BY NextShutDown DEF IInv
<1> QED
  BY <1>1, Invariance, PTL DEF Spec, SuspendedTenantGetsNoToken
=============================================================================
