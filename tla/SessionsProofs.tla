--------------------------- MODULE SessionsProofs ---------------------------
(***************************************************************************)
(* Theorems about Sessions, for any numbers of users, requests and         *)
(* sessions, any lifetimes and any clock bound.                            *)
(***************************************************************************)
EXTENDS Sessions, TLAPS

(* What a request in flight carries, and what the tokens and the session   *)
(* rows have to do with each other.                                        *)
RequestsWellFormed ==
    \A r \in Reqs :
        /\ ~At(r, "idle") => req[r].user \in Users
        /\ req[r].step \in {"idle", "device", "insert"} =>
               session[r].state = "none"
        /\ req[r].step \in {"user", "rotate", "find", "revoke"} =>
               req[r].sid \in Sids
        /\ req[r].step \in {"user", "rotate"} =>
               session[req[r].sid].state # "none"
        /\ At(r, "blacklist") => req[r].jti \in Sids
        /\ At(r, "update") => req[r].op \in PasswordWrites
        /\ req[r].step \in {"insert", "findDevice", "endSessions",
                           "deleteDevice"} => req[r].dev \in Sids

RowsWellFormed ==
    /\ \A s \in Sids : session[s].state # "none" <=> session[s].user \in Users
    /\ \A t \in refreshTokens : session[t.sid].state # "none"
    /\ \A a \in accessTokens : session[a.sid].state # "none"

IInv == TypeOK /\ RequestsWellFormed /\ RowsWellFormed

(* The types of the variables about devices.                              *)
DeviceTypes ==
    /\ device \in [Sids -> Users \cup {Nobody}]
    /\ openedOn \in [Sids -> Sids \cup {NoSid}]

USE DEF devices

LEMMA InitIInv == Init => IInv
  BY SessionsAssumption
  DEF Init, IInv, TypeOK, RequestsWellFormed, RowsWellFormed, Idle, Row, Sids,
      Request, Steps, Operations, RefreshToken, AccessToken, At

(* RevokeAll and RevokeOne keep every row, but for its state.              *)
LEMMA RevokeAllRows ==
    ASSUME TypeOK, NEW u, NEW except, RevokeAll(u, except)
    PROVE  /\ session' \in [Sids -> Row]
           /\ \A s \in Sids : /\ session'[s].user = session[s].user
                              /\ session'[s].iat = session[s].iat
                              /\ session'[s].state = "none"
                                     <=> session[s].state = "none"
                              /\ Revoked(s) => session'[s].state = "revoked"
  BY DEF TypeOK, RevokeAll, Row, Live, Revoked

LEMMA RevokeOneRows ==
    ASSUME TypeOK, NEW x \in Sids, RevokeOne(x)
    PROVE  /\ session' \in [Sids -> Row]
           /\ \A s \in Sids : /\ session'[s].user = session[s].user
                              /\ session'[s].iat = session[s].iat
                              /\ session'[s].state = "none"
                                     <=> session[s].state = "none"
                              /\ Revoked(s) => session'[s].state = "revoked"
  BY DEF TypeOK, RevokeOne, Row, Live, Revoked

LEMMA EndSessionsRows ==
    ASSUME TypeOK, NEW r, EndSessions(r)
    PROVE  /\ session' \in [Sids -> Row]
           /\ \A s \in Sids : /\ session'[s].user = session[s].user
                              /\ session'[s].iat = session[s].iat
                              /\ session'[s].state = "none"
                                     <=> session[s].state = "none"
                              /\ Revoked(s) => session'[s].state = "revoked"
  BY DEF TypeOK, EndSessions, Row, Live, Revoked

-----------------------------------------------------------------------------
(* IInv is inductive.                                                      *)

LEMMA StartIInv ==
    ASSUME IInv, NEW r \in Reqs, NEW op \in Operations, NEW u \in Users,
           NEW s \in Sids \cup {NoSid}, NEW jti \in Sids \cup {NoSid},
           NEW step \in {"find", "revoke", "evict", "update", "softDelete",
                         "undelete", "rehire"},
           step \in {"find", "revoke"} => s \in Sids,
           step = "update" => op \in PasswordWrites,
           Start(r, op, step, u, s, jti)
    PROVE  IInv'
<1>1. req' = [req EXCEPT ![r] = [Idle EXCEPT !.op = op, !.step = step,
                 !.user = u, !.sid = s, !.jti = jti]]
  BY DEF Start
<1>2. UNCHANGED <<now, user, session, refreshTokens, accessTokens, blacklist,
                  vouched, astray, spent, devices>>
  BY DEF Start
<1>3. req'[r] \in Request
  BY <1>1 DEF IInv, TypeOK, Idle, Request, Steps
<1>4. TypeOK'
  BY <1>1, <1>2, <1>3 DEF IInv, TypeOK
<1>5. /\ req'[r].step = step /\ req'[r].user = u /\ req'[r].sid = s
      /\ req'[r].op = op
  BY <1>1 DEF IInv, TypeOK, Idle
<1>6. \A q \in Reqs \ {r} : req'[q] = req[q]
  BY <1>1 DEF IInv, TypeOK
<1>7. RequestsWellFormed'
  BY <1>2, <1>5, <1>6 DEF IInv, RequestsWellFormed, At
<1>8. RowsWellFormed'
  BY <1>2 DEF IInv, RowsWellFormed
<1> QED
  BY <1>4, <1>7, <1>8 DEF IInv

(* A step that changes no session row and moves only request r.            *)
LEMMA MoveIInv ==
    ASSUME IInv, NEW r \in Reqs, NEW q \in Request,
           req' = [req EXCEPT ![r] = q],
           q.step \notin {"idle", "find", "update", "blacklist"},
           q.step = "device" => At(r, "idle"),
           q.step = "insert" => At(r, "device") /\ q.dev \in Sids,
           q.step \in {"findDevice", "endSessions", "deleteDevice"} =>
               q.dev \in Sids,
           q.step \in {"user", "rotate", "revoke"} =>
               q.sid \in Sids /\ session[q.sid].state # "none",
           q.user \in Users,
           UNCHANGED <<now, session, refreshTokens, accessTokens, vouched,
                       astray, spent, slipped>>,
           user' \in [Users -> [pw: Nat, deleted: BOOLEAN]],
           blacklist' \in [Sids -> Nat], DeviceTypes'
    PROVE  IInv'
<1>1. /\ \A p \in Reqs \ {r} : req'[p] = req[p]
      /\ req'[r] = q
  BY DEF IInv, TypeOK
<1>2. TypeOK'
  BY DEF IInv, TypeOK, DeviceTypes
<1>3. RequestsWellFormed'
  BY <1>1 DEF IInv, RequestsWellFormed, At
<1>4. RowsWellFormed'
  BY DEF IInv, RowsWellFormed
<1> QED
  BY <1>2, <1>3, <1>4 DEF IInv

LEMMA DevicesKept ==
    ASSUME IInv, UNCHANGED devices
    PROVE  DeviceTypes' /\ slipped' \subseteq Sids
  BY DEF IInv, TypeOK, DeviceTypes

LEMMA GoToReq ==
    ASSUME TypeOK, NEW r \in Reqs, NEW p \in Steps, GoTo(r, p)
    PROVE  /\ req' \in [Reqs -> Request]
           /\ req' = [req EXCEPT ![r] = req'[r]]
           /\ \A q \in Reqs \ {r} : req'[q] = req[q]
           /\ req'[r] = [req[r] EXCEPT !.step = p]
           /\ req'[r].step = p /\ req'[r].op = req[r].op
           /\ req'[r].user = req[r].user /\ req'[r].sid = req[r].sid
           /\ req'[r].jti = req[r].jti /\ req'[r].pw = req[r].pw
           /\ req'[r].dev = req[r].dev
  BY DEF TypeOK, GoTo, Request

(* A step that revokes sessions and moves request r to step p.             *)
LEMMA RevokeIInv ==
    ASSUME IInv, NEW r \in Reqs, NEW p \in {"done", "rejected", "blacklist", "deleteDevice"},
           ~At(r, "idle"), p = "blacklist" => req[r].jti \in Sids,
           p = "deleteDevice" => req[r].dev \in Sids,
           GoTo(r, p),
           session' \in [Sids -> Row],
           \A s \in Sids : /\ session'[s].user = session[s].user
                           /\ session'[s].state = "none"
                                  <=> session[s].state = "none",
           UNCHANGED <<now, user, refreshTokens, accessTokens, blacklist,
                       astray, spent, devices>>,
           vouched' \in [Sids -> Nat]
    PROVE  IInv'
<1>1. /\ \A q \in Reqs \ {r} : req'[q] = req[q]
      /\ req'[r].step = p /\ req'[r].user = req[r].user
      /\ req'[r].jti = req[r].jti /\ req'[r].dev = req[r].dev
      /\ req' \in [Reqs -> Request]
  BY GoToReq DEF IInv, Steps
<1>2. TypeOK'
  BY <1>1 DEF IInv, TypeOK
<1>3. RequestsWellFormed'
  BY <1>1, SessionsAssumption DEF IInv, RequestsWellFormed, At, Sids
<1>4. RowsWellFormed'
  BY DEF IInv, TypeOK, RowsWellFormed, RefreshToken, AccessToken
<1> QED
  BY <1>2, <1>3, <1>4 DEF IInv

LEMMA ArriveIInv ==
    ASSUME IInv, NEW r \in Reqs, Arrive(r)
    PROVE  IInv'
<1> USE DEF Operations, PasswordWrites
<1>1. CASE LoginVerify(r)
  <2>1. PICK u \in Users :
          req' = [req EXCEPT ![r] = [Idle EXCEPT !.op = "login",
                      !.step = "device", !.user = u, !.sid = r,
                      !.pw = user[u].pw]]
    BY <1>1 DEF LoginVerify
  <2> DEFINE q == [Idle EXCEPT !.op = "login", !.step = "device", !.user = u,
                               !.sid = r, !.pw = user[u].pw]
  <2>2. q \in Request /\ q.step = "device" /\ q.user = u
    BY DEF IInv, TypeOK, Idle, Request, Steps, Sids
  <2>3. At(r, "idle") /\ UNCHANGED <<now, user, session, refreshTokens,
                             accessTokens, vouched, astray, spent, blacklist,
                             devices>>
    BY <1>1 DEF LoginVerify, tokens, history
  <2>4. /\ user' \in [Users -> [pw: Nat, deleted: BOOLEAN]]
        /\ blacklist' \in [Sids -> Nat]
    BY <2>3 DEF IInv, TypeOK
  <2> HIDE DEF q
  <2> QED
    BY <2>1, <2>2, <2>3, <2>4, MoveIInv, DevicesKept DEF q
<1>2. CASE RefreshRead(r)
  <2>1. PICK t \in refreshTokens :
          req' = [req EXCEPT ![r] = [Idle EXCEPT !.op = "refresh",
                      !.step = RefreshVerdict(t), !.sid = t.sid,
                      !.user = session[t.sid].user, !.iat = t.iat]]
    BY <1>2 DEF RefreshRead
  <2> DEFINE q == [Idle EXCEPT !.op = "refresh", !.step = RefreshVerdict(t),
                      !.sid = t.sid, !.user = session[t.sid].user,
                      !.iat = t.iat]
  <2>2. /\ RefreshVerdict(t) \in {"rejected", "reuse", "user"}
        /\ t.sid \in Sids /\ t.iat \in Nat
        /\ session[t.sid].state # "none"
        /\ session[t.sid].user \in Users
    BY DEF RefreshVerdict, IInv, TypeOK, RefreshToken, RowsWellFormed
  <2>3. /\ q \in Request /\ q.step \in {"rejected", "reuse", "user"}
        /\ q.user \in Users /\ q.sid = t.sid
    BY <2>2 DEF Idle, Request, Steps
  <2>4. UNCHANGED <<now, user, session, refreshTokens, accessTokens, vouched,
                    astray, spent, blacklist, devices>>
    BY <1>2 DEF RefreshRead, tokens, history
  <2>5. /\ user' \in [Users -> [pw: Nat, deleted: BOOLEAN]]
        /\ blacklist' \in [Sids -> Nat]
    BY <2>4 DEF IInv, TypeOK
  <2>6. req' = [req EXCEPT ![r] = q]
    BY <2>1
  <2> HIDE DEF q
  <2> QED
    BY <2>2, <2>3, <2>4, <2>5, <2>6, MoveIInv, DevicesKept
<1>3. ASSUME NEW a \in accessTokens, NEW op \in Operations,
             NEW step \in {"find", "revoke", "evict", "update"},
             NEW s \in Sids, NEW jti \in Sids \cup {NoSid},
             step = "update" => op = "change",
             StartAuthenticated(r, op, step, a, s, jti)
      PROVE  IInv'
  <2>1. session[a.sid].user \in Users
    BY DEF IInv, RowsWellFormed, TypeOK, AccessToken
  <2> QED
    BY <1>3, <2>1, StartIInv DEF StartAuthenticated
<1>4. \A a \in accessTokens : a.sid \in Sids /\ a.jti \in Sids
  BY DEF IInv, TypeOK, AccessToken
<1>5. CASE Logout(r)
  <2>1. PICK a \in accessTokens :
          StartAuthenticated(r, "logout", "revoke", a, a.sid, a.jti)
    BY <1>5 DEF Logout
  <2> QED
    BY <2>1, <1>3, <1>4
<1>6. CASE Kill(r)
  <2>1. PICK a \in accessTokens, s \in Sids :
          StartAuthenticated(r, "kill", "find", a, s, NoSid)
    BY <1>6 DEF Kill
  <2> QED
    BY <2>1, <1>3
<1>7. CASE LogoutAll(r)
  <2>1. PICK a \in accessTokens :
          StartAuthenticated(r, "logoutAll", "evict", a, a.sid, NoSid)
    BY <1>7 DEF LogoutAll
  <2> QED
    BY <2>1, <1>3, <1>4
<1>8. CASE ChangePassword(r)
  <2>1. PICK a \in accessTokens :
          StartAuthenticated(r, "change", "update", a, a.sid, NoSid)
    BY <1>8 DEF ChangePassword
  <2> QED
    BY <2>1, <1>3, <1>4
<1>9. CASE ResetPassword(r)
  BY <1>9, StartIInv DEF ResetPassword
<1>10. CASE ResendInvite(r)
  BY <1>10, StartIInv DEF ResendInvite
<1>11. CASE RemoveUser(r)
  BY <1>11, StartIInv DEF RemoveUser
<1>12. CASE RestoreUser(r)
  BY <1>12, StartIInv DEF RestoreUser
<1>14. CASE RehireUser(r)
  BY <1>14, StartIInv DEF RehireUser
<1>13. CASE RemoveDevice(r)
  <2>1. PICK a \in accessTokens, d \in Sids :
          req' = [req EXCEPT ![r] = [Idle EXCEPT !.op = "removeDevice",
                      !.step = "findDevice", !.user = session[a.sid].user,
                      !.dev = d]]
    BY <1>13 DEF RemoveDevice
  <2> DEFINE q == [Idle EXCEPT !.op = "removeDevice", !.step = "findDevice",
                      !.user = session[a.sid].user, !.dev = d]
  <2>2. session[a.sid].user \in Users
    BY <1>4 DEF IInv, RowsWellFormed, TypeOK
  <2>3. q \in Request /\ q.step = "findDevice" /\ q.user \in Users /\ q.dev = d
    BY <2>2 DEF Idle, Request, Steps
  <2>4. UNCHANGED <<now, user, session, refreshTokens, accessTokens, vouched,
                    astray, spent, blacklist, devices>>
    BY <1>13 DEF RemoveDevice, tokens, history
  <2>5. /\ user' \in [Users -> [pw: Nat, deleted: BOOLEAN]]
        /\ blacklist' \in [Sids -> Nat]
    BY <2>4 DEF IInv, TypeOK
  <2>6. req' = [req EXCEPT ![r] = q]
    BY <2>1
  <2> HIDE DEF q
  <2> QED
    BY <2>3, <2>4, <2>5, <2>6, MoveIInv, DevicesKept
<1> QED
  BY <1>1, <1>2, <1>5, <1>6, <1>7, <1>8, <1>9, <1>10, <1>11, <1>12, <1>13,
     <1>14
  DEF Arrive

(* A request that only moves on to step p.                                 *)
LEMMA GoToIInv ==
    ASSUME IInv, NEW r \in Reqs, ~At(r, "idle"),
           NEW p \in {"revoke", "evict", "done", "rejected", "failed",
                     "endSessions"},
           GoTo(r, p),
           p = "revoke" => At(r, "find")
                           /\ session[req[r].sid].state # "none",
           UNCHANGED <<now, session, refreshTokens, accessTokens, vouched,
                       astray, spent, slipped>>,
           user' \in [Users -> [pw: Nat, deleted: BOOLEAN]],
           blacklist' \in [Sids -> Nat], DeviceTypes',
           p = "endSessions" => req[r].dev \in Sids
    PROVE  IInv'
<1> DEFINE q == [req[r] EXCEPT !.step = p]
<1>0. req[r] \in Request /\ req \in [Reqs -> Request] /\ p \in Steps
  BY DEF IInv, TypeOK, Steps
<1>1. /\ q \in Request /\ q.step = p
      /\ q.user = req[r].user /\ q.sid = req[r].sid
      /\ q.dev = req[r].dev
  <2>1. PICK x \in Request : x = req[r]
    BY <1>0
  <2>2. /\ [x EXCEPT !.step = p] \in Request
        /\ [x EXCEPT !.step = p].step = p
        /\ [x EXCEPT !.step = p].user = x.user
        /\ [x EXCEPT !.step = p].sid = x.sid
        /\ [x EXCEPT !.step = p].dev = x.dev
    BY <1>0 DEF Request
  <2> QED
    BY <2>1, <2>2
<1>2. req' = [req EXCEPT ![r] = q]
  BY <1>0 DEF GoTo
<1>3. q.user \in Users /\ (p = "revoke" => q.sid \in Sids)
  BY <1>1 DEF IInv, RequestsWellFormed, At
<1> HIDE DEF q
<1> QED
  BY <1>1, <1>2, <1>3, MoveIInv

(* The answer of a login or a refresh.                                     *)
LEMMA DeliverIInv ==
    ASSUME IInv, NEW r \in Reqs, NEW s \in Sids, NEW iat \in Nat,
           ~At(r, "idle"), Deliver(r, s, iat), GoTo(r, "done"),
           session' \in [Sids -> Row],
           session'[s].state # "none", session'[s].user \in Users,
           \A x \in Sids \ {s} : session'[x] = session[x],
           s \in Reqs /\ s # r => session[s].state # "none",
           UNCHANGED <<now, user, blacklist>>,
           vouched' \in [Sids -> Nat], astray' \subseteq Sids,
           spent' \subseteq RefreshToken, DeviceTypes', slipped' \subseteq Sids
    PROVE  IInv'
<1>1. /\ req' \in [Reqs -> Request]
      /\ \A q \in Reqs \ {r} : req'[q] = req[q]
      /\ req'[r].step = "done" /\ req'[r].user = req[r].user
  BY GoToReq DEF IInv, Steps
<1>2. TypeOK'
  BY <1>1 DEF IInv, TypeOK, Deliver, RefreshToken, AccessToken, Sids,
     DeviceTypes
<1>3. RequestsWellFormed'
  BY <1>1 DEF IInv, RequestsWellFormed, At, Sids
<1>4. RowsWellFormed'
  BY DEF IInv, TypeOK, RowsWellFormed, Deliver, RefreshToken, AccessToken
<1> QED
  BY <1>2, <1>3, <1>4 DEF IInv

(* A device row comes back: the request keeps what it came with, carries   *)
(* the row, and is dated with the second its tokens are signed in.         *)
LEMMA UpsertMoves ==
    ASSUME IInv, NEW r \in Reqs, UpsertDevice(r)
    PROVE  /\ req'[r] \in Request
           /\ req' = [req EXCEPT ![r] = req'[r]]
           /\ \A q \in Reqs \ {r} : req'[q] = req[q]
           /\ req'[r].op = req[r].op /\ req'[r].user = req[r].user
           /\ req'[r].sid = req[r].sid /\ req'[r].jti = req[r].jti
           /\ req'[r].pw = req[r].pw
           /\ req[r].step = "device" /\ req'[r].step = "insert"
           /\ req'[r].signed = now
           /\ req'[r].dev = r \/ device[req'[r].dev] = req[r].user
           /\ req'[r].dev \in Sids
           /\ device' = [device EXCEPT ![req'[r].dev] = req[r].user]
<1>0. req[r] \in Request /\ req \in [Reqs -> Request] /\ r \in Sids
      /\ now \in Nat
  BY DEF IInv, TypeOK, Sids
<1>1. PICK d \in Sids :
        /\ d = r \/ device[d] = req[r].user
        /\ device' = [device EXCEPT ![d] = req[r].user]
        /\ req' = [req EXCEPT ![r].step = "insert", ![r].dev = d,
                              ![r].signed = now]
  BY <1>0 DEF UpsertDevice
<1> DEFINE moved == [req[r] EXCEPT !.step = "insert", !.dev = d,
                                   !.signed = now]
<1>2. /\ moved \in Request /\ moved.step = "insert" /\ moved.dev = d
      /\ moved.signed = now /\ moved.op = req[r].op
      /\ moved.user = req[r].user /\ moved.sid = req[r].sid
      /\ moved.jti = req[r].jti /\ moved.pw = req[r].pw
  BY <1>0 DEF Request, Steps
<1>3. req' = [req EXCEPT ![r] = moved]
  BY <1>0, <1>1
<1>4. req[r].step = "device"
  BY DEF UpsertDevice, At
<1> HIDE DEF moved
<1>5. req'[r] = moved /\ \A q \in Reqs \ {r} : req'[q] = req[q]
  BY <1>0, <1>3
<1> QED
  BY <1>1, <1>2, <1>3, <1>4, <1>5

LEMMA ContinueIInv ==
    ASSUME IInv, NEW r \in Reqs, Continue(r)
    PROVE  IInv'
<1> DEFINE UserRows == [Users -> [pw: Nat, deleted: BOOLEAN]]
<1>0. /\ req[r] \in Request /\ session \in [Sids -> Row]
      /\ user \in UserRows /\ blacklist \in [Sids -> Nat] /\ r \in Sids
  BY DEF IInv, TypeOK, Sids
<1>1. CASE LoginInsert(r)
  <2>1. req[r].user \in Users /\ session[r].state = "none" /\ ~At(r, "idle")
    BY <1>1 DEF LoginInsert, IInv, RequestsWellFormed, At
  <2>6. req[r].signed \in Nat
    BY <1>0 DEF Request
  <2>2. /\ session' \in [Sids -> Row]
        /\ session'[r].state # "none" /\ session'[r].user \in Users
        /\ \A x \in Sids \ {r} : session'[x] = session[x]
    BY <1>0, <1>1, <2>1, <2>6, SessionsAssumption
    DEF LoginInsert, IInv, TypeOK, Row
  <2>3. vouched' \in [Sids -> Nat] /\ astray' \subseteq Sids
    BY <1>0, <1>1 DEF LoginInsert, IInv, TypeOK, Request
  <2>4. now \in Nat /\ spent' \subseteq RefreshToken
    BY <1>1 DEF LoginInsert, IInv, TypeOK
  <2>5. DeviceTypes' /\ slipped' \subseteq Sids
    BY <1>0, <1>1 DEF LoginInsert, IInv, TypeOK, DeviceTypes, Request
  <2> QED
    BY <1>0, <1>1, <2>1, <2>6, <2>2, <2>3, <2>4, <2>5, DeliverIInv
    DEF LoginInsert
<1>2. CASE RefreshReuse(r)
  <2>1. ~At(r, "idle")
    BY <1>2 DEF RefreshReuse, At
  <2> QED
    BY <1>2, <2>1, RevokeAllRows, RevokeIInv
    DEF RefreshReuse, IInv, TypeOK, tokens, history
<1>3. CASE RefreshUser(r)
  <2>1. ~At(r, "idle") /\ req[r].user \in Users /\ req[r].sid \in Sids
        /\ session[req[r].sid].state # "none"
    BY <1>3 DEF RefreshUser, At, IInv, RequestsWellFormed
  <2>2. UNCHANGED <<now, user, session, refreshTokens, accessTokens, blacklist,
                    vouched, astray, spent, devices>>
    BY <1>3 DEF RefreshUser, tokens, history
  <2>3. CASE user[req[r].user].deleted
    BY <1>0, <1>3, <2>1, <2>2, <2>3, GoToIInv, DevicesKept DEF RefreshUser
  <2>4. CASE ~user[req[r].user].deleted
    <3> DEFINE q == [req[r] EXCEPT !.step = "rotate", !.signed = now]
    <3>1. /\ q \in Request /\ q.step = "rotate"
          /\ q.user = req[r].user /\ q.sid = req[r].sid
      BY <1>0 DEF Request, Steps, IInv, TypeOK
    <3>2. req' = [req EXCEPT ![r] = q]
      BY <1>0, <1>3, <2>4 DEF RefreshUser, IInv, TypeOK
    <3> HIDE DEF q
    <3> QED
      BY <1>0, <2>1, <2>2, <3>1, <3>2, MoveIInv, DevicesKept
  <2> QED
    BY <2>3, <2>4
<1>4. CASE RefreshRotate(r)
  <2> DEFINE s == req[r].sid
  <2>1. s \in Sids /\ session[s].state # "none" /\ ~At(r, "idle")
    BY <1>4 DEF RefreshRotate, At, IInv, RequestsWellFormed
  <2>2. req[r].signed \in Nat /\ req[r].iat \in Nat
    BY <1>0 DEF Request
  <2>3. session[s].user \in Users
    BY <2>1 DEF IInv, RowsWellFormed
  <2>4. /\ session' \in [Sids -> Row]
        /\ session'[s].state # "none" /\ session'[s].user \in Users
        /\ \A x \in Sids \ {s} : session'[x] = session[x]
    BY <1>0, <1>4, <2>1, <2>2, <2>3 DEF RefreshRotate, Row
  <2>5. /\ vouched' \in [Sids -> Nat] /\ astray' \subseteq Sids
        /\ spent' \subseteq RefreshToken
    BY <1>4, <2>1, <2>2 DEF RefreshRotate, IInv, TypeOK, RefreshToken
  <2> HIDE DEF s
  <2> QED
    BY <1>4, <2>1, <2>2, <2>4, <2>5, DeliverIInv, DevicesKept
    DEF RefreshRotate, s
<1>5. CASE KillFind(r)
  <2>1. ~At(r, "idle") /\ req[r].user \in Users /\ req[r].sid \in Sids
        /\ At(r, "find")
    BY <1>5 DEF KillFind, At, IInv, RequestsWellFormed
  <2>2. UNCHANGED <<now, user, session, refreshTokens, accessTokens, blacklist,
                    vouched, astray, spent, devices>>
    BY <1>5 DEF KillFind, tokens, history
  <2>3. CASE session[req[r].sid].user = req[r].user
    <3>1. session[req[r].sid].state # "none"
      BY <2>1, <2>3 DEF IInv, RowsWellFormed
    <3> QED
      BY <1>0, <1>5, <2>1, <2>2, <2>3, <3>1, GoToIInv, DevicesKept DEF KillFind
  <2>4. CASE session[req[r].sid].user # req[r].user
    BY <1>0, <1>5, <2>1, <2>2, <2>4, GoToIInv, DevicesKept DEF KillFind
  <2> QED
    BY <2>3, <2>4
<1>6. CASE RevokeSession(r)
  <2>1. ~At(r, "idle") /\ req[r].sid \in Sids
    BY <1>6 DEF RevokeSession, At, IInv, RequestsWellFormed
  <2>2. req[r].jti = NoSid \/ req[r].jti \in Sids
    BY <1>0 DEF Request
  <2>3. UNCHANGED <<now, user, refreshTokens, accessTokens, blacklist, astray,
                    spent, devices>> /\ vouched' \in [Sids -> Nat]
    BY <1>6 DEF RevokeSession, tokens, history, IInv, TypeOK
  <2>4. /\ session' \in [Sids -> Row]
        /\ \A s \in Sids : /\ session'[s].user = session[s].user
                           /\ session'[s].state = "none"
                                  <=> session[s].state = "none"
    BY <1>6, <2>1, RevokeOneRows DEF RevokeSession, IInv
  <2>5. CASE req[r].jti = NoSid
    BY <1>6, <2>1, <2>3, <2>4, <2>5, RevokeIInv DEF RevokeSession
  <2>6. CASE req[r].jti # NoSid
    BY <1>6, <2>1, <2>2, <2>3, <2>4, <2>6, RevokeIInv DEF RevokeSession
  <2> QED
    BY <2>5, <2>6
<1>7. CASE BlacklistJti(r)
  <2>1. ~At(r, "idle") /\ req[r].jti \in Sids
    BY <1>7 DEF BlacklistJti, At, IInv, RequestsWellFormed
  <2>2. blacklist' \in [Sids -> Nat] /\ user' \in UserRows
    BY <1>0, <1>7, SessionsAssumption DEF BlacklistJti, IInv, TypeOK
  <2>3. UNCHANGED <<now, session, refreshTokens, accessTokens, vouched, astray,
                    spent, devices>>
    BY <1>7 DEF BlacklistJti, tokens, history
  <2> QED
    BY <1>7, <2>1, <2>2, <2>3, GoToIInv, DevicesKept DEF BlacklistJti
<1>8. CASE UpdatePassword(r)
  <2>1. ~At(r, "idle") /\ req[r].user \in Users
    BY <1>8 DEF UpdatePassword, At, IInv, RequestsWellFormed
  <2>2. user[req[r].user].pw + 1 \in Nat /\ user' \in UserRows
    BY <1>0, <1>8, <2>1 DEF UpdatePassword
  <2>3. UNCHANGED <<now, session, refreshTokens, accessTokens, blacklist,
                    vouched, astray, spent, devices>>
    BY <1>8 DEF UpdatePassword, tokens, history
  <2> DEFINE q == [req[r] EXCEPT !.step = "evict",
                                 !.pw = user[req[r].user].pw + 1]
  <2>4. q \in Request /\ q.step = "evict" /\ q.user = req[r].user
    BY <1>0, <2>2 DEF Request, Steps
  <2>5. req' = [req EXCEPT ![r] = q]
    BY <1>8 DEF UpdatePassword, IInv, TypeOK
  <2> HIDE DEF q
  <2> QED
    BY <1>0, <2>1, <2>2, <2>3, <2>4, <2>5, MoveIInv, DevicesKept
<1>9. CASE SoftDelete(r)
  <2>1. ~At(r, "idle") /\ user' \in UserRows
    BY <1>0, <1>9 DEF SoftDelete, At
  <2>2. UNCHANGED <<now, session, refreshTokens, accessTokens, blacklist,
                    vouched, astray, spent, devices>>
    BY <1>9 DEF SoftDelete, tokens, history
  <2> QED
    BY <1>0, <1>9, <2>1, <2>2, GoToIInv, DevicesKept DEF SoftDelete
<1>10. CASE Undelete(r)
  <2>1. ~At(r, "idle") /\ user' \in UserRows
    BY <1>0, <1>10 DEF Undelete, At
  <2>2. UNCHANGED <<now, session, refreshTokens, accessTokens, blacklist,
                    vouched, astray, spent, devices>>
    BY <1>10 DEF Undelete, tokens, history
  <2> QED
    BY <1>0, <1>10, <2>1, <2>2, GoToIInv, DevicesKept DEF Undelete
<1>11. CASE EvictSessions(r)
  <2>1. ~At(r, "idle")
    BY <1>11 DEF EvictSessions, At
  <2>2. vouched' \in [Sids -> Nat]
    BY <1>0, <1>11 DEF EvictSessions, IInv, TypeOK, Request
  <2> QED
    BY <1>11, <2>1, <2>2, RevokeAllRows, RevokeIInv
    DEF EvictSessions, IInv, tokens
<1>12. CASE UpsertDevice(r)
  <2> DEFINE q == req'[r]
  <2>1. /\ device' = [device EXCEPT ![q.dev] = req[r].user]
        /\ q \in Request /\ q.step = "insert" /\ q.user = req[r].user
        /\ q.dev \in Sids /\ req' = [req EXCEPT ![r] = q]
    BY <1>12, UpsertMoves
  <2>2. At(r, "device") /\ req[r].user \in Users
    BY <1>12 DEF UpsertDevice, At, IInv, RequestsWellFormed
  <2>3. UNCHANGED <<now, user, session, refreshTokens, accessTokens, blacklist,
                    vouched, astray, spent, openedOn, slipped>>
    BY <1>12 DEF UpsertDevice, tokens, history
  <2>4. DeviceTypes'
    BY <2>1, <2>2, <2>3 DEF IInv, TypeOK, DeviceTypes
  <2> HIDE DEF q
  <2> QED
    BY <1>0, <2>1, <2>2, <2>3, <2>4, MoveIInv
<1>13. CASE LoginRefused(r)
  <2>1. ~At(r, "idle")
    BY <1>13 DEF LoginRefused, At
  <2>2. UNCHANGED <<now, user, session, refreshTokens, accessTokens, blacklist,
                    vouched, astray, spent, devices>>
    BY <1>13 DEF LoginRefused, tokens, history
  <2> QED
    BY <1>0, <1>13, <2>1, <2>2, GoToIInv, DevicesKept DEF LoginRefused
<1>14. CASE FindDevice(r)
  <2>1. ~At(r, "idle") /\ req[r].dev \in Sids
    BY <1>14 DEF FindDevice, At, IInv, RequestsWellFormed
  <2>2. UNCHANGED <<now, user, session, refreshTokens, accessTokens, blacklist,
                    vouched, astray, spent, devices>>
    BY <1>14 DEF FindDevice, tokens, history
  <2> QED
    BY <1>0, <1>14, <2>1, <2>2, GoToIInv, DevicesKept DEF FindDevice
<1>15. CASE EndSessions(r)
  <2>1. ~At(r, "idle") /\ req[r].dev \in Sids
    BY <1>15 DEF EndSessions, At, IInv, RequestsWellFormed
  <2>2. /\ session' \in [Sids -> Row]
        /\ \A s \in Sids : /\ session'[s].user = session[s].user
                           /\ session'[s].state = "none"
                                  <=> session[s].state = "none"
    BY <1>15, EndSessionsRows DEF EndSessions, IInv
  <2>3. UNCHANGED <<now, user, refreshTokens, accessTokens, blacklist, astray,
                    spent, devices>> /\ vouched' \in [Sids -> Nat]
    BY <1>15 DEF EndSessions, tokens, history, IInv, TypeOK
  <2> QED
    BY <1>15, <2>1, <2>2, <2>3, RevokeIInv DEF EndSessions
<1>16. CASE DeleteDevice(r)
  <2>1. ~At(r, "idle") /\ req[r].dev \in Sids
    BY <1>16 DEF DeleteDevice, At, IInv, RequestsWellFormed
  <2>2. UNCHANGED <<now, user, session, refreshTokens, accessTokens, blacklist,
                    vouched, astray, spent, slipped>>
    BY <1>16 DEF DeleteDevice, tokens, history
  <2>3. DeviceTypes'
    BY <1>16, <2>1 DEF DeleteDevice, IInv, TypeOK, DeviceTypes
  <2>4. GoTo(r, "rejected") \/ GoTo(r, "done")
    BY <1>16 DEF DeleteDevice
  <2> QED
    BY <1>0, <2>1, <2>2, <2>3, <2>4, GoToIInv
<1>17. CASE Rehire(r)
  <2>1. /\ \A q \in Reqs \ {r} : req'[q] = req[q]
        /\ req'[r].step = "done" /\ req'[r].user = req[r].user
        /\ req' \in [Reqs -> Request]
    BY <1>17, GoToReq DEF Rehire, IInv, Steps
  <2>2. req[r].user \in Users
    BY <1>17 DEF Rehire, At, IInv, RequestsWellFormed
  <2>3. user' \in UserRows
    BY <1>0, <1>17, <2>2 DEF Rehire
  <2>4. UNCHANGED <<now, session, refreshTokens, accessTokens, blacklist,
                    vouched, spent, devices>> /\ astray' \subseteq Sids
    BY <1>17 DEF Rehire, tokens, IInv, TypeOK
  <2>5. TypeOK'
    BY <2>1, <2>3, <2>4 DEF IInv, TypeOK
  <2>6. RequestsWellFormed'
    BY <2>1, <2>2, <2>4 DEF IInv, RequestsWellFormed, At
  <2>7. RowsWellFormed'
    BY <2>4 DEF IInv, RowsWellFormed
  <2> QED
    BY <2>5, <2>6, <2>7 DEF IInv
<1> QED
  BY <1>1, <1>2, <1>3, <1>4, <1>5, <1>6, <1>7, <1>8, <1>9, <1>10, <1>11,
     <1>12, <1>13, <1>14, <1>15, <1>16, <1>17
  DEF Continue

LEMMA NextIInv ==
    ASSUME IInv, [Next]_vars
    PROVE  IInv'
<1>1. CASE Tick
  BY <1>1 DEF Tick, IInv, TypeOK, RequestsWellFormed, RowsWellFormed, At,
      tokens, history
<1>2. ASSUME NEW r \in Reqs, Abort(r)
      PROVE  IInv'
  <2>1. ~At(r, "idle")
    BY <1>2 DEF Abort, At
  <2>2. UNCHANGED <<now, user, session, refreshTokens, accessTokens, blacklist,
                    vouched, astray, spent, devices>>
    BY <1>2 DEF Abort, tokens, history
  <2> QED
    BY <1>2, <2>1, <2>2, GoToIInv, DevicesKept DEF Abort, IInv, TypeOK
<1>3. CASE UNCHANGED vars
  BY <1>3 DEF vars, IInv, TypeOK, RequestsWellFormed, RowsWellFormed, At
<1> QED
  BY <1>1, <1>2, <1>3, ArriveIInv, ContinueIInv DEF Next

LEMMA Invariance == Spec => []IInv
  BY InitIInv, NextIInv, PTL DEF Spec

(* Every variable keeps its type: a request never carries a user, session  *)
(* or jti that its later steps would write under a row that does not       *)
(* exist.                                                                  *)
THEOREM TypeCorrect == Spec => []TypeOK
<1>1. IInv => TypeOK
  BY DEF IInv
<1> QED
  BY <1>1, Invariance, PTL

-----------------------------------------------------------------------------
(* Revoked sessions.                                                       *)

(* What one step does to the requests: the step of at most one changes.    *)
LEMMA OneRequestMoves ==
    ASSUME IInv, NEW r \in Reqs, Arrive(r) \/ Continue(r) \/ Abort(r)
    PROVE  \A q \in Reqs \ {r} : req'[q] = req[q]
  BY DEF IInv, TypeOK, Arrive, Continue, Abort, GoTo, LoginVerify, RefreshRead,
     Logout, Kill, LogoutAll, ChangePassword, ResetPassword, ResendInvite,
     RemoveUser, RestoreUser, RehireUser, StartAuthenticated, Start,
     LoginInsert, RefreshReuse, RefreshUser, RefreshRotate, KillFind,
     RevokeSession, BlacklistJti, UpdatePassword, SoftDelete, Undelete,
     Rehire, EvictSessions, RemoveDevice, UpsertDevice, LoginRefused,
     FindDevice, EndSessions, DeleteDevice

(* A revoked session is revoked after any step.                            *)
LEMMA RevokedStays ==
    ASSUME IInv, NEW r \in Reqs, Arrive(r) \/ Continue(r) \/ Abort(r),
           NEW s \in Sids, Revoked(s)
    PROVE  Revoked(s)'
<1>0. session \in [Sids -> Row] /\ TypeOK
  BY DEF IInv, TypeOK
<1>1. CASE Arrive(r)
  BY <1>1 DEF Arrive, LoginVerify, RefreshRead, Logout, Kill, LogoutAll,
     ChangePassword, ResetPassword, ResendInvite, RemoveUser, RestoreUser,
     RehireUser, RemoveDevice, StartAuthenticated, Start, Revoked
<1>2. CASE LoginInsert(r)
  <2>1. r # s
    BY <1>2 DEF LoginInsert, At, IInv, RequestsWellFormed, Revoked
  <2> QED
    BY <1>0, <1>2, <2>1 DEF LoginInsert, Revoked
<1>3. CASE RefreshReuse(r) \/ EvictSessions(r) \/ EndSessions(r)
  BY <1>0, <1>3, RevokeAllRows, EndSessionsRows
  DEF RefreshReuse, EvictSessions, Revoked
<1>4. CASE RefreshRotate(r)
  BY <1>0, <1>4 DEF RefreshRotate, Revoked, Row
<1>5. CASE RevokeSession(r)
  <2>1. req[r].sid \in Sids
    BY <1>5 DEF RevokeSession, At, IInv, RequestsWellFormed
  <2> QED
    BY <1>0, <1>5, <2>1, RevokeOneRows DEF RevokeSession, Revoked
<1>6. CASE \/ RefreshUser(r) \/ KillFind(r) \/ BlacklistJti(r)
           \/ UpdatePassword(r) \/ SoftDelete(r) \/ Undelete(r)
           \/ Rehire(r) \/ Abort(r)
           \/ UpsertDevice(r) \/ LoginRefused(r) \/ FindDevice(r)
           \/ DeleteDevice(r)
  BY <1>6 DEF RefreshUser, KillFind, BlacklistJti, UpdatePassword, SoftDelete,
     Undelete, Rehire, Abort, Revoked, UpsertDevice, LoginRefused, FindDevice,
     DeleteDevice
<1> QED
  BY <1>1, <1>2, <1>3, <1>4, <1>5, <1>6 DEF Continue

(* A refresh comes to hold a session only by reading it while it is live.  *)
LEMMA HoldingIsReading ==
    ASSUME IInv, NEW r \in Reqs, Arrive(r) \/ Continue(r) \/ Abort(r),
           NEW s \in Sids, Holds(r, s)'
    PROVE  Holds(r, s) \/ Live(s)
<1>0. req \in [Reqs -> Request]
  BY DEF IInv, TypeOK
<1>1. CASE RefreshRead(r)
  BY <1>0, <1>1 DEF RefreshRead, RefreshVerdict, Holds, Live, Idle
<1>2. CASE LoginVerify(r) \/ RemoveDevice(r)
  BY <1>0, <1>2 DEF LoginVerify, RemoveDevice, Holds, Idle
<1>3. CASE \/ Logout(r) \/ Kill(r) \/ LogoutAll(r) \/ ChangePassword(r)
           \/ ResetPassword(r) \/ ResendInvite(r) \/ RemoveUser(r)
           \/ RestoreUser(r) \/ RehireUser(r)
  <2>1. ASSUME NEW op, NEW step, NEW u, NEW x, NEW jti,
               step \notin {"user", "rotate"}, Start(r, op, step, u, x, jti)
        PROVE  FALSE
    BY <1>0, <2>1 DEF Start, Idle, Holds
  <2> QED
    BY <1>3, <2>1 DEF Logout, Kill, LogoutAll, ChangePassword, ResetPassword,
       ResendInvite, RemoveUser, RestoreUser, RehireUser, StartAuthenticated
<1>4. CASE RefreshUser(r)
  BY <1>0, <1>4 DEF RefreshUser, Holds, At, GoTo, Request
<1>5. ASSUME NEW p \in Steps \ {"user", "rotate"}, GoTo(r, p)
      PROVE  FALSE
  BY <1>0, <1>5 DEF GoTo, Holds, Request
<1>6. CASE UpdatePassword(r) \/ UpsertDevice(r)
  BY <1>0, <1>6, UpsertMoves DEF UpdatePassword, Holds, Request
<1>7. CASE \/ LoginInsert(r) \/ RefreshReuse(r) \/ RefreshRotate(r)
           \/ KillFind(r) \/ RevokeSession(r) \/ BlacklistJti(r)
           \/ SoftDelete(r) \/ Undelete(r) \/ Rehire(r) \/ EvictSessions(r)
           \/ Abort(r)
           \/ LoginRefused(r) \/ FindDevice(r) \/ EndSessions(r)
           \/ DeleteDevice(r)
  BY <1>5, <1>7 DEF Steps, Abort, LoginInsert, RefreshReuse, RefreshRotate,
     KillFind, RevokeSession, BlacklistJti, SoftDelete, Undelete, Rehire,
     EvictSessions, LoginRefused, FindDevice, EndSessions, DeleteDevice
<1> QED
  BY <1>1, <1>2, <1>3, <1>4, <1>6, <1>7 DEF Arrive, Continue

(* Only a login for its own new session, and a refresh for the session it  *)
(* holds, add access tokens.                                               *)
LEMMA WhoMints ==
    ASSUME IInv, NEW r \in Reqs, Arrive(r) \/ Continue(r) \/ Abort(r),
           NEW s \in Sids, TokensOf(s)' # TokensOf(s)
    PROVE  /\ TokensOf(s) \subseteq TokensOf(s)'
           /\ \/ LoginInsert(r) /\ s = r /\ session[s].state = "none"
              \/ RefreshRotate(r) /\ Holds(r, s)
<1>1. accessTokens' # accessTokens
  BY DEF TokensOf
<1>2. LoginInsert(r) \/ RefreshRotate(r)
  BY <1>1 DEF Arrive, Continue, Abort, LoginVerify, RefreshRead,
     Logout, Kill, LogoutAll, ChangePassword, ResetPassword, ResendInvite,
     RemoveUser, RestoreUser, RehireUser, StartAuthenticated, Start, tokens,
     RefreshReuse, RefreshUser, KillFind, RevokeSession,
     BlacklistJti, UpdatePassword, SoftDelete, Undelete, Rehire, EvictSessions,
     RemoveDevice, UpsertDevice, LoginRefused, FindDevice, EndSessions,
     DeleteDevice
<1>3. CASE LoginInsert(r)
  BY <1>3 DEF LoginInsert, Deliver, TokensOf, IInv, RequestsWellFormed, At
<1>4. CASE RefreshRotate(r)
  BY <1>4 DEF RefreshRotate, Deliver, TokensOf, Holds, At
<1> QED
  BY <1>2, <1>3, <1>4

LEMMA QuietStep ==
    ASSUME IInv, [Next]_vars, NEW s \in Sids, Quiet(s)
    PROVE  Quiet(s)' /\ TokensOf(s)' = TokensOf(s)
<1>1. CASE Tick \/ UNCHANGED vars
  BY <1>1 DEF Tick, vars, Quiet, Revoked, Holds, TokensOf, tokens
<1>2. ASSUME NEW r \in Reqs, Arrive(r) \/ Continue(r) \/ Abort(r)
      PROVE  Quiet(s)' /\ TokensOf(s)' = TokensOf(s)
  <2>1. Revoked(s)'
    BY <1>2, RevokedStays DEF Quiet
  <2>2. ~Live(s)
    BY DEF Quiet, Revoked, Live
  <2>3. \A q \in Reqs : ~Holds(q, s)'
    <3>1. ~Holds(r, s)'
      BY <1>2, <2>2, HoldingIsReading DEF Quiet
    <3>2. \A q \in Reqs \ {r} : ~Holds(q, s)'
      BY <1>2, OneRequestMoves DEF Quiet, Holds
    <3> QED
      BY <3>1, <3>2
  <2>4. TokensOf(s)' = TokensOf(s)
    BY <1>2, WhoMints DEF Quiet, Revoked
  <2> QED
    BY <2>1, <2>3, <2>4 DEF Quiet
<1> QED
  BY <1>1, <1>2 DEF Next

(* A revoked session that no earlier refresh holds yields no token again.  *)
THEOREM RevokedGoesQuiet == Spec => RevokedSessionGoesQuiet
<1>1. IInv /\ [Next]_vars =>
        [\A s \in Sids : Quiet(s) => Quiet(s)' /\ TokensOf(s)' = TokensOf(s)]_vars
  BY QuietStep
<1> QED
  BY <1>1, Invariance, PTL DEF Spec, RevokedSessionGoesQuiet

-----------------------------------------------------------------------------
(* The sessions implement their life cycle.                                *)

PhaseMap  == [s \in Sids |-> Phase(s)]
MintedMap == [s \in Sids |-> TokensOf(s)]

LEMMA LifecycleInit == Init => Lifecycle!Init
<1> SUFFICES ASSUME Init PROVE Lifecycle!Init
  OBVIOUS
<1>1. \A s \in Sids : /\ Phase(s) \in {"none", "live"}
                      /\ Phase(s) = "none" => TokensOf(s) = {}
  BY SessionsAssumption DEF Init, Phase, Revoked, TokensOf, Sids
<1> QED
  BY <1>1 DEF Lifecycle!Init

LEMMA PhaseTyped ==
    ASSUME IInv, NEW s \in Sids
    PROVE  Phase(s) \in Lifecycle!Phases
  BY DEF IInv, TypeOK, Row, Phase, Revoked, Lifecycle!Phases

(* A step that leaves the session rows and the tokens alone ends at most   *)
(* the drain of the session its request held.                              *)
LEMMA IdleStepRefines ==
    ASSUME IInv, NEW r \in Reqs, Arrive(r) \/ Continue(r) \/ Abort(r),
           UNCHANGED <<session, accessTokens>>
    PROVE  [Lifecycle!Next]_<<PhaseMap, MintedMap>>
<1> DEFINE x == req[r].sid
<1>1. MintedMap' = MintedMap
  BY DEF MintedMap, TokensOf
<1>2. \A s \in Sids : Revoked(s)' = Revoked(s)
  BY DEF Revoked
<1>3. \A s \in Sids : Phase(s)' # Phase(s) =>
        Phase(s) = "draining" /\ Phase(s)' = "dead" /\ s = x
  <2> SUFFICES ASSUME NEW s \in Sids, Phase(s)' # Phase(s)
               PROVE  Phase(s) = "draining" /\ Phase(s)' = "dead" /\ s = x
    OBVIOUS
  <2>1. Revoked(s) /\ Revoked(s)' /\ Quiet(s)' # Quiet(s)
    BY <1>2 DEF Phase
  <2>2. ~Holds(r, s) => ~Holds(r, s)'
    BY <2>1, HoldingIsReading DEF Revoked, Live
  <2>3. \A q \in Reqs \ {r} : Holds(q, s)' = Holds(q, s)
    BY OneRequestMoves DEF Holds
  <2>4. Holds(r, s) /\ Quiet(s)' /\ ~Quiet(s)
    BY <2>1, <2>2, <2>3 DEF Quiet
  <2> QED
    BY <2>1, <2>4 DEF Holds, Phase
<1>4. CASE \E s \in Sids : Phase(s)' # Phase(s)
  <2>1. PICK y \in Sids : Phase(y)' # Phase(y)
    BY <1>4
  <2>2. Phase(y) = "draining" /\ Phase(y)' = "dead"
    BY <1>3, <2>1
  <2>3. \A s \in Sids \ {y} : Phase(s)' = Phase(s)
    BY <1>3, <2>1
  <2>4. PhaseMap' = [PhaseMap EXCEPT ![y] = "dead"]
    BY <2>2, <2>3 DEF PhaseMap
  <2>5. Lifecycle!Drain(y)
    BY <1>1, <2>2, <2>4
    DEF Lifecycle!Drain, Lifecycle!Becomes, PhaseMap, MintedMap
  <2> QED
    BY <2>5 DEF Lifecycle!Next
<1>5. CASE \A s \in Sids : Phase(s)' = Phase(s)
  BY <1>1, <1>5 DEF PhaseMap
<1> QED
  BY <1>4, <1>5

(* A step of a request that holds no session, and revokes some.            *)
LEMMA RevokeRefines ==
    ASSUME IInv, IInv', NEW r \in Reqs, Arrive(r) \/ Continue(r) \/ Abort(r),
           req[r].step \notin {"user", "rotate"},
           req'[r].step \notin {"user", "rotate"},
           UNCHANGED accessTokens,
           \A s \in Sids : session'[s].state # session[s].state =>
               session[s].state = "live" /\ session'[s].state = "revoked"
    PROVE  Lifecycle!Next
<1>1. MintedMap' = MintedMap
  BY DEF MintedMap, TokensOf
<1>2. \A s \in Sids, q \in Reqs : Holds(q, s)' = Holds(q, s)
  BY OneRequestMoves DEF Holds
<1>3. \A s \in Sids : Phase(s)' # Phase(s) =>
        Phase(s) = "live" /\ Phase(s)' \in {"draining", "dead"}
  BY <1>2 DEF Phase, Revoked, Quiet
<1>4. PhaseMap' \in [Sids -> Lifecycle!Phases]
  <2>1. \A s \in Sids : Phase(s)' \in Lifecycle!Phases
    BY DEF IInv, TypeOK, Row, Phase, Revoked, Lifecycle!Phases
  <2> QED
    BY <2>1 DEF PhaseMap
<1> QED
  BY <1>1, <1>3, <1>4 DEF Lifecycle!Next, Lifecycle!Revoke, PhaseMap, MintedMap

LEMMA LoginInsertRefines ==
    ASSUME IInv, NEW r \in Reqs, LoginInsert(r)
    PROVE  Lifecycle!Open(r)
<1>0. r \in Sids /\ session \in [Sids -> Row] /\ Continue(r)
  BY DEF IInv, TypeOK, Sids, Continue
<1>1. session[r].state = "none"
  BY DEF LoginInsert, At, IInv, RequestsWellFormed
<1>2. Phase(r) = "none" /\ Phase(r)' = "live"
  BY <1>0, <1>1 DEF Phase, Revoked, LoginInsert
<1>3. \A s \in Sids \ {r} : Phase(s)' = Phase(s)
  <2>1. \A s \in Sids \ {r} : session'[s] = session[s]
    BY <1>0 DEF LoginInsert
  <2>2. \A s \in Sids, q \in Reqs : Holds(q, s)' = Holds(q, s)
    <3>1. \A s \in Sids : ~Holds(r, s) /\ ~Holds(r, s)'
      BY DEF LoginInsert, At, Holds, GoTo, IInv, TypeOK, Request
    <3> QED
      BY <1>0, <3>1, OneRequestMoves DEF Holds
  <2> QED
    BY <2>1, <2>2 DEF Phase, Revoked, Quiet
<1>4. PhaseMap' = [PhaseMap EXCEPT ![r] = "live"]
  BY <1>0, <1>2, <1>3 DEF PhaseMap
<1>5. /\ TokensOf(r) \subseteq TokensOf(r)'
      /\ \A s \in Sids \ {r} : TokensOf(s)' = TokensOf(s)
  BY DEF LoginInsert, Deliver, TokensOf
<1> QED
  BY <1>0, <1>2, <1>4, <1>5
  DEF Lifecycle!Open, Lifecycle!Becomes, Lifecycle!Yields, PhaseMap

LEMMA RefreshRotateRefines ==
    ASSUME IInv, IInv', NEW r \in Reqs, RefreshRotate(r)
    PROVE  \E s \in Sids : Lifecycle!Mint(s)
<1>0. PICK x \in Sids : /\ x = req[r].sid /\ Holds(r, x) /\ Continue(r)
                        /\ session[x].state # "none"
  BY DEF RefreshRotate, At, Holds, IInv, RequestsWellFormed, Continue
<1>1. \A s \in Sids : session'[s].state = session[s].state
  BY <1>0 DEF RefreshRotate, IInv, TypeOK, Row
<1>2. \A s \in Sids : ~Holds(r, s)'
  BY DEF RefreshRotate, GoTo, Holds, IInv, TypeOK, Request
<1>3. \A s \in Sids, q \in Reqs \ {r} : Holds(q, s)' = Holds(q, s)
  BY <1>0, OneRequestMoves DEF Holds
<1>4. \A s \in Sids \ {x} : Phase(s)' = Phase(s)
  <2>1. \A s \in Sids \ {x} : ~Holds(r, s)
    BY <1>0 DEF Holds
  <2>2. \A s \in Sids \ {x}, q \in Reqs : Holds(q, s)' = Holds(q, s)
    BY <1>2, <1>3, <2>1 DEF Holds
  <2> QED
    BY <1>1, <2>2 DEF Phase, Revoked, Quiet
<1>5. /\ TokensOf(x) \subseteq TokensOf(x)'
      /\ \A s \in Sids \ {x} : TokensOf(s)' = TokensOf(s)
  BY <1>0 DEF RefreshRotate, Deliver, TokensOf
<1>6. /\ Phase(x) \in {"live", "draining"}
      /\ Phase(x) = "live" => Phase(x)' = "live"
      /\ Phase(x) = "draining" => Phase(x)' \in {"draining", "dead"}
  BY <1>0, <1>1 DEF Phase, Revoked, Quiet, IInv, TypeOK, Row
<1>7. PhaseMap' = [PhaseMap EXCEPT ![x] = Phase(x)']
  BY <1>4 DEF PhaseMap
<1>8. Phase(x) = "live" => PhaseMap' = PhaseMap
  BY <1>4, <1>6 DEF PhaseMap
<1>9. Lifecycle!Mint(x)
  BY <1>0, <1>5, <1>6, <1>7, <1>8
  DEF Lifecycle!Mint, Lifecycle!Becomes, Lifecycle!Yields, PhaseMap
<1> QED
  BY <1>0, <1>9

LEMMA StepRefines ==
    ASSUME IInv, IInv', [Next]_vars
    PROVE  [Lifecycle!Next]_<<PhaseMap, MintedMap>>
<1>1. CASE Tick \/ UNCHANGED vars
  BY <1>1 DEF Tick, vars, PhaseMap, MintedMap, Phase, Revoked, Quiet, Holds,
     TokensOf, tokens
<1>2. ASSUME NEW r \in Reqs, Arrive(r) \/ Continue(r) \/ Abort(r)
      PROVE  [Lifecycle!Next]_<<PhaseMap, MintedMap>>
  <2>1. CASE LoginInsert(r)
    <3>1. r \in Sids
      BY DEF Sids
    <3> QED
      BY <2>1, <3>1, LoginInsertRefines DEF Lifecycle!Next
  <2>2. CASE RefreshRotate(r)
    BY <2>2, RefreshRotateRefines DEF Lifecycle!Next
  <2>3. CASE \/ RefreshReuse(r) \/ RevokeSession(r) \/ EvictSessions(r)
             \/ EndSessions(r)
    <3>1. req[r] \in Request /\ session \in [Sids -> Row]
      BY DEF IInv, TypeOK
    <3>2. req[r].step \notin {"user", "rotate"} /\ UNCHANGED accessTokens
      BY <2>3 DEF RefreshReuse, RevokeSession, EvictSessions, EndSessions, At,
         tokens
    <3>3. req'[r].step \notin {"user", "rotate"}
      BY <2>3, <3>1 DEF RefreshReuse, RevokeSession, EvictSessions,
         EndSessions, GoTo, IInv, TypeOK, Request
    <3>4. \A s \in Sids : session'[s].state # session[s].state =>
            session[s].state = "live" /\ session'[s].state = "revoked"
      BY <2>3, <3>1 DEF RefreshReuse, RevokeSession, EvictSessions,
         EndSessions, RevokeAll, RevokeOne, Live, Row
    <3> QED
      BY <1>2, <3>2, <3>3, <3>4, RevokeRefines
  <2>4. CASE UNCHANGED <<session, accessTokens>>
    BY <1>2, <2>4, IdleStepRefines
  <2> QED
    BY <1>2, <2>1, <2>2, <2>3, <2>4
    DEF Arrive, Continue, Abort, LoginVerify, RefreshRead, Logout, Kill,
        LogoutAll, ChangePassword, ResetPassword, ResendInvite, RemoveUser,
        RestoreUser, RehireUser, StartAuthenticated, Start, tokens,
        RefreshUser, KillFind, BlacklistJti, UpdatePassword, SoftDelete,
        Undelete, Rehire, RemoveDevice, UpsertDevice, LoginRefused, FindDevice,
        DeleteDevice
<1> QED
  BY <1>1, <1>2 DEF Next

(* The detailed sessions implement the promised life cycle: revoked once,  *)
(* for ever, and silent once the refreshes under way have ended.           *)
THEOREM LifecycleImplemented == Spec => ImplementsLifecycle
<1>1. IInv /\ IInv' /\ [Next]_vars =>
        [Lifecycle!Next]_<<PhaseMap, MintedMap>>
  BY StepRefines
<1> QED
  BY <1>1, LifecycleInit, Invariance, PTL
  DEF Spec, ImplementsLifecycle, Lifecycle!Spec, PhaseMap, MintedMap

-----------------------------------------------------------------------------
(* What a step keeps.                                                      *)

(* A handler that goes on keeps what its request came with.                *)
LEMMA ContinueKeeps ==
    ASSUME IInv, NEW r \in Reqs, Continue(r) \/ Abort(r)
    PROVE  /\ req'[r].op = req[r].op /\ req'[r].user = req[r].user
           /\ req'[r].sid = req[r].sid /\ req'[r].jti = req[r].jti
           /\ req'[r].signed \in {req[r].signed, now}
           /\ req[r].step \notin Ended \cup {"idle"}
<1>0. req[r] \in Request /\ req \in [Reqs -> Request]
  BY DEF IInv, TypeOK
<1>1. ASSUME NEW p, GoTo(r, p)
      PROVE  /\ req'[r].op = req[r].op /\ req'[r].user = req[r].user
             /\ req'[r].sid = req[r].sid /\ req'[r].jti = req[r].jti
             /\ req'[r].signed = req[r].signed
  BY <1>0, <1>1 DEF GoTo, Request
<1>2. CASE RefreshUser(r) \/ UpdatePassword(r) \/ UpsertDevice(r)
  BY <1>0, <1>2, UpsertMoves DEF RefreshUser, UpdatePassword, GoTo, At,
     Request, Ended
<1>3. CASE \/ LoginInsert(r) \/ RefreshReuse(r) \/ RefreshRotate(r)
           \/ KillFind(r) \/ RevokeSession(r) \/ BlacklistJti(r)
           \/ SoftDelete(r) \/ Undelete(r) \/ Rehire(r) \/ EvictSessions(r)
           \/ Abort(r)
           \/ LoginRefused(r) \/ FindDevice(r) \/ EndSessions(r)
           \/ DeleteDevice(r)
  BY <1>1, <1>3 DEF LoginInsert, RefreshReuse, RefreshRotate, KillFind,
     RevokeSession, BlacklistJti, SoftDelete, Undelete, Rehire, EvictSessions,
     Abort, LoginRefused, FindDevice, EndSessions, DeleteDevice, At, Ended
<1> QED
  BY <1>2, <1>3 DEF Continue

(* A session row belongs to one user from its insertion on.                *)
LEMMA RowsKeepUser ==
    ASSUME IInv, NEW r \in Reqs, Arrive(r) \/ Continue(r) \/ Abort(r),
           NEW s \in Sids, session[s].state # "none"
    PROVE  session'[s].user = session[s].user
<1>0. session \in [Sids -> Row] /\ TypeOK
  BY DEF IInv, TypeOK
<1>1. CASE LoginInsert(r)
  <2>1. r # s
    BY <1>1 DEF LoginInsert, At, IInv, RequestsWellFormed
  <2> QED
    BY <1>0, <1>1, <2>1 DEF LoginInsert
<1>2. CASE RefreshReuse(r) \/ EvictSessions(r) \/ EndSessions(r)
  BY <1>0, <1>2, RevokeAllRows, EndSessionsRows DEF RefreshReuse, EvictSessions
<1>3. CASE RefreshRotate(r)
  BY <1>0, <1>3 DEF RefreshRotate, Row
<1>4. CASE RevokeSession(r)
  BY <1>0, <1>4 DEF RevokeSession, RevokeOne, Row
<1>5. CASE UNCHANGED session
  BY <1>5
<1> QED
  BY <1>1, <1>2, <1>3, <1>4, <1>5 DEF Arrive, Continue, Abort, LoginVerify,
     RefreshRead, Logout, Kill, LogoutAll, ChangePassword, ResetPassword,
     ResendInvite, RemoveUser, RestoreUser, RehireUser, RemoveDevice,
     StartAuthenticated, Start, RefreshUser, KillFind, BlacklistJti,
     UpdatePassword, SoftDelete, Undelete, Rehire, UpsertDevice, LoginRefused,
     FindDevice, DeleteDevice

-----------------------------------------------------------------------------
(* Password changes.                                                       *)

(* Request q has written the current password of u and not ended its other *)
(* sessions yet.                                                           *)
Writing(q, u) ==
    /\ req[q].op \in PasswordWrites /\ req[q].user = u
    /\ req[q].step \in {"evict", "failed"}
    /\ req[q].pw = user[u].pw

Behind(s) == /\ Live(s) /\ s \notin astray
             /\ vouched[s] < user[session[s].user].pw

(* A step that opens no session and writes no password.                    *)
LEMMA EvictQuietStep ==
    ASSUME IInv, PasswordChangeEvictsOldSessions, NEW r \in Reqs,
           \A q \in Reqs \ {r} : req'[q] = req[q],
           req'[r].op = req[r].op, req'[r].user = req[r].user,
           req'[r].pw = req[r].pw,
           req[r].step \in {"evict", "failed"} =>
               req'[r].step \in {"evict", "failed"},
           \A u \in Users : user'[u].pw = user[u].pw,
           \A s \in Sids : Live(s)' =>
               Live(s) /\ session'[s].user = session[s].user,
           UNCHANGED <<vouched, astray>>
    PROVE  PasswordChangeEvictsOldSessions'
<1> SUFFICES ASSUME NEW s \in Sids, Behind(s)'
             PROVE  \E q \in Reqs : Writing(q, session[s].user)'
  BY DEF PasswordChangeEvictsOldSessions, Behind, Writing
<1>1. Live(s) /\ session'[s].user = session[s].user /\ session[s].user \in Users
  BY DEF Behind, Live, IInv, RowsWellFormed
<1>2. Behind(s)
  BY <1>1 DEF Behind
<1>3. PICK q \in Reqs : Writing(q, session[s].user)
  BY <1>2 DEF Behind, Writing, PasswordChangeEvictsOldSessions
<1> QED
  BY <1>1, <1>3 DEF Writing

(* Until it is restored or hired again, a removed account keeps no live    *)
(* session but those of late logins, once a removal has run to its end:    *)
(* what a re-hire relies on.                                               *)
RemovalsEvict ==
    /\ \A r \in Reqs : req[r].op = "remove" => req[r].sid = NoSid
    /\ \A r \in Reqs : At(r, "softDelete") => req[r].op = "remove"
    /\ \A s \in Sids :
           Live(s) /\ s \notin astray /\ user[session[s].user].deleted =>
               RemovalUndone(session[s].user)

LEMMA ArriveRemoves ==
    ASSUME IInv, NEW r \in Reqs, Arrive(r)
    PROVE  /\ At(r, "idle") /\ UNCHANGED <<user, session, vouched, astray>>
           /\ req'[r].op = "remove" => req'[r].sid = NoSid
           /\ req'[r].step = "softDelete" => req'[r].op = "remove"
           /\ req'[r].step \in Steps
<1>0. req \in [Reqs -> Request] /\ req[r] \in Request
  BY DEF IInv, TypeOK
<1>1. At(r, "idle") /\ UNCHANGED <<user, session, vouched, astray>>
  BY DEF Arrive, LoginVerify, RefreshRead, Logout, Kill, LogoutAll,
     ChangePassword, ResetPassword, ResendInvite, RemoveUser, RestoreUser,
     RehireUser, RemoveDevice, StartAuthenticated, Start, history
<1> DEFINE Goal == /\ req'[r].op = "remove" => req'[r].sid = NoSid
                   /\ req'[r].step = "softDelete" => req'[r].op = "remove"
<1>6. IInv'
  BY ArriveIInv
<1> SUFFICES Goal
  BY <1>1, <1>6 DEF IInv, TypeOK, Request
<1>3. CASE LoginVerify(r)
  <2>1. PICK u \in Users :
          req' = [req EXCEPT ![r] = [Idle EXCEPT !.op = "login",
                      !.step = "device", !.user = u, !.sid = r,
                      !.pw = user[u].pw]]
    BY <1>3 DEF LoginVerify
  <2>2. req'[r].step = "device" /\ req'[r].op = "login"
    BY <1>0, <2>1 DEF Idle
  <2> QED
    BY <2>2
<1>7. CASE RefreshRead(r)
  <2>1. PICK t \in refreshTokens :
          req' = [req EXCEPT ![r] = [Idle EXCEPT !.op = "refresh",
                      !.step = RefreshVerdict(t), !.sid = t.sid,
                      !.user = session[t.sid].user, !.iat = t.iat]]
    BY <1>7 DEF RefreshRead
  <2>2. req'[r].step = RefreshVerdict(t) /\ req'[r].op = "refresh"
    BY <1>0, <2>1 DEF Idle
  <2> QED
    BY <2>2 DEF RefreshVerdict
<1>8. CASE RemoveDevice(r)
  <2>1. PICK a \in accessTokens, d \in Sids :
          req' = [req EXCEPT ![r] = [Idle EXCEPT !.op = "removeDevice",
                      !.step = "findDevice", !.user = session[a.sid].user,
                      !.dev = d]]
    BY <1>8 DEF RemoveDevice
  <2>2. req'[r].step = "findDevice" /\ req'[r].op = "removeDevice"
    BY <1>0, <2>1 DEF Idle
  <2> QED
    BY <2>2
<1>4. ASSUME NEW op, NEW step, NEW u, NEW x, NEW jti,
             Start(r, op, step, u, x, jti),
             op = "remove" => x = NoSid, step = "softDelete" => op = "remove"
      PROVE  Goal
  BY <1>0, <1>4 DEF Start, Idle
<1>5. CASE \/ Logout(r) \/ Kill(r) \/ LogoutAll(r) \/ ChangePassword(r)
           \/ ResetPassword(r) \/ ResendInvite(r) \/ RemoveUser(r)
           \/ RestoreUser(r) \/ RehireUser(r)
  <2> HIDE DEF Goal
  <2> QED
    BY <1>4, <1>5 DEF Logout, Kill, LogoutAll, ChangePassword, ResetPassword,
       ResendInvite, RemoveUser, RestoreUser, RehireUser, StartAuthenticated
<1> HIDE DEF Goal
<1> QED
  BY <1>3, <1>5, <1>7, <1>8 DEF Arrive

LEMMA RemovalsStep ==
    ASSUME IInv, RemovalsEvict, NEW r \in Reqs,
           Arrive(r) \/ Continue(r) \/ Abort(r)
    PROVE  RemovalsEvict'
<1>0. /\ req[r] \in Request /\ session \in [Sids -> Row] /\ r \in Sids
      /\ user \in [Users -> [pw: Nat, deleted: BOOLEAN]]
      /\ req \in [Reqs -> Request]
  BY DEF IInv, TypeOK, Sids
<1>1. \A q \in Reqs \ {r} : req'[q] = req[q]
  BY OneRequestMoves
<1>2. /\ req'[r].op = "remove" => req'[r].sid = NoSid
      /\ req'[r].step = "softDelete" => req'[r].op = "remove"
  <2>1. CASE Arrive(r)
    BY <2>1, ArriveRemoves
  <2>2. CASE Continue(r) \/ Abort(r)
    <3>1. req'[r].op = req[r].op /\ req'[r].sid = req[r].sid
      BY <2>2, ContinueKeeps
    <3>2. req'[r].step # "softDelete"
      <4>1. CASE RefreshUser(r)
        BY <1>0, <4>1 DEF RefreshUser, GoTo, Request
      <4>3. CASE UpdatePassword(r)
        BY <1>0, <4>3 DEF UpdatePassword, Request
      <4>4. CASE UpsertDevice(r)
        BY <4>4, UpsertMoves
      <4>2. ASSUME NEW p \in Steps \ {"softDelete"}, GoTo(r, p)
            PROVE  req'[r].step # "softDelete"
        BY <1>0, <4>2 DEF GoTo
      <4> QED
        BY <2>2, <4>1, <4>2, <4>3, <4>4 DEF Continue, Steps, Abort,
           LoginInsert, RefreshReuse, RefreshRotate, KillFind, RevokeSession,
           BlacklistJti, SoftDelete, Undelete, Rehire, EvictSessions,
           LoginRefused, FindDevice, EndSessions, DeleteDevice
    <3> QED
      BY <3>1, <3>2 DEF RemovalsEvict
  <2> QED
    BY <2>1, <2>2
<1>3. /\ \A q \in Reqs : req'[q].op = "remove" => req'[q].sid = NoSid
      /\ \A q \in Reqs : At(q, "softDelete")' => req'[q].op = "remove"
  BY <1>1, <1>2 DEF RemovalsEvict, At
(* A removal under way, or dead, stays a reason, but for its own eviction. *)
<1>4. ASSUME NEW u, RemovalUndone(u), user'[u].deleted => user[u].deleted,
             ~(EvictSessions(r) /\ req[r].op = "remove" /\ req[r].user = u)
      PROVE  RemovalUndone(u)'
  <2>1. CASE ~user[u].deleted
    BY <1>4, <2>1 DEF RemovalUndone
  <2>2. ASSUME NEW q \in Reqs, req[q].op = "remove", req[q].user = u,
               req[q].step \in {"evict", "failed"}
        PROVE  RemovalUndone(u)'
    <3>1. CASE q # r
      BY <1>1, <2>2, <3>1 DEF RemovalUndone
    <3>2. CASE q = r
      <4>1. Abort(r)
        BY <1>4, <2>2, <3>2, ArriveRemoves
        DEF At, Continue, Abort, LoginInsert, RefreshReuse, RefreshUser,
            RefreshRotate, KillFind, RevokeSession, BlacklistJti,
            UpdatePassword, SoftDelete, Undelete, Rehire, UpsertDevice,
            LoginRefused, FindDevice, EndSessions, DeleteDevice
      <4>2. req'[r].step = "failed" /\ req'[r].op = req[r].op
            /\ req'[r].user = req[r].user
        BY <1>0, <4>1 DEF Abort, GoTo, Request
      <4> QED
        BY <2>2, <3>2, <4>2 DEF RemovalUndone
    <3> QED
      BY <3>1, <3>2
  <2> QED
    BY <1>4, <2>1, <2>2 DEF RemovalUndone
<1> SUFFICES ASSUME NEW s \in Sids, NEW u, Live(s)', s \notin astray',
                    session'[s].user = u, user'[u].deleted
             PROVE  RemovalUndone(u)'
  <2>1. RemovalsEvict' <=> /\ \A q \in Reqs : req'[q].op = "remove" =>
                                  req'[q].sid = NoSid
                           /\ \A q \in Reqs : At(q, "softDelete")' =>
                                  req'[q].op = "remove"
                           /\ \A s \in Sids :
                                 Live(s)' /\ s \notin astray'
                                   /\ user'[session'[s].user].deleted =>
                                 RemovalUndone(session[s].user)'
    BY DEF RemovalsEvict
  <2> QED
    BY <1>3, <2>1 DEF RemovalUndone
<1>5. astray \subseteq astray'
  BY DEF Arrive, Continue, Abort, LoginVerify, RefreshRead, Logout, Kill,
     LogoutAll, ChangePassword, ResetPassword, ResendInvite, RemoveUser,
     RestoreUser, RehireUser, RemoveDevice, StartAuthenticated, Start,
     LoginInsert, RefreshReuse, RefreshUser, RefreshRotate, KillFind,
     RevokeSession, BlacklistJti, UpdatePassword, SoftDelete, Undelete, Rehire,
     EvictSessions, UpsertDevice, LoginRefused, FindDevice, EndSessions,
     DeleteDevice, history
<1>6. CASE LoginInsert(r) /\ s = r
  <2>1. session'[s].user = req[r].user /\ user' = user
    BY <1>0, <1>6 DEF LoginInsert
  <2> QED
    BY <1>6, <2>1 DEF LoginInsert
<1>7. CASE ~(LoginInsert(r) /\ s = r)
  <2>1. Live(s) /\ session'[s].user = session[s].user
    <3>1. ~Revoked(s)
      BY RevokedStays DEF Live, Revoked
    <3>2. session[s].state # "none"
      <4>1. CASE LoginInsert(r)
        BY <1>0, <1>7, <4>1 DEF LoginInsert, Live
      <4>2. CASE RefreshReuse(r) \/ EvictSessions(r) \/ EndSessions(r)
        BY <4>2, RevokeAllRows, EndSessionsRows
        DEF RefreshReuse, EvictSessions, Live, IInv
      <4>3. CASE RefreshRotate(r)
        BY <1>0, <4>3 DEF RefreshRotate, Row, Live
      <4>4. CASE RevokeSession(r)
        BY <1>0, <4>4 DEF RevokeSession, RevokeOne, Row, Live
      <4>5. CASE UNCHANGED session
        BY <4>5 DEF Live
      <4> QED
        BY <4>1, <4>2, <4>3, <4>4, <4>5 DEF Arrive, Continue, Abort,
           LoginVerify, RefreshRead, Logout, Kill, LogoutAll, ChangePassword,
           ResetPassword, ResendInvite, RemoveUser, RestoreUser, RehireUser,
           RemoveDevice, StartAuthenticated, Start, RefreshUser, KillFind,
           BlacklistJti, UpdatePassword, SoftDelete, Undelete, Rehire,
           UpsertDevice, LoginRefused, FindDevice, DeleteDevice
    <3> QED
      BY <1>0, <3>1, <3>2, RowsKeepUser DEF Live, Revoked, Row
  <2>2. u \in Users
    BY <2>1 DEF Live, IInv, RowsWellFormed
  <2>3. CASE SoftDelete(r) /\ req[r].user = u
    <3>1. /\ req'[r].op = "remove" /\ req'[r].user = u
          /\ req'[r].step = "evict"
      BY <1>0, <2>3 DEF SoftDelete, GoTo, Request, At, RemovalsEvict
    <3> QED
      BY <3>1 DEF RemovalUndone
  <2>4. CASE ~(SoftDelete(r) /\ req[r].user = u)
    <3>1. user'[u].deleted => user[u].deleted
      <4>1. CASE Rehire(r) \/ Undelete(r) \/ UpdatePassword(r)
        BY <1>0, <2>2, <4>1 DEF Rehire, Undelete, UpdatePassword
      <4>2. CASE SoftDelete(r)
        BY <1>0, <2>2, <2>4, <4>2 DEF SoftDelete
      <4>3. CASE UNCHANGED user
        BY <4>3
      <4> QED
        BY <4>1, <4>2, <4>3 DEF Arrive, Continue, Abort, LoginVerify,
           RefreshRead, Logout, Kill, LogoutAll, ChangePassword,
           ResetPassword, ResendInvite, RemoveUser, RestoreUser, RehireUser,
           RemoveDevice, StartAuthenticated, Start, LoginInsert, RefreshReuse,
           RefreshUser, RefreshRotate, KillFind, RevokeSession, BlacklistJti,
           EvictSessions, UpsertDevice, LoginRefused, FindDevice, EndSessions,
           DeleteDevice
    <3>2. RemovalUndone(u)
      BY <1>5, <2>1, <3>1 DEF RemovalsEvict
    <3>3. ~(EvictSessions(r) /\ req[r].op = "remove" /\ req[r].user = u)
      <4> SUFFICES ASSUME EvictSessions(r), req[r].op = "remove",
                          req[r].user = u
                   PROVE  FALSE
        OBVIOUS
      <4>1. req[r].sid = NoSid /\ s # NoSid
        BY SessionsAssumption DEF RemovalsEvict
      <4> QED
        BY <1>0, <2>1, <4>1 DEF EvictSessions, RevokeAll, Live, Row
    <3> QED
      BY <1>4, <3>1, <3>2, <3>3
  <2> QED
    BY <2>3, <2>4
<1> QED
  BY <1>6, <1>7

LEMMA EvictStep ==
    ASSUME IInv, PasswordChangeEvictsOldSessions, RemovalsEvict,
           NEW r \in Reqs, Arrive(r) \/ Continue(r) \/ Abort(r)
    PROVE  PasswordChangeEvictsOldSessions'
<1>0. /\ req[r] \in Request /\ session \in [Sids -> Row] /\ r \in Sids
      /\ user \in [Users -> [pw: Nat, deleted: BOOLEAN]]
      /\ vouched \in [Sids -> Nat]
  BY DEF IInv, TypeOK, Sids
<1>1. \A q \in Reqs \ {r} : req'[q] = req[q]
  BY OneRequestMoves
<1>2. CASE Arrive(r)
  <2>1. At(r, "idle") /\ UNCHANGED <<user, session, vouched, astray>>
    BY <1>2 DEF Arrive, LoginVerify, RefreshRead, Logout, Kill, LogoutAll,
       ChangePassword, ResetPassword, ResendInvite, RemoveUser, RestoreUser,
       RehireUser, RemoveDevice, StartAuthenticated, Start, history
  <2> SUFFICES ASSUME NEW s \in Sids, Behind(s)'
               PROVE  \E q \in Reqs : Writing(q, session[s].user)'
    BY DEF PasswordChangeEvictsOldSessions, Behind, Writing
  <2>2. Behind(s)
    BY <2>1 DEF Behind, Live
  <2>3. PICK q \in Reqs : Writing(q, session[s].user)
    BY <2>2 DEF Behind, Writing, PasswordChangeEvictsOldSessions
  <2>4. q # r
    BY <2>1, <2>3 DEF Writing, At
  <2> QED
    BY <1>1, <2>1, <2>3, <2>4 DEF Writing
<1>3. CASE LoginInsert(r)
  <2> SUFFICES ASSUME NEW s \in Sids, Behind(s)'
               PROVE  \E q \in Reqs : Writing(q, session[s].user)'
    BY DEF PasswordChangeEvictsOldSessions, Behind, Writing
  <2>1. s # r
    BY <1>0, <1>3 DEF LoginInsert, Behind, Row, Request
  <2>2. Behind(s) /\ session'[s] = session[s]
    BY <1>0, <1>3, <2>1 DEF LoginInsert, Behind, Live
  <2>3. PICK q \in Reqs : Writing(q, session[s].user)
    BY <2>2 DEF Behind, Writing, PasswordChangeEvictsOldSessions
  <2>4. q # r
    BY <1>3, <2>3 DEF Writing, At, LoginInsert
  <2> QED
    BY <1>1, <1>3, <2>2, <2>3, <2>4 DEF Writing, LoginInsert
<1>4. CASE UpdatePassword(r)
  <2> DEFINE u == req[r].user
  <2>1. u \in Users /\ req[r].op \in PasswordWrites
    BY <1>4 DEF UpdatePassword, At, IInv, RequestsWellFormed
  <2>2. /\ req'[r].user = u /\ req'[r].op = req[r].op
        /\ req'[r].step = "evict" /\ req'[r].pw = user[u].pw + 1
    BY <1>0, <1>4 DEF UpdatePassword, Request, IInv, TypeOK
  <2>3. /\ user'[u].pw = user[u].pw + 1
        /\ \A v \in Users \ {u} : user'[v] = user[v]
        /\ UNCHANGED <<session, vouched, astray>>
    BY <1>0, <1>4, <2>1 DEF UpdatePassword, history
  <2> SUFFICES ASSUME NEW s \in Sids, Behind(s)'
               PROVE  \E q \in Reqs : Writing(q, session[s].user)'
    BY DEF PasswordChangeEvictsOldSessions, Behind, Writing
  <2>4. session[s].user \in Users
    BY <2>3 DEF Behind, Live, IInv, RowsWellFormed
  <2>5. CASE session[s].user = u
    BY <2>1, <2>2, <2>3, <2>5 DEF Writing
  <2>6. CASE session[s].user # u
    <3>1. Behind(s)
      BY <2>3, <2>4, <2>6 DEF Behind, Live
    <3>2. PICK q \in Reqs : Writing(q, session[s].user)
      BY <3>1 DEF Behind, Writing, PasswordChangeEvictsOldSessions
    <3>3. q # r
      BY <1>4, <3>2 DEF Writing, At, UpdatePassword
    <3> QED
      BY <1>1, <2>3, <2>4, <2>6, <3>2, <3>3 DEF Writing
  <2> QED
    BY <2>5, <2>6
<1>5. CASE EvictSessions(r)
  <2> DEFINE u == req[r].user
             kept == req[r].sid
  <2>1. /\ \A s \in Sids : session'[s].user = session[s].user
        /\ \A s \in Sids : Live(s)' =>
               Live(s) /\ (session[s].user = u => s = kept)
    BY <1>0, <1>5 DEF EvictSessions, RevokeAll, Live, Row
  <2>2. \A s \in Sids : /\ vouched'[s] >= vouched[s]
                        /\ s = kept => vouched'[s] >= req[r].pw
    BY <1>0, <1>5, SessionsAssumption DEF EvictSessions, Request
  <2>3. UNCHANGED <<user, astray>>
    BY <1>5 DEF EvictSessions
  <2> SUFFICES ASSUME NEW s \in Sids, Behind(s)'
               PROVE  \E q \in Reqs : Writing(q, session[s].user)'
    BY <2>1 DEF PasswordChangeEvictsOldSessions, Behind, Writing
  <2>4. Live(s) /\ session[s].user \in Users
    BY <2>1 DEF Behind, Live, IInv, RowsWellFormed
  <2>5. vouched'[s] < user[session[s].user].pw
    BY <2>1, <2>3 DEF Behind
  <2>6. vouched[s] < user[session[s].user].pw
    <3>1. /\ vouched[s] \in Nat /\ vouched'[s] \in Nat
          /\ user[session[s].user].pw \in Nat
      BY <1>0, <1>5, <2>4 DEF EvictSessions, Request
    <3> QED
      BY <2>2, <2>5, <3>1
  <2>7. Behind(s)
    BY <2>3, <2>4, <2>6 DEF Behind
  <2>8. PICK q \in Reqs : Writing(q, session[s].user)
    BY <2>7 DEF Behind, Writing, PasswordChangeEvictsOldSessions
  <2>9. q # r
    <3>1. CASE session[s].user = u
      <4>1. s = kept
        BY <2>1, <3>1 DEF Behind
      <4>2. /\ vouched'[s] \in Nat /\ req[r].pw \in Nat
            /\ vouched'[s] >= req[r].pw
        BY <1>0, <1>5, <2>2, <4>1 DEF EvictSessions, Request
      <4> QED
        BY <2>5, <2>8, <4>2 DEF Writing
    <3>2. CASE session[s].user # u
      BY <2>8, <3>2 DEF Writing
    <3> QED
      BY <3>1, <3>2
  <2> QED
    BY <1>1, <2>1, <2>3, <2>8, <2>9 DEF Writing
<1>6. CASE \/ RefreshReuse(r) \/ RefreshUser(r) \/ RefreshRotate(r)
           \/ KillFind(r) \/ RevokeSession(r) \/ BlacklistJti(r)
           \/ SoftDelete(r) \/ Undelete(r) \/ Abort(r)
  <2>1. /\ req'[r].op = req[r].op /\ req'[r].user = req[r].user
        /\ req'[r].pw = req[r].pw
        /\ req[r].step \in {"evict", "failed"} =>
               req'[r].step \in {"evict", "failed"}
    BY <1>0, <1>6 DEF RefreshReuse, RefreshUser, RefreshRotate, KillFind,
       RevokeSession, BlacklistJti, SoftDelete, Undelete, Abort, GoTo, At,
       IInv, TypeOK, Request, Ended
  <2>2. UNCHANGED <<vouched, astray>>
    BY <1>6 DEF RefreshReuse, RefreshUser, RefreshRotate, KillFind,
       RevokeSession, BlacklistJti, SoftDelete, Undelete, Abort, history
  <2>3. \A u \in Users : user'[u].pw = user[u].pw
    BY <1>0, <1>6 DEF RefreshReuse, RefreshUser, RefreshRotate, KillFind,
       RevokeSession, BlacklistJti, SoftDelete, Undelete, Abort
  <2>4. \A s \in Sids : Live(s)' =>
          Live(s) /\ session'[s].user = session[s].user
    BY <1>0, <1>6 DEF RefreshReuse, RefreshUser, RefreshRotate, KillFind,
       RevokeSession, BlacklistJti, SoftDelete, Undelete, Abort, RevokeAll,
       RevokeOne, Live, Row
  <2> QED
    BY <1>1, <2>1, <2>2, <2>3, <2>4, EvictQuietStep
<1>7. CASE \/ UpsertDevice(r) \/ LoginRefused(r) \/ FindDevice(r)
           \/ EndSessions(r) \/ DeleteDevice(r)
  <2>1. /\ req'[r].op = req[r].op /\ req'[r].user = req[r].user
        /\ req'[r].pw = req[r].pw
        /\ req[r].step \notin {"evict", "failed"}
    <3>1. CASE UpsertDevice(r)
      BY <3>1, UpsertMoves
    <3>2. CASE ~UpsertDevice(r)
      BY <1>0, <1>7, <3>2 DEF LoginRefused, FindDevice, EndSessions,
         DeleteDevice, GoTo, At, IInv, TypeOK, Request
    <3> QED
      BY <3>1, <3>2
  <2> USE DEF UpsertDevice, LoginRefused, FindDevice, EndSessions, DeleteDevice
  <2>2. UNCHANGED <<user, vouched, astray>>
    BY <1>7 DEF history
  <2>3. \A s \in Sids : Live(s)' =>
          Live(s) /\ session'[s].user = session[s].user
    BY <1>0, <1>7 DEF Live, Row
  <2> QED
    BY <1>1, <2>1, <2>2, <2>3, EvictQuietStep
<1>8. CASE Rehire(r)
  <2> DEFINE u == req[r].user
  <2>1. /\ u \in Users /\ req[r].step = "rehire"
        /\ UNCHANGED <<session, vouched>> /\ astray \subseteq astray'
        /\ \A v \in Users \ {u} : user'[v] = user[v]
    BY <1>0, <1>8 DEF Rehire, At, IInv, RequestsWellFormed
  <2>2. \A s \in Sids : Live(s) /\ session[s].user = u => s \in astray'
    <3>1. CASE RemovalUndone(u)
      BY <1>8, <3>1 DEF Rehire
    <3>2. CASE ~RemovalUndone(u)
      BY <1>8, <3>2 DEF Rehire, RemovalsEvict, RemovalUndone
    <3> QED
      BY <3>1, <3>2
  <2> SUFFICES ASSUME NEW s \in Sids, Behind(s)'
               PROVE  \E q \in Reqs : Writing(q, session[s].user)'
    BY <2>1 DEF PasswordChangeEvictsOldSessions, Behind, Writing
  <2>3. /\ Live(s) /\ session[s].user # u /\ session[s].user \in Users
        /\ s \notin astray
    BY <2>1, <2>2 DEF Behind, Live, IInv, RowsWellFormed
  <2>4. Behind(s)
    BY <2>1, <2>3 DEF Behind
  <2>5. PICK q \in Reqs : Writing(q, session[s].user)
    BY <2>4 DEF Behind, Writing, PasswordChangeEvictsOldSessions
  <2>6. q # r
    BY <2>1, <2>5 DEF Writing
  <2> QED
    BY <1>1, <2>1, <2>3, <2>5, <2>6 DEF Writing
<1> QED
  BY <1>2, <1>3, <1>4, <1>5, <1>6, <1>7, <1>8 DEF Continue

(* A password change ends every other session of the user, up to the       *)
(* windows the property names.  The newest writer is the witness: a        *)
(* session behind the current password means that the request that wrote   *)
(* exactly this password has not run its updateMany; a re-hire, which has  *)
(* none, finds no session that RemovalsEvict does not account for.         *)
THEOREM PasswordChangeEvicts == Spec => []PasswordChangeEvictsOldSessions
<1>1. Init => PasswordChangeEvictsOldSessions /\ RemovalsEvict
  BY SessionsAssumption
  DEF Init, PasswordChangeEvictsOldSessions, RemovalsEvict, Live, Sids, Idle,
      At
<1>2. IInv /\ PasswordChangeEvictsOldSessions /\ RemovalsEvict /\ [Next]_vars
        => PasswordChangeEvictsOldSessions' /\ RemovalsEvict'
  <2> SUFFICES ASSUME IInv, PasswordChangeEvictsOldSessions, RemovalsEvict,
                      [Next]_vars
               PROVE  PasswordChangeEvictsOldSessions' /\ RemovalsEvict'
    OBVIOUS
  <2>1. CASE Tick \/ UNCHANGED vars
    BY <2>1 DEF Tick, vars, history, PasswordChangeEvictsOldSessions, Live,
       RemovalsEvict, RemovalUndone, At
  <2> QED
    BY <2>1, EvictStep, RemovalsStep DEF Next
<1> QED
  BY <1>1, <1>2, Invariance, PTL DEF Spec

-----------------------------------------------------------------------------
(* Devices.                                                                *)

(* Request d is past the step that may have created device d.              *)
Begun(d) == d \in Reqs => req[d].step \notin {"idle", "device"}

(* A device is created once; a login about to insert its session has found *)
(* a device of its user, that may be gone by now.                          *)
DevicesKnown ==
    /\ \A d \in Sids : ~Begun(d) => device[d] = Nobody
    /\ \A r \in Reqs : At(r, "insert") =>
           Begun(req[r].dev) /\ device[req[r].dev] \in {req[r].user, Nobody}

DInv == DevicesKnown /\ RemovedDeviceIsSignedOut

(* A step that opens no session and touches no device.                     *)
LEMMA DeviceQuietStep ==
    ASSUME IInv, DInv, NEW r \in Reqs,
           \A q \in Reqs \ {r} : req'[q] = req[q],
           req'[r].step \notin {"idle", "insert", "deleteDevice"},
           req'[r].step = "device" => At(r, "idle"),
           \A s \in Sids : Live(s)' =>
               Live(s) /\ session'[s].user = session[s].user,
           UNCHANGED devices
    PROVE  DInv'
<1>1. \A d \in Sids : Begun(d) => Begun(d)'
  BY DEF Begun, At
<1>2. DevicesKnown'
  <2>1. \A d \in Sids : ~Begun(d)' => device'[d] = Nobody
    BY <1>1 DEF DInv, DevicesKnown
  <2>2. ASSUME NEW q \in Reqs, At(q, "insert")'
        PROVE  (Begun(req[q].dev) /\ device[req[q].dev] \in {req[q].user, Nobody})'
    <3>1. q # r /\ req'[q] = req[q] /\ At(q, "insert") /\ req[q].dev \in Sids
      BY <2>2 DEF At, IInv, RequestsWellFormed
    <3> QED
      BY <1>1, <3>1 DEF DInv, DevicesKnown
  <2> QED
    BY <2>1, <2>2 DEF DevicesKnown
<1>3. \A q \in Reqs, d \in Sids : Removing(q, d)' => Removing(q, d)
  BY DEF Removing, At
<1>4. RemovedDeviceIsSignedOut'
  BY <1>3 DEF DInv, RemovedDeviceIsSignedOut
<1> QED
  BY <1>2, <1>4 DEF DInv

LEMMA DeviceStep ==
    ASSUME IInv, DInv, NEW r \in Reqs, Arrive(r) \/ Continue(r) \/ Abort(r)
    PROVE  DInv'
<1>0. /\ req[r] \in Request /\ session \in [Sids -> Row] /\ r \in Sids
      /\ req \in [Reqs -> Request]
      /\ device \in [Sids -> Users \cup {Nobody}]
      /\ openedOn \in [Sids -> Sids \cup {NoSid}]
  BY DEF IInv, TypeOK, Sids
<1>1. \A q \in Reqs \ {r} : req'[q] = req[q]
  BY OneRequestMoves
<1>2. CASE Arrive(r)
  <2>1. At(r, "idle") /\ UNCHANGED <<session, devices>>
    BY <1>2 DEF Arrive, LoginVerify, RefreshRead, Logout, Kill, LogoutAll,
       ChangePassword, ResetPassword, ResendInvite, RemoveUser, RestoreUser,
       RehireUser, RemoveDevice, StartAuthenticated, Start
  <2>2. req'[r].step \notin {"idle", "insert", "deleteDevice"}
    <3>1. CASE LoginVerify(r)
      <4>1. PICK u \in Users :
                req' = [req EXCEPT ![r] =
                    [Idle EXCEPT !.op = "login", !.step = "device", !.user = u,
                                 !.sid = r, !.pw = user[u].pw]]
        BY <3>1 DEF LoginVerify
      <4>2. req'[r] =
                [Idle EXCEPT !.op = "login", !.step = "device", !.user = u,
                             !.sid = r, !.pw = user[u].pw]
        BY <1>0, <4>1
      <4> QED
        BY <4>2 DEF Idle
    <3>2. CASE RemoveDevice(r)
      <4>1. PICK a \in accessTokens, d \in Sids :
                req' = [req EXCEPT ![r] =
                    [Idle EXCEPT !.op = "removeDevice", !.step = "findDevice",
                                 !.user = session[a.sid].user, !.dev = d]]
        BY <3>2 DEF RemoveDevice
      <4>2. req'[r] =
                [Idle EXCEPT !.op = "removeDevice", !.step = "findDevice",
                             !.user = session[a.sid].user, !.dev = d]
        BY <1>0, <4>1
      <4> QED
        BY <4>2 DEF Idle
    <3>3. CASE RefreshRead(r)
      BY <1>0, <3>3 DEF RefreshRead, RefreshVerdict, Idle
    <3>4. ASSUME NEW op, NEW step, NEW u, NEW x, NEW jti,
                 step \notin {"idle", "insert", "deleteDevice"},
                 Start(r, op, step, u, x, jti)
          PROVE  req'[r].step \notin {"idle", "insert", "deleteDevice"}
      BY <1>0, <3>4 DEF Start, Idle
    <3> QED
      BY <1>2, <3>1, <3>2, <3>3, <3>4 DEF Arrive, Logout, Kill, LogoutAll,
         ChangePassword, ResetPassword, ResendInvite, RemoveUser, RestoreUser,
         RehireUser, StartAuthenticated
  <2> QED
    BY <1>1, <2>1, <2>2, DeviceQuietStep DEF Live
<1>3. CASE UpsertDevice(r)
  <2>1. PICK d \in Sids :
          /\ d = r \/ device[d] = req[r].user
          /\ device' = [device EXCEPT ![d] = req[r].user]
          /\ req'[r].step = "insert" /\ req'[r].dev = d
          /\ req'[r].user = req[r].user
    BY <1>3, UpsertMoves
  <2>2. /\ At(r, "device") /\ req[r].user \in Users
        /\ UNCHANGED <<session, openedOn, slipped>>
    BY <1>3 DEF UpsertDevice, At, IInv, RequestsWellFormed
  <2>3. req'[r].step = "insert" /\ req'[r].dev = d /\ req'[r].user = req[r].user
    BY <2>1
  <2>4. \A e \in Sids : device[e] # Nobody => Begun(e) /\ device'[e] = device[e]
    BY <1>0, <2>1, <2>2 DEF DInv, DevicesKnown, Begun, At
  <2>5. \A e \in Sids : Begun(e) => Begun(e)' /\ (e = d
  \/ device'[e] = device[e])
    BY <1>0, <1>1, <2>1, <2>3 DEF Begun
  <2>6. Begun(d)' /\ device'[d] = req[r].user
    <3>1. CASE d = r
      BY <1>0, <2>1, <2>3, <3>1 DEF Begun
    <3>2. CASE d # r
      BY <1>0, <2>1, <2>2, <2>4, <2>5, <3>2, SessionsAssumption
    <3> QED
      BY <3>1, <3>2
  <2>7. \A q \in Reqs \ {r} : At(q, "insert") =>
          device'[req[q].dev] \in {req[q].user, Nobody}
    <3> SUFFICES ASSUME NEW q \in Reqs \ {r}, At(q, "insert")
                 PROVE  device'[req[q].dev] \in {req[q].user, Nobody}
      OBVIOUS
    <3>1. /\ req[q].dev \in Sids /\ Begun(req[q].dev)
          /\ device[req[q].dev] \in {req[q].user, Nobody}
      BY DEF IInv, RequestsWellFormed, DInv, DevicesKnown, At
    <3>2. req[q].dev # r
      BY <2>2, <3>1 DEF Begun, At
    <3>3. device'[req[q].dev] = device[req[q].dev]
      BY <1>0, <2>1, <3>1, <3>2
    <3> QED
      BY <3>1, <3>3
  <2>8. DevicesKnown'
    <3>1. \A e \in Sids : ~Begun(e)' => device'[e] = Nobody
      BY <1>0, <2>1, <2>5, <2>6 DEF DInv, DevicesKnown
    <3>2. ASSUME NEW q \in Reqs, At(q, "insert")'
          PROVE  (Begun(req[q].dev) /\ device[req[q].dev] \in {req[q].user, Nobody})'
      <4>1. CASE q = r
        BY <2>3, <2>6, <4>1
      <4>2. CASE q # r
        <5>1. req'[q] = req[q] /\ At(q, "insert")
          BY <1>1, <3>2, <4>2 DEF At
        <5>2. req[q].dev \in Sids /\ Begun(req[q].dev)
          BY <5>1 DEF IInv, RequestsWellFormed, DInv, DevicesKnown, At
        <5> QED
          BY <2>5, <2>7, <4>2, <5>1, <5>2
      <4> QED
        BY <4>1, <4>2
    <3> QED
      BY <3>1, <3>2 DEF DevicesKnown
  <2>9. RemovedDeviceIsSignedOut'
    <3>1. \A q \in Reqs, e \in Sids : Removing(q, e)' => Removing(q, e)
      BY <1>1, <2>3 DEF Removing, At
    <3>2. \A s \in Sids : Live(s)' = Live(s) /\ (Live(s) => session[s].user \in Users)
      BY <2>2 DEF Live, IInv, RowsWellFormed
    <3> QED
      BY <2>2, <2>4, <3>1, <3>2, SessionsAssumption
      DEF DInv, RemovedDeviceIsSignedOut
  <2> QED
    BY <2>8, <2>9 DEF DInv
<1>4. CASE LoginInsert(r)
  <2> DEFINE d == req[r].dev
  <2>1. /\ At(r, "insert") /\ d \in Sids /\ device[d] = req[r].user
        /\ device' = device
    BY <1>4 DEF LoginInsert, At, IInv, RequestsWellFormed, DInv, DevicesKnown
  <2>2. /\ req'[r].step = "done"
        /\ openedOn' = [openedOn EXCEPT ![r] = d]
        /\ session'[r].user = req[r].user
        /\ \A s \in Sids \ {r} : session'[s] = session[s]
        /\ slipped \subseteq slipped'
        /\ r \notin slipped' => \A q \in Reqs : ~Removing(q, d)
    BY <1>0, <1>4 DEF LoginInsert, GoTo, Request
  <2>3. DevicesKnown'
    BY <1>1, <2>1, <2>2 DEF DInv, DevicesKnown, Begun, At, IInv,
       RequestsWellFormed
  <2>4. \A q \in Reqs, e \in Sids : Removing(q, e)' => Removing(q, e)
    BY <1>1, <2>2 DEF Removing, At
  <2>5. ASSUME NEW s \in Sids, Live(s)', s \notin slipped'
        PROVE  /\ openedOn'[s] \in Sids /\ device'[openedOn'[s]] = session'[s].user
               /\ \A q \in Reqs : ~Removing(q, openedOn[s])'
    <3>1. CASE s = r
      <4>1. openedOn'[s] = d
        BY <1>0, <2>2, <3>1
      <4> QED
        BY <2>1, <2>2, <2>4, <2>5, <3>1, <4>1 DEF Removing
    <3>2. CASE s # r
      <4>1. openedOn'[s] = openedOn[s] /\ Live(s) /\ s \notin slipped
            /\ session'[s] = session[s]
        BY <1>0, <2>2, <2>5, <3>2 DEF Live
      <4> QED
        BY <2>1, <2>4, <4>1 DEF DInv, RemovedDeviceIsSignedOut, Removing
    <3> QED
      BY <3>1, <3>2
  <2> QED
    BY <2>3, <2>5 DEF DInv, RemovedDeviceIsSignedOut
<1>5. CASE EndSessions(r)
  <2> DEFINE d == req[r].dev
  <2>1. /\ At(r, "endSessions") /\ UNCHANGED devices
        /\ req'[r].step = "deleteDevice" /\ req'[r].dev = d
        /\ \A s \in Sids : Live(s)' =>
               /\ Live(s) /\ openedOn[s] # d
               /\ session'[s].user = session[s].user
    BY <1>0, <1>5 DEF EndSessions, GoTo, Request, Live, Row
  <2>2. DevicesKnown'
    BY <1>1, <2>1 DEF DInv, DevicesKnown, Begun, At, IInv, RequestsWellFormed
  <2>3. \A q \in Reqs, e \in Sids : Removing(q, e)' => Removing(q, e) \/ e = d
    BY <1>1, <2>1 DEF Removing, At
  <2>4. RemovedDeviceIsSignedOut'
    BY <2>1, <2>3 DEF DInv, RemovedDeviceIsSignedOut
  <2> QED
    BY <2>2, <2>4 DEF DInv
<1>6. CASE DeleteDevice(r)
  <2> DEFINE d == req[r].dev
  <2>1. /\ Removing(r, d) /\ d \in Sids /\ UNCHANGED <<session, slipped>>
        /\ req'[r].step \in {"rejected", "done"}
        /\ \A e \in Sids \ {d} : device'[e] = device[e]
        /\ device'[d] = Nobody
        /\ \A s \in Sids : openedOn[s] # d => openedOn'[s] = openedOn[s]
    BY <1>0, <1>6 DEF DeleteDevice, GoTo, Request, Removing, At, IInv,
       RequestsWellFormed
  <2>2. DevicesKnown'
    BY <1>1, <2>1 DEF DInv, DevicesKnown, Begun, At, IInv, RequestsWellFormed,
       Removing
  <2>3. \A q \in Reqs, e \in Sids : Removing(q, e)' => Removing(q, e)
    BY <1>1, <2>1 DEF Removing, At
  <2>4. \A s \in Sids : Live(s) /\ s \notin slipped => openedOn[s] # d
    BY <2>1 DEF DInv, RemovedDeviceIsSignedOut
  <2>5. \A s \in Sids : Live(s)' = Live(s)
    BY <2>1 DEF Live
  <2>6. RemovedDeviceIsSignedOut'
    BY <2>1, <2>3, <2>4, <2>5 DEF DInv, RemovedDeviceIsSignedOut, Removing
  <2> QED
    BY <2>2, <2>6 DEF DInv
<1>7. CASE \/ RefreshReuse(r) \/ RefreshUser(r) \/ RefreshRotate(r)
           \/ KillFind(r) \/ RevokeSession(r) \/ BlacklistJti(r)
           \/ UpdatePassword(r) \/ SoftDelete(r) \/ Undelete(r) \/ Rehire(r)
           \/ EvictSessions(r) \/ LoginRefused(r) \/ FindDevice(r) \/ Abort(r)
  <2> USE DEF RefreshReuse, RefreshUser, RefreshRotate, KillFind,
              RevokeSession, BlacklistJti, UpdatePassword, SoftDelete,
              Undelete, Rehire, EvictSessions, LoginRefused, FindDevice, Abort
  <2>1. req'[r].step \notin {"idle", "device", "insert", "deleteDevice"}
    BY <1>0, <1>7 DEF GoTo, Request
  <2>2. UNCHANGED devices
    BY <1>7
  <2>3. \A s \in Sids : Live(s)' =>
          Live(s) /\ session'[s].user = session[s].user
    BY <1>0, <1>7 DEF RevokeAll, RevokeOne, Live, Row
  <2> QED
    BY <1>1, <2>1, <2>2, <2>3, DeviceQuietStep
<1> QED
  BY <1>2, <1>3, <1>4, <1>5, <1>6, <1>7 DEF Continue

(* Removing a device signs it out: what stays live is on a device of its   *)
(* user, but for the sessions inserted between the two statements of a     *)
(* removal.                                                                *)
THEOREM RemovedDevicesSignedOut == Spec => []RemovedDeviceIsSignedOut
<1>1. Init => DInv
  BY SessionsAssumption
  DEF Init, DInv, DevicesKnown, RemovedDeviceIsSignedOut, Removing, Begun, At,
      Idle, Live, Sids
<1>2. IInv /\ DInv /\ [Next]_vars => DInv'
  <2> SUFFICES ASSUME IInv, DInv, [Next]_vars PROVE DInv'
    OBVIOUS
  <2>1. CASE Tick \/ UNCHANGED vars
    BY <2>1 DEF Tick, vars, DInv, DevicesKnown, RemovedDeviceIsSignedOut,
       Removing, Begun, At, Live
  <2> QED
    BY <2>1, DeviceStep DEF Next
<1>3. DInv => RemovedDeviceIsSignedOut
  BY DEF DInv
<1> QED
  BY <1>1, <1>2, <1>3, Invariance, PTL DEF Spec
-----------------------------------------------------------------------------
(* Soft-deleted users.                                                     *)

(* A refresh checks the row of the user its session belongs to.            *)
HoldersMatch ==
    \A r \in Reqs : req[r].step \in {"user", "rotate"} =>
        session[req[r].sid].user = req[r].user

(* How a request comes to a step from which it may answer with tokens.     *)
LEMMA CommittedHow ==
    ASSUME IInv, NEW r \in Reqs, Arrive(r) \/ Continue(r) \/ Abort(r),
           NEW u, Committed(r, u)'
    PROVE  \/ Committed(r, u)
           \/ u \in Users /\ ~user[u].deleted
<1>0. req \in [Reqs -> Request] /\ req[r] \in Request
  BY DEF IInv, TypeOK
<1>1. CASE LoginVerify(r)
  <2>1. PICK v \in Users :
          /\ ~user[v].deleted
          /\ req' = [req EXCEPT ![r] = [Idle EXCEPT !.op = "login",
                        !.step = "device", !.user = v, !.sid = r,
                        !.pw = user[v].pw]]
    BY <1>1 DEF LoginVerify
  <2>2. req'[r] = [Idle EXCEPT !.op = "login", !.step = "device", !.user = v,
                               !.sid = r, !.pw = user[v].pw]
    BY <1>0, <2>1
  <2> QED
    BY <2>1, <2>2 DEF Idle, Committed
<1>2. CASE RefreshRead(r)
  <2>1. PICK t \in refreshTokens :
          req' = [req EXCEPT ![r] = [Idle EXCEPT !.op = "refresh",
                      !.step = RefreshVerdict(t), !.sid = t.sid,
                      !.user = session[t.sid].user, !.iat = t.iat]]
    BY <1>2 DEF RefreshRead
  <2>2. req'[r].step = RefreshVerdict(t)
    BY <1>0, <2>1 DEF Idle
  <2> QED
    BY <2>2 DEF RefreshVerdict, Committed
<1>3. CASE RemoveDevice(r)
  BY <1>0, <1>3 DEF RemoveDevice, Idle, Committed
<1>4. CASE \/ Logout(r) \/ Kill(r) \/ LogoutAll(r) \/ ChangePassword(r)
           \/ ResetPassword(r) \/ ResendInvite(r) \/ RemoveUser(r)
           \/ RestoreUser(r) \/ RehireUser(r)
  <2>1. ASSUME NEW op, NEW step, NEW v, NEW x, NEW jti,
               step \notin {"device", "insert", "rotate"},
               Start(r, op, step, v, x, jti)
        PROVE  FALSE
    BY <1>0, <2>1 DEF Start, Idle, Committed
  <2> QED
    BY <1>4, <2>1 DEF Logout, Kill, LogoutAll, ChangePassword, ResetPassword,
       ResendInvite, RemoveUser, RestoreUser, RehireUser, StartAuthenticated
<1>5. CASE RefreshUser(r)
  BY <1>0, <1>5 DEF RefreshUser, Committed, At, GoTo, Request, IInv,
     RequestsWellFormed
<1>6. CASE UpsertDevice(r)
  BY <1>6, ContinueKeeps DEF UpsertDevice, Committed, At, Continue
<1>7. CASE UpdatePassword(r)
  BY <1>0, <1>7 DEF UpdatePassword, Committed, Request
<1>8. ASSUME NEW p \in Steps \ {"device", "insert", "rotate"}, GoTo(r, p)
      PROVE  FALSE
  BY <1>0, <1>8 DEF GoTo, Committed, Request
<1>9. CASE \/ LoginInsert(r) \/ RefreshReuse(r) \/ RefreshRotate(r)
           \/ KillFind(r) \/ RevokeSession(r) \/ BlacklistJti(r)
           \/ SoftDelete(r) \/ Undelete(r) \/ Rehire(r) \/ EvictSessions(r)
           \/ Abort(r)
           \/ LoginRefused(r) \/ FindDevice(r) \/ EndSessions(r)
           \/ DeleteDevice(r)
  BY <1>8, <1>9 DEF Steps, Abort, LoginInsert, RefreshReuse, RefreshRotate,
     KillFind, RevokeSession, BlacklistJti, SoftDelete, Undelete, Rehire,
     EvictSessions, LoginRefused, FindDevice, EndSessions, DeleteDevice
<1> QED
  BY <1>1, <1>2, <1>3, <1>4, <1>5, <1>6, <1>7, <1>9 DEF Arrive, Continue

LEMMA HoldersMatchStep ==
    ASSUME IInv, HoldersMatch, [Next]_vars
    PROVE  HoldersMatch'
<1>1. CASE Tick \/ UNCHANGED vars
  BY <1>1 DEF Tick, vars, HoldersMatch
<1>2. ASSUME NEW r \in Reqs, Arrive(r) \/ Continue(r) \/ Abort(r),
             NEW q \in Reqs, req'[q].step \in {"user", "rotate"}
      PROVE  session'[req'[q].sid].user = req'[q].user
  <2>0. req \in [Reqs -> Request]
    BY DEF IInv, TypeOK
  <2>1. CASE req'[q].sid = req[q].sid /\ req'[q].user = req[q].user
              /\ req[q].step \in {"user", "rotate"}
    <3>1. req[q].sid \in Sids /\ session[req[q].sid].state # "none"
      BY <2>1 DEF IInv, RequestsWellFormed
    <3> QED
      BY <1>2, <2>1, <3>1, RowsKeepUser DEF HoldersMatch
  <2>2. CASE q # r
    BY <1>2, <2>1, <2>2, OneRequestMoves
  <2>3. CASE q = r /\ RefreshRead(r)
    <3>1. PICK t \in refreshTokens :
            req' = [req EXCEPT ![r] = [Idle EXCEPT !.op = "refresh",
                        !.step = RefreshVerdict(t), !.sid = t.sid,
                        !.user = session[t.sid].user, !.iat = t.iat]]
      BY <2>3 DEF RefreshRead
    <3>2. req'[r].sid = t.sid /\ req'[r].user = session[t.sid].user
      BY <2>0, <3>1 DEF Idle
    <3> QED
      BY <2>3, <3>2 DEF RefreshRead
  <2>4. CASE q = r /\ (Continue(r) \/ Abort(r))
    <3>3. req[r].step \in {"user", "rotate"}
      <4>1. CASE RefreshUser(r)
        BY <4>1 DEF RefreshUser, At
      <4>2. CASE UpdatePassword(r) \/ UpsertDevice(r)
        BY <1>2, <2>0, <2>4, <4>2, UpsertMoves DEF UpdatePassword, Request
      <4>3. ASSUME NEW p \in Steps \ {"user", "rotate"}, GoTo(r, p)
            PROVE  FALSE
        BY <1>2, <2>0, <2>4, <4>3 DEF GoTo, Request
      <4> QED
        BY <2>4, <4>1, <4>2, <4>3 DEF Continue, Steps, Abort, LoginInsert,
           RefreshReuse, RefreshRotate, KillFind, RevokeSession, BlacklistJti,
           SoftDelete, Undelete, Rehire, EvictSessions, LoginRefused,
           FindDevice, EndSessions, DeleteDevice
    <3> QED
      BY <2>1, <2>4, <3>3, ContinueKeeps
  <2>5. CASE q = r /\ Arrive(r) /\ ~RefreshRead(r)
    <3>2. ASSUME NEW op, NEW step, NEW v, NEW x, NEW jti,
                 step \notin {"user", "rotate"}, Start(r, op, step, v, x, jti)
          PROVE  FALSE
      BY <1>2, <2>0, <2>5, <3>2 DEF Start, Idle
    <3>3. LoginVerify(r) \/ RemoveDevice(r) =>
            req'[r].step \in {"device", "findDevice"}
      BY <2>0 DEF LoginVerify, RemoveDevice, Idle
    <3> QED
      BY <1>2, <2>5, <3>2, <3>3 DEF Arrive, Logout, Kill, LogoutAll,
         ChangePassword, ResetPassword, ResendInvite, RemoveUser, RestoreUser,
         RehireUser, StartAuthenticated
  <2> QED
    BY <1>2, <2>2, <2>3, <2>4, <2>5
<1> QED
  BY <1>1, <1>2 DEF Next, HoldersMatch

LEMMA DeletedStep ==
    ASSUME IInv, HoldersMatch, [Next]_vars, NEW u \in Users, DeletedAndIdle(u)
    PROVE  /\ \A s \in Sids : session[s].user = u => TokensOf(s)' = TokensOf(s)
           /\ user'[u].deleted => DeletedAndIdle(u)'
<1>1. CASE Tick \/ UNCHANGED vars
  BY <1>1 DEF Tick, vars, tokens, TokensOf, DeletedAndIdle, Committed
<1>2. ASSUME NEW r \in Reqs, Arrive(r) \/ Continue(r) \/ Abort(r),
             NEW s \in Sids, session[s].user = u
      PROVE  TokensOf(s)' = TokensOf(s)
  <2>1. session[s].state # "none"
    BY <1>2 DEF IInv, RowsWellFormed
  <2>2. ~(RefreshRotate(r) /\ Holds(r, s))
    BY <1>2 DEF RefreshRotate, Holds, At, HoldersMatch, DeletedAndIdle,
       Committed
  <2> QED
    BY <1>2, <2>1, <2>2, WhoMints
<1>3. ASSUME NEW r \in Reqs, Arrive(r) \/ Continue(r) \/ Abort(r),
             user'[u].deleted
      PROVE  DeletedAndIdle(u)'
  <2>1. ~Committed(r, u)'
    BY <1>3, CommittedHow DEF DeletedAndIdle
  <2>2. \A q \in Reqs \ {r} : ~Committed(q, u)'
    BY <1>3, OneRequestMoves DEF DeletedAndIdle, Committed
  <2> QED
    BY <1>3, <2>1, <2>2 DEF DeletedAndIdle
<1> QED
  BY <1>1, <1>2, <1>3 DEF Next

(* A soft-deleted user gets no token once the requests that had read its   *)
(* row are over: a refresh looks at the row of the user its session        *)
(* belongs to, a login at the row it opens a session for.                  *)
THEOREM DeletedUsersGetNothing == Spec => DeletedUserGetsNoToken
<1>1. Init => HoldersMatch
  BY DEF Init, HoldersMatch, Idle
<1>2. IInv /\ HoldersMatch /\ [Next]_vars => HoldersMatch'
  BY HoldersMatchStep
<1>3. IInv /\ HoldersMatch /\ [Next]_vars =>
        [\A u \in Users : DeletedAndIdle(u) =>
           /\ \A s \in Sids : session[s].user = u => TokensOf(s)' = TokensOf(s)
           /\ user'[u].deleted => DeletedAndIdle(u)']_vars
  BY DeletedStep
<1> QED
  BY <1>1, <1>2, <1>3, Invariance, PTL DEF Spec, DeletedUserGetsNoToken

-----------------------------------------------------------------------------
(* Logged-out access tokens.                                               *)

(* No token is dated in the future, a request signs one token and has then *)
(* ended, and a logout names the jti of a token already signed: no token   *)
(* gets that jti later.  With a Redis that answers, the key of a completed *)
(* logout outlives every token that bears the jti.                         *)
TokensDated ==
    /\ \A a \in accessTokens : a.iat <= now
    /\ \A r \in Reqs : req[r].signed <= now

JtisSpent ==
    /\ \A a \in accessTokens : a.jti \in Reqs => At(a.jti, "done")
    /\ \A r \in Reqs : req[r].op = "logout" =>
           /\ req[r].step \in {"revoke", "blacklist", "done", "failed"}
           /\ req[r].jti \in Sids
           /\ req[r].jti \in Reqs => At(req[r].jti, "done")

KeysOutlive ==
    ~RedisMayFail => \A r \in Reqs : req[r].op = "logout" /\ At(r, "done") =>
        \A a \in accessTokens : a.jti = req[r].jti =>
            a.iat + AccessTTL <= blacklist[a.jti]

LInv == TokensDated /\ JtisSpent /\ KeysOutlive

(* An ended request does not move again.                                   *)
LEMMA DoneStays ==
    ASSUME IInv, NEW r \in Reqs, Arrive(r) \/ Continue(r) \/ Abort(r),
           NEW q \in Reqs, At(q, "done")
    PROVE  q # r /\ req'[q] = req[q] /\ At(q, "done")'
<1>1. ~At(r, "done")
  <2>1. CASE Arrive(r)
    BY <2>1 DEF Arrive, LoginVerify, RefreshRead, Logout, Kill, LogoutAll,
       ChangePassword, ResetPassword, ResendInvite, RemoveUser, RestoreUser,
       RehireUser, RemoveDevice, StartAuthenticated, Start, At
  <2>2. CASE Continue(r) \/ Abort(r)
    BY <2>2, ContinueKeeps DEF At, Ended
  <2> QED
    BY <2>1, <2>2
<1> QED
  BY <1>1, OneRequestMoves DEF At

(* What a request that starts carries.                                     *)
LEMMA ArriveCarries ==
    ASSUME IInv, NEW r \in Reqs, Arrive(r)
    PROVE  /\ req'[r].signed = 0 /\ req'[r].step # "done"
           /\ req'[r].op = "logout" =>
                  /\ req'[r].step = "revoke"
                  /\ \E a \in accessTokens : req'[r].jti = a.jti
           /\ UNCHANGED <<now, accessTokens, blacklist>>
<1>0. req \in [Reqs -> Request]
  BY DEF IInv, TypeOK
<1>1. CASE LoginVerify(r)
  <2>1. PICK u \in Users :
          req' = [req EXCEPT ![r] = [Idle EXCEPT !.op = "login",
                      !.step = "device", !.user = u, !.sid = r,
                      !.pw = user[u].pw]]
    BY <1>1 DEF LoginVerify
  <2>2. req'[r].signed = 0 /\ req'[r].step = "device" /\ req'[r].op = "login"
    BY <1>0, <2>1 DEF Idle
  <2> QED
    BY <1>1, <2>2 DEF LoginVerify, tokens
<1>2. CASE RefreshRead(r)
  <2>1. PICK t \in refreshTokens :
          req' = [req EXCEPT ![r] = [Idle EXCEPT !.op = "refresh",
                      !.step = RefreshVerdict(t), !.sid = t.sid,
                      !.user = session[t.sid].user, !.iat = t.iat]]
    BY <1>2 DEF RefreshRead
  <2>2. /\ req'[r].signed = 0 /\ req'[r].step = RefreshVerdict(t)
        /\ req'[r].op = "refresh"
    BY <1>0, <2>1 DEF Idle
  <2> QED
    BY <1>2, <2>2 DEF RefreshRead, RefreshVerdict, tokens
<1>3. CASE RemoveDevice(r)
  <2>1. PICK a \in accessTokens, d \in Sids :
          req' = [req EXCEPT ![r] = [Idle EXCEPT !.op = "removeDevice",
                      !.step = "findDevice", !.user = session[a.sid].user,
                      !.dev = d]]
    BY <1>3 DEF RemoveDevice
  <2>2. /\ req'[r].signed = 0 /\ req'[r].step = "findDevice"
        /\ req'[r].op = "removeDevice"
    BY <1>0, <2>1 DEF Idle
  <2> QED
    BY <1>3, <2>2 DEF RemoveDevice, tokens
<1>4. ASSUME NEW op, NEW step, NEW u, NEW x, NEW jti, step # "done",
             Start(r, op, step, u, x, jti)
      PROVE  /\ req'[r].signed = 0 /\ req'[r].step # "done"
             /\ req'[r].op = op /\ req'[r].jti = jti /\ req'[r].step = step
             /\ UNCHANGED <<now, accessTokens, blacklist>>
  BY <1>0, <1>4 DEF Start, Idle
<1>5. CASE Logout(r)
  BY <1>4, <1>5 DEF Logout, StartAuthenticated
<1>6. CASE \/ Kill(r) \/ LogoutAll(r) \/ ChangePassword(r)
           \/ ResetPassword(r) \/ ResendInvite(r) \/ RemoveUser(r)
           \/ RestoreUser(r) \/ RehireUser(r)
  BY <1>4, <1>6 DEF Kill, LogoutAll, ChangePassword, ResetPassword,
     ResendInvite, RemoveUser, RestoreUser, RehireUser, StartAuthenticated
<1> QED
  BY <1>1, <1>2, <1>3, <1>5, <1>6 DEF Arrive

(* A step that signs no token and lists no jti; a logout does not complete *)
(* by it.                                                                  *)
LEMMA LogoutQuietStep ==
    ASSUME IInv, LInv, NEW r \in Reqs, Arrive(r) \/ Continue(r) \/ Abort(r),
           UNCHANGED <<now, accessTokens, blacklist>>,
           req'[r].signed <= now,
           req'[r].op = "logout" =>
               /\ req'[r].step \in {"revoke", "blacklist", "failed"}
               /\ \/ req[r].op = "logout" /\ req'[r].jti = req[r].jti
                  \/ \E a \in accessTokens : req'[r].jti = a.jti
    PROVE  LInv'
<1>1. TokensDated'
  BY OneRequestMoves DEF LInv, TokensDated
<1>2. \A a \in accessTokens : a.jti \in Sids
  BY DEF IInv, TypeOK, AccessToken
<1>3. JtisSpent'
  <2>1. \A a \in accessTokens : a.jti \in Reqs => At(a.jti, "done")'
    BY DoneStays DEF LInv, JtisSpent
  <2>2. ASSUME NEW q \in Reqs, req'[q].op = "logout"
        PROVE  /\ req'[q].step \in {"revoke", "blacklist", "done", "failed"}
               /\ req'[q].jti \in Sids
               /\ req'[q].jti \in Reqs => At(req[q].jti, "done")'
    <3>1. CASE q # r
      <4>1. req'[q] = req[q]
        BY <3>1, OneRequestMoves
      <4> QED
        BY <2>2, <4>1, DoneStays DEF LInv, JtisSpent
    <3>2. CASE q = r
      BY <1>2, <2>1, <2>2, <3>2, DoneStays DEF LInv, JtisSpent
    <3> QED
      BY <3>1, <3>2
  <2> QED
    BY <2>1, <2>2 DEF JtisSpent
<1>4. KeysOutlive'
  BY OneRequestMoves DEF LInv, KeysOutlive, At
<1> QED
  BY <1>1, <1>3, <1>4 DEF LInv

(* The answer with a new token: nobody can have logged out of it.          *)
LEMMA LogoutDeliverStep ==
    ASSUME IInv, LInv, NEW r \in Reqs, Continue(r), NEW s, NEW iat \in Nat,
           Deliver(r, s, iat), iat <= now, GoTo(r, "done"),
           req[r].op # "logout", UNCHANGED <<now, blacklist>>
    PROVE  LInv'
<1>0. /\ req'[r].step = "done" /\ req'[r].op = req[r].op
      /\ req'[r].signed = req[r].signed
      /\ ~At(r, "done")
  BY ContinueKeeps DEF IInv, TypeOK, GoTo, Request, At, Ended
<1>1. \A q \in Reqs \ {r} : req'[q] = req[q]
  BY OneRequestMoves
<1>2. \A a \in accessTokens' :
        a \in accessTokens \/ (a.jti = r /\ a.iat = iat)
  BY DEF Deliver
<1>3. TokensDated'
  BY <1>0, <1>1, <1>2 DEF LInv, TokensDated
<1>4. \A q \in Reqs : At(q, "done") => At(q, "done")'
  BY <1>0, <1>1 DEF At
<1>5. JtisSpent'
  BY <1>0, <1>1, <1>2, <1>4 DEF LInv, JtisSpent, At
<1>6. KeysOutlive'
  <2> SUFFICES ASSUME ~RedisMayFail, NEW q \in Reqs, req'[q].op = "logout",
                      At(q, "done")', NEW a \in accessTokens',
                      a.jti = req'[q].jti
               PROVE  a.iat + AccessTTL <= blacklist'[a.jti]
    BY DEF KeysOutlive
  <2>1. q # r /\ req'[q] = req[q] /\ At(q, "done")
    BY <1>0, <1>1 DEF At
  <2>2. a.jti # r
    BY <1>0, <2>1 DEF LInv, JtisSpent
  <2> QED
    BY <1>2, <2>1, <2>2 DEF LInv, KeysOutlive
<1> QED
  BY <1>3, <1>5, <1>6 DEF LInv

LEMMA BlacklistStep ==
    ASSUME IInv, LInv, NEW r \in Reqs, BlacklistJti(r)
    PROVE  LInv'
<1>0. /\ req[r].jti \in Sids /\ blacklist \in [Sids -> Nat] /\ now \in Nat
      /\ req'[r] = [req[r] EXCEPT !.step = "done"]
      /\ req[r] \in Request /\ Continue(r)
      /\ UNCHANGED <<now, accessTokens>>
  BY DEF BlacklistJti, IInv, TypeOK, RequestsWellFormed, At, GoTo, Continue,
     tokens
<1>1. /\ req'[r].op = req[r].op /\ req'[r].jti = req[r].jti
      /\ req'[r].signed = req[r].signed /\ req'[r].step = "done"
  BY <1>0 DEF Request
<1>2. \A q \in Reqs \ {r} : req'[q] = req[q]
  BY <1>0, OneRequestMoves
<1>3. TokensDated'
  BY <1>0, <1>1, <1>2 DEF LInv, TokensDated
<1>4. \A q \in Reqs : At(q, "done") => At(q, "done")'
  BY <1>0, DoneStays
<1>5. JtisSpent'
  <2>1. \A q \in Reqs : /\ req'[q].op = req[q].op /\ req'[q].jti = req[q].jti
                       /\ req'[q].step \in {req[q].step, "done"}
    BY <1>1, <1>2
  <2> QED
    BY <1>0, <1>4, <2>1 DEF LInv, JtisSpent
<1>6. KeysOutlive'
  <2> SUFFICES ASSUME ~RedisMayFail, NEW q \in Reqs, req'[q].op = "logout",
                      At(q, "done")', NEW a \in accessTokens,
                      a.jti = req'[q].jti
               PROVE  a.iat + AccessTTL <= blacklist'[a.jti]
    BY <1>0 DEF KeysOutlive
  <2>1. blacklist' = [blacklist EXCEPT ![req[r].jti] = now + AccessTTL]
    BY DEF BlacklistJti
  <2>2. a.iat <= now /\ a.iat \in Nat /\ a.jti \in Sids
    BY DEF LInv, TokensDated, IInv, TypeOK, AccessToken
  <2>3. CASE a.jti = req[r].jti
    BY <1>0, <2>1, <2>2, <2>3, SessionsAssumption
  <2>4. CASE a.jti # req[r].jti
    <3>1. q # r /\ req'[q] = req[q] /\ At(q, "done")
      BY <1>1, <1>2, <2>4 DEF At
    <3>2. blacklist'[a.jti] = blacklist[a.jti]
      BY <1>0, <2>1, <2>2, <2>4
    <3> QED
      BY <3>1, <3>2 DEF LInv, KeysOutlive
  <2> QED
    BY <2>3, <2>4
<1> QED
  BY <1>3, <1>5, <1>6 DEF LInv

LEMMA LogoutStep ==
    ASSUME IInv, LInv, [Next]_vars
    PROVE  LInv'
<1>1. CASE Tick \/ UNCHANGED vars
  <2>1. /\ now' >= now /\ now \in Nat /\ now' \in Nat
        /\ UNCHANGED <<req, accessTokens, blacklist>>
    BY <1>1 DEF Tick, vars, tokens, IInv, TypeOK
  <2>2. TokensDated'
    BY <2>1 DEF LInv, TokensDated, IInv, TypeOK, AccessToken, Request
  <2> QED
    BY <2>1, <2>2 DEF LInv, JtisSpent, KeysOutlive, At
<1>2. ASSUME NEW r \in Reqs, Arrive(r) \/ Continue(r) \/ Abort(r)
      PROVE  LInv'
  <2>0. /\ req[r] \in Request /\ req \in [Reqs -> Request] /\ now \in Nat
        /\ req[r].signed <= now
    BY DEF IInv, TypeOK, LInv, TokensDated
  <2>1. CASE Arrive(r)
    BY <2>0, <2>1, ArriveCarries, LogoutQuietStep
  <2>2. CASE LoginInsert(r)
    <3>1. req[r].op # "logout"
      BY <2>2 DEF LoginInsert, At, LInv, JtisSpent
    <3>2. Continue(r) /\ req[r].signed \in Nat
      BY <2>0, <2>2 DEF Continue, Request
    <3>3. /\ Deliver(r, r, req[r].signed) /\ GoTo(r, "done")
          /\ UNCHANGED <<now, blacklist>>
      BY <2>2 DEF LoginInsert
    <3> QED
      BY <2>0, <3>1, <3>2, <3>3, LogoutDeliverStep
  <2>3. CASE RefreshRotate(r)
    <3>1. req[r].op # "logout" /\ req[r].signed \in Nat
      BY <2>0, <2>3 DEF RefreshRotate, At, LInv, JtisSpent, Request
    <3> QED
      BY <2>0, <2>3, <3>1, LogoutDeliverStep DEF RefreshRotate, Continue
  <2>4. CASE BlacklistJti(r)
    BY <2>4, BlacklistStep
  <2>5. CASE Abort(r)
    <3>1. /\ req'[r].op = req[r].op /\ req'[r].jti = req[r].jti
          /\ req'[r].signed <= now
      BY <2>0, <2>5, ContinueKeeps
    <3>2. req'[r].step = "failed"
      BY <2>0, <2>5 DEF Abort, GoTo, Request
    <3>3. UNCHANGED <<now, accessTokens, blacklist>>
      BY <2>5 DEF Abort, tokens
    <3> QED
      BY <2>5, <3>1, <3>2, <3>3, LogoutQuietStep
  <2>6. CASE RevokeSession(r)
    <3>1. /\ req'[r].op = req[r].op /\ req'[r].jti = req[r].jti
          /\ req'[r].signed <= now
      BY <2>0, <2>6, ContinueKeeps DEF Continue
    <3>2. req[r].op = "logout" => req'[r].step = "blacklist"
      BY <2>0, <2>6, SessionsAssumption
      DEF RevokeSession, GoTo, Request, LInv, JtisSpent
    <3>3. UNCHANGED <<now, accessTokens, blacklist>>
      BY <2>6 DEF RevokeSession, tokens
    <3> QED
      BY <2>6, <3>1, <3>2, <3>3, LogoutQuietStep DEF Continue
  <2>7. CASE \/ RefreshReuse(r) \/ RefreshUser(r) \/ KillFind(r)
             \/ UpdatePassword(r) \/ SoftDelete(r) \/ Undelete(r) \/ Rehire(r)
             \/ EvictSessions(r) \/ UpsertDevice(r) \/ LoginRefused(r)
             \/ FindDevice(r) \/ EndSessions(r) \/ DeleteDevice(r)
    <3>3. req'[r].op = req[r].op /\ req'[r].signed <= now
      BY <2>0, <2>7, ContinueKeeps DEF Continue
    <3> USE DEF RefreshReuse, RefreshUser, KillFind, UpdatePassword,
                SoftDelete, Undelete, Rehire, EvictSessions, UpsertDevice,
                LoginRefused, FindDevice, EndSessions, DeleteDevice
    <3>1. req[r].op # "logout"
      BY <2>7 DEF At, LInv, JtisSpent
    <3>2. UNCHANGED <<now, accessTokens, blacklist>>
      BY <2>7 DEF tokens
    <3> QED
      BY <1>2, <3>1, <3>2, <3>3, LogoutQuietStep
  <2> QED
    BY <1>2, <2>1, <2>2, <2>3, <2>4, <2>5, <2>6, <2>7 DEF Continue
<1> QED
  BY <1>1, <1>2 DEF Next

(* The key that a completed logout leaves in Redis lives at least as long  *)
(* as the token it refuses: the token was signed no later than the logout, *)
(* and no other token gets its jti.                                        *)
THEOREM LogoutsHold == Spec => []LoggedOutTokenStaysRefused
<1>1. Init => LInv
  <2> SUFFICES ASSUME Init PROVE LInv
    OBVIOUS
  <2>1. \A r \in Reqs : req[r] = Idle
    BY DEF Init
  <2>2. \A a \in accessTokens : a.jti \in OldSids /\ a.iat = 0 /\ now = 0
    BY DEF Init
  <2> QED
    BY <2>1, <2>2, SessionsAssumption
    DEF Init, LInv, TokensDated, JtisSpent, KeysOutlive, Idle
<1>2. IInv /\ LInv /\ [Next]_vars => LInv'
  BY LogoutStep
<1>3. IInv /\ LInv => LoggedOutTokenStaysRefused
  <2> SUFFICES ASSUME IInv, LInv, ~RedisMayFail, NEW r \in Reqs,
                      req[r].op = "logout", At(r, "done"),
                      NEW a \in accessTokens, a.jti = req[r].jti, Accepted(a)
               PROVE  FALSE
    BY DEF LoggedOutTokenStaysRefused
  <2>1. a.iat + AccessTTL <= blacklist[a.jti]
    BY DEF LInv, KeysOutlive
  <2>2. now < a.iat + AccessTTL /\ blacklist[a.jti] <= now
    BY DEF Accepted, Blacklisted, IInv, TypeOK, AccessToken
  <2>3. /\ now \in Nat /\ a.iat \in Nat /\ AccessTTL \in Nat
        /\ blacklist[a.jti] \in Nat
    BY SessionsAssumption DEF IInv, TypeOK, AccessToken
  <2> QED
    BY <2>1, <2>2, <2>3
<1> QED
  BY <1>1, <1>2, <1>3, Invariance, PTL DEF Spec

=============================================================================
