------------------------------ MODULE Sessions ------------------------------
(***************************************************************************)
(* Login sessions of the HRMS back end: issue, rotation and revocation of  *)
(* refresh and access tokens (auth.tokens.js, auth.service.js), the access *)
(* token check of the HTTP layer (auth.middleware.js), the account         *)
(* operations that end sessions (user.service.js), and the devices that    *)
(* sessions are opened on; whether a device is trusted, which nothing      *)
(* reads, is left out.                                                     *)
(*                                                                         *)
(* Every endpoint is a request that runs one database or Redis call at a   *)
(* time: between two awaits of a handler any other request may run.  A     *)
(* request r carries its control state and the values it read earlier.     *)
(*                                                                         *)
(* Passwords are version numbers, secrets are what they are bound to: a    *)
(* refresh token is determined by its session and the second it was signed *)
(* in (its JWT payload is { sub, sid } plus iat in whole seconds), so two  *)
(* tokens signed for one session in the same second are the same string.   *)
(* randomUUID() is modelled by the identity of the request that draws it:  *)
(* request r opens session r, on device r if its device has no row yet,    *)
(* and the access token it signs has jti r.                                *)
(***************************************************************************)
EXTENDS Integers, FiniteSets

CONSTANTS
    Users,          \* user ids
    Reqs,           \* requests; each one is used once
    OldSids,        \* sessions that exist at the start
    Owner,          \* the user of each of them
    ClientOf,       \* the fingerprint of the client that opens a session
    NoSid,          \* "no session": the undefined exceptSessionId
    Nobody,         \* the user of a row that does not exist
    AccessTTL,      \* lifetime of an access token, in clock ticks
    RefreshTTL,     \* lifetime of a session and of a refresh token
    MaxTime,        \* bound on the clock
    Ops,            \* the endpoints called in this instance
    RedisMayFail,   \* a Redis command may be answered with an error
    MayAbort        \* a request may die between two of its steps

Sids == Reqs \cup OldSids

ASSUME SessionsAssumption ==
    /\ Reqs \cap OldSids = {}
    /\ NoSid \notin Sids
    /\ Nobody \notin Users
    /\ Owner \in [OldSids -> Users]
    /\ \A s, t \in OldSids :
           Owner[s] = Owner[t] /\ ClientOf[s] = ClientOf[t] => s = t
    /\ AccessTTL \in Nat \ {0}
    /\ RefreshTTL \in Nat \ {0}
    /\ MaxTime \in Nat
    /\ RedisMayFail \in BOOLEAN
    /\ MayAbort \in BOOLEAN

VARIABLES
    now,            \* wall clock, in seconds
    user,           \* rows of "users": password version, soft-delete mark
    session,        \* rows of "sessions"
    device,         \* rows of "devices": the user of each, Nobody if none
    openedOn,       \* the deviceId of each session
    req,            \* the requests in flight and those that ended
    refreshTokens,  \* refresh tokens handed to clients
    accessTokens,   \* access tokens handed to clients
    blacklist,      \* Redis bl:access:<jti> -> the second the key expires
    (* History: what each session's holder has proved, for the properties. *)
    vouched,        \* last password version the session's holder presented
    astray,         \* sessions a password write did not reach: see Rehire
    spent,          \* refresh tokens a completed refresh has been paid with
    slipped         \* sessions opened while their device was being removed

devices == <<device, openedOn, slipped>>

vars == <<now, user, session, req, refreshTokens, accessTokens, blacklist,
          vouched, astray, spent, devices>>

-----------------------------------------------------------------------------
(* Values.                                                                 *)

Operations == {"login", "refresh", "logout", "logoutAll", "kill", "change",
               "reset", "invite", "remove", "restore", "rehire",
              "removeDevice"}

Steps == {"idle", "device", "insert", "user", "rotate", "reuse", "find", "revoke",
          "blacklist", "update", "evict", "softDelete", "undelete",
          "rehire", "findDevice", "endSessions", "deleteDevice",
          "done", "rejected", "failed"}

Ended == {"done", "rejected", "failed"}

Row == [state: {"none", "live", "revoked"}, user: Users \cup {Nobody},
        iat: Nat, expires: Nat]

RefreshToken == [sid: Sids, iat: Nat]
AccessToken  == [jti: Sids, sid: Sids, iat: Nat]

Request == [op: Operations \cup {"none"}, step: Steps,
            user: Users \cup {Nobody}, sid: Sids \cup {NoSid},
            jti: Sids \cup {NoSid}, iat: Nat, signed: Nat, pw: Nat,
            dev: Sids \cup {NoSid}]

TypeOK ==
    /\ now \in Nat
    /\ user \in [Users -> [pw: Nat, deleted: BOOLEAN]]
    /\ session \in [Sids -> Row]
    /\ req \in [Reqs -> Request]
    /\ refreshTokens \subseteq RefreshToken
    /\ accessTokens \subseteq AccessToken
    /\ blacklist \in [Sids -> Nat]
    /\ vouched \in [Sids -> Nat]
    /\ astray \subseteq Sids
    /\ spent \subseteq RefreshToken
    /\ device \in [Sids -> Users \cup {Nobody}]
    /\ openedOn \in [Sids -> Sids \cup {NoSid}]
    /\ slipped \subseteq Sids

Idle == [op |-> "none", step |-> "idle", user |-> Nobody, sid |-> NoSid,
         jti |-> NoSid, iat |-> 0, signed |-> 0, pw |-> 0, dev |-> NoSid]

Init ==
    /\ now = 0
    /\ user = [u \in Users |-> [pw |-> 0, deleted |-> FALSE]]
    /\ session = [s \in Sids |->
           IF s \in OldSids
           THEN [state |-> "live", user |-> Owner[s], iat |-> 0,
                 expires |-> RefreshTTL]
           ELSE [state |-> "none", user |-> Nobody, iat |-> 0, expires |-> 0]]
    /\ req = [r \in Reqs |-> Idle]
    /\ refreshTokens = {[sid |-> s, iat |-> 0] : s \in OldSids}
    /\ accessTokens = {[jti |-> s, sid |-> s, iat |-> 0] : s \in OldSids}
    /\ blacklist = [j \in Sids |-> 0]
    /\ vouched = [s \in Sids |-> 0]
    /\ astray = {}
    /\ spent = {}
    /\ device = [d \in Sids |-> IF d \in OldSids THEN Owner[d] ELSE Nobody]
    /\ openedOn = [s \in Sids |-> IF s \in OldSids THEN s ELSE NoSid]
    /\ slipped = {}

-----------------------------------------------------------------------------
(* What the handlers share.                                                *)

Live(s)    == session[s].state = "live"
Revoked(s) == session[s].state = "revoked"

Blacklisted(jti) == now < blacklist[jti]

(* auth.middleware: the JWT has not expired and its jti is not listed; a   *)
(* Redis error skips the second check.                                     *)
Accepted(a) ==
    /\ now < a.iat + AccessTTL
    /\ Blacklisted(a.jti) => RedisMayFail

(* updateMany where userId = u and revokedAt is null, less one session.    *)
RevokeAll(u, except) ==
    session' = [s \in Sids |->
        IF Live(s) /\ session[s].user = u /\ s # except
        THEN [session[s] EXCEPT !.state = "revoked"]
        ELSE session[s]]

RevokeOne(s) ==
    session' = [session EXCEPT ![s].state = IF Live(s) THEN "revoked" ELSE @]

(* The response of a login or a refresh: a new token pair.                 *)
Deliver(r, s, iat) ==
    /\ refreshTokens' = refreshTokens \cup {[sid |-> s, iat |-> iat]}
    /\ accessTokens' = accessTokens \cup {[jti |-> r, sid |-> s, iat |-> iat]}

At(r, step)   == req[r].step = step
GoTo(r, step) == req' = [req EXCEPT ![r].step = step]

(* Request r enters operation op at its first database step.               *)
Start(r, op, step, u, s, jti) ==
    /\ op \in Ops
    /\ At(r, "idle")
    /\ req' = [req EXCEPT ![r] = [Idle EXCEPT !.op = op, !.step = step,
                  !.user = u, !.sid = s, !.jti = jti]]
    /\ UNCHANGED <<now, user, session, refreshTokens, accessTokens, blacklist,
                   vouched, astray, spent, devices>>

(* The same behind the middleware: the caller is the token's subject.      *)
StartAuthenticated(r, op, step, a, s, jti) ==
    /\ Accepted(a)
    /\ Start(r, op, step, session[a.sid].user, s, jti)

tokens  == <<refreshTokens, accessTokens>>
history == <<vouched, astray, spent>>

-----------------------------------------------------------------------------
(* Login: the row is read and the password verified, then, some awaits     *)
(* later, the session row is inserted.  The gates between the two (lockout,*)
(* status, portal, MFA) are the subject of module LoginGate.               *)

LoginVerify(r) ==
    \E u \in Users :
        /\ "login" \in Ops
        /\ At(r, "idle")
        /\ ~user[u].deleted
        /\ req' = [req EXCEPT ![r] = [Idle EXCEPT !.op = "login",
                      !.step = "device", !.user = u, !.sid = r,
                      !.pw = user[u].pw]]
        /\ UNCHANGED <<now, user, session, tokens, blacklist, history, devices>>

(* The device of this client, a new row if the user has none with its      *)
(* fingerprint.  The tokens are signed, and the session's expiry is        *)
(* computed, when its row has come back.                                   *)
UpsertDevice(r) ==
    LET u == req[r].user
        known == {d \in Sids : device[d] = u /\ ClientOf[d] = ClientOf[r]}
    IN
    /\ At(r, "device")
    /\ \E d \in (IF known = {} THEN {r} ELSE known) :
           /\ device' = [device EXCEPT ![d] = u]
           /\ req' = [req EXCEPT ![r].step = "insert", ![r].dev = d,
                                 ![r].signed = now]
    /\ UNCHANGED <<now, user, session, tokens, blacklist, history, openedOn,
                   slipped>>

Removing(q, d) == At(q, "deleteDevice") /\ req[q].dev = d

LoginInsert(r) ==
    LET u == req[r].user
        d == req[r].dev
    IN
    /\ At(r, "insert") /\ device[d] # Nobody
    /\ openedOn' = [openedOn EXCEPT ![r] = d]
    /\ slipped' = IF \E q \in Reqs : Removing(q, d) THEN slipped \cup {r}
                  ELSE slipped
    /\ session' = [session EXCEPT ![r] = [state |-> "live", user |-> u,
                       iat |-> req[r].signed,
                       expires |-> req[r].signed + RefreshTTL]]
    /\ Deliver(r, r, req[r].signed)
    /\ GoTo(r, "done")
    /\ vouched' = [vouched EXCEPT ![r] = req[r].pw]
    /\ astray' = IF req[r].pw = user[u].pw /\ ~user[u].deleted THEN astray
                 ELSE astray \cup {r}
    /\ UNCHANGED <<now, user, blacklist, spent, device>>

(* The device has been removed in the meantime: the foreign key refuses    *)
(* the session.                                                            *)
LoginRefused(r) ==
    /\ At(r, "insert") /\ device[req[r].dev] = Nobody
    /\ GoTo(r, "rejected")
    /\ UNCHANGED <<now, user, session, tokens, blacklist, history, devices>>

-----------------------------------------------------------------------------
(* Refresh: read the session by the token's sid; compare hashes; read the  *)
(* user; sign; overwrite the hash by id.                                   *)

RefreshVerdict(t) ==
    LET s == session[t.sid] IN
    IF now >= t.iat + RefreshTTL \/ s.state # "live" \/ s.expires < now
    THEN "rejected"
    ELSE IF s.iat # t.iat THEN "reuse" ELSE "user"

RefreshRead(r) ==
    \E t \in refreshTokens :
        /\ "refresh" \in Ops
        /\ At(r, "idle")
        /\ req' = [req EXCEPT ![r] = [Idle EXCEPT !.op = "refresh",
                      !.step = RefreshVerdict(t), !.sid = t.sid,
                      !.user = session[t.sid].user, !.iat = t.iat]]
        /\ UNCHANGED <<now, user, session, tokens, blacklist, history, devices>>

(* Mutation: only the session of the reused token is ended.                *)
RefreshReuseOne(r) ==
    /\ At(r, "reuse")
    /\ RevokeOne(req[r].sid)
    /\ GoTo(r, "rejected")
    /\ UNCHANGED <<now, user, tokens, blacklist, history, devices>>

RefreshReuse(r) ==
    /\ At(r, "reuse")
    /\ RevokeAll(req[r].user, NoSid)
    /\ GoTo(r, "rejected")
    /\ UNCHANGED <<now, user, tokens, blacklist, history, devices>>

(* Mutation: the user row is found although it is soft-deleted.            *)
RefreshUserDeleted(r) ==
    /\ At(r, "user")
    /\ req' = [req EXCEPT ![r].step = "rotate", ![r].signed = now]
    /\ UNCHANGED <<now, user, session, tokens, blacklist, history, devices>>

(* Mutation: no answer when the session was revoked in the meantime.       *)
RefreshUserSilent(r) ==
    /\ At(r, "user") /\ Live(req[r].sid)
    /\ req' = [req EXCEPT ![r].step = "rotate", ![r].signed = now]
    /\ UNCHANGED <<now, user, session, tokens, blacklist, history, devices>>

(* The token is signed when the user row has been read: its iat is now.    *)
RefreshUser(r) ==
    /\ At(r, "user")
    /\ IF user[req[r].user].deleted
       THEN GoTo(r, "rejected")
       ELSE req' = [req EXCEPT ![r].step = "rotate", ![r].signed = now]
    /\ UNCHANGED <<now, user, session, tokens, blacklist, history, devices>>

(* Mutation: the rotation rewrites the whole row, revokedAt included.      *)
RefreshRotateWhole(r) ==
    LET s == req[r].sid IN
    /\ At(r, "rotate")
    /\ session' = [session EXCEPT ![s].iat = req[r].signed,
                                  ![s].state = "live"]
    /\ Deliver(r, s, req[r].signed)
    /\ GoTo(r, "done")
    /\ spent' = spent \cup {[sid |-> s, iat |-> req[r].iat]}
    /\ UNCHANGED <<now, user, blacklist, vouched, astray, devices>>

RefreshRotate(r) ==
    LET s == req[r].sid IN
    /\ At(r, "rotate")
    /\ session' = [session EXCEPT ![s].iat = req[r].signed]
    /\ Deliver(r, s, req[r].signed)
    /\ GoTo(r, "done")
    /\ spent' = spent \cup {[sid |-> s, iat |-> req[r].iat]}
    /\ UNCHANGED <<now, user, blacklist, vouched, astray, devices>>

-----------------------------------------------------------------------------
(* Logout: revoke the caller's session, then list the jti of the access    *)
(* token it came with; an error reply from Redis is swallowed.             *)

Logout(r) ==
    \E a \in accessTokens :
        StartAuthenticated(r, "logout", "revoke", a, a.sid, a.jti)

(* revokeSessionById: look the session up among the caller's own, revoke   *)
(* it, list no jti.                                                        *)
Kill(r) ==
    \E a \in accessTokens, s \in Sids :
        StartAuthenticated(r, "kill", "find", a, s, NoSid)

KillFind(r) ==
    /\ At(r, "find")
    /\ GoTo(r, IF session[req[r].sid].user = req[r].user THEN "revoke"
               ELSE "rejected")
    /\ UNCHANGED <<now, user, session, tokens, blacklist, history, devices>>

(* Mutation: the jti is not handed to the revocation.                      *)
RevokeSessionOnly(r) ==
    /\ At(r, "revoke")
    /\ RevokeOne(req[r].sid)
    /\ GoTo(r, "done")
    /\ UNCHANGED <<now, user, tokens, blacklist, history, devices>>

RevokeSession(r) ==
    /\ At(r, "revoke")
    /\ RevokeOne(req[r].sid)
    /\ GoTo(r, IF req[r].jti = NoSid THEN "done" ELSE "blacklist")
    /\ UNCHANGED <<now, user, tokens, blacklist, history, devices>>

BlacklistJti(r) ==
    /\ At(r, "blacklist")
    /\ \/ blacklist' = [blacklist EXCEPT ![req[r].jti] = now + AccessTTL]
       \/ RedisMayFail /\ UNCHANGED blacklist
    /\ GoTo(r, "done")
    /\ UNCHANGED <<now, user, session, tokens, history, devices>>

-----------------------------------------------------------------------------
(* Operations that end several sessions of a user with one updateMany.     *)

LogoutAll(r) ==
    \E a \in accessTokens :
        StartAuthenticated(r, "logoutAll", "evict", a, a.sid, NoSid)

(* changePassword: the current password is verified against the row read   *)
(* first; the new one is written later, and the other sessions are ended   *)
(* by a third call.                                                        *)
ChangePassword(r) ==
    \E a \in accessTokens :
        StartAuthenticated(r, "change", "update", a, a.sid, NoSid)

(* resetPassword, once its token has been found unused and unexpired (the  *)
(* token itself is the subject of module Accounts).                        *)
ResetPassword(r) ==
    \E u \in Users : Start(r, "reset", "update", u, NoSid, NoSid)

(* resendInvite, called by an administrator, on a user not deleted.        *)
ResendInvite(r) ==
    \E u \in Users :
        /\ ~user[u].deleted
        /\ Start(r, "invite", "update", u, NoSid, NoSid)

(* Mutation: the handler returns after the write.                          *)
UpdatePasswordOnly(r) ==
    LET u == req[r].user IN
    /\ At(r, "update")
    /\ user' = [user EXCEPT ![u].pw = @ + 1]
    /\ req' = [req EXCEPT ![r].step = "done", ![r].pw = user[u].pw + 1]
    /\ UNCHANGED <<now, session, tokens, blacklist, history, devices>>

UpdatePassword(r) ==
    LET u == req[r].user IN
    /\ At(r, "update")
    /\ user' = [user EXCEPT ![u].pw = @ + 1]
    /\ req' = [req EXCEPT ![r].step = "evict", ![r].pw = user[u].pw + 1]
    /\ UNCHANGED <<now, session, tokens, blacklist, history, devices>>

(* Soft delete by an administrator, and its undoing.                       *)
RemoveUser(r) ==
    \E u \in Users :
        /\ ~user[u].deleted
        /\ Start(r, "remove", "softDelete", u, NoSid, NoSid)

SoftDelete(r) ==
    /\ At(r, "softDelete")
    /\ user' = [user EXCEPT ![req[r].user].deleted = TRUE]
    /\ GoTo(r, "evict")
    /\ UNCHANGED <<now, session, tokens, blacklist, history, devices>>

RestoreUser(r) ==
    \E u \in Users :
        /\ user[u].deleted
        /\ Start(r, "restore", "undelete", u, NoSid, NoSid)

Undelete(r) ==
    /\ At(r, "undelete")
    /\ user' = [user EXCEPT ![req[r].user].deleted = FALSE]
    /\ GoTo(r, "done")
    /\ UNCHANGED <<now, session, tokens, blacklist, history, devices>>

(* Re-hire: POST /users with the email of a removed account revives it     *)
(* with a new password.  The row found is written by id, whatever became   *)
(* of it, and no session is ended: the removal is relied on for that.      *)
RehireUser(r) ==
    \E u \in Users :
        /\ user[u].deleted
        /\ Start(r, "rehire", "rehire", u, NoSid, NoSid)

(* What a removal cannot be relied on for: it is between its two           *)
(* statements or died there, or it has been undone.                        *)
RemovalUndone(u) ==
    \/ ~user[u].deleted
    \/ \E q \in Reqs : /\ req[q].op = "remove" /\ req[q].user = u
                      /\ req[q].step \in {"evict", "failed"}

Rehire(r) ==
    LET u == req[r].user IN
    /\ At(r, "rehire")
    /\ user' = [user EXCEPT ![u] = [pw |-> @.pw + 1, deleted |-> FALSE]]
    /\ GoTo(r, "done")
    /\ astray' = IF RemovalUndone(u)
                 THEN astray \cup
                      {s \in Sids : Live(s) /\ session[s].user = u}
                 ELSE astray
    /\ UNCHANGED <<now, session, tokens, blacklist, vouched, spent, devices>>

(* The updateMany that ends all of them; a password change spares the      *)
(* session it came from, whose holder has just proved the new password.    *)
EvictSessions(r) ==
    LET kept == req[r].sid IN
    /\ At(r, "evict")
    /\ RevokeAll(req[r].user, kept)
    /\ GoTo(r, "done")
    /\ vouched' = IF kept = NoSid \/ vouched[kept] >= req[r].pw THEN vouched
                  ELSE [vouched EXCEPT ![kept] = req[r].pw]
    /\ UNCHANGED <<now, user, tokens, blacklist, astray, spent, devices>>

-----------------------------------------------------------------------------
(* removeDevice: look the device up among the caller's own, end the        *)
(* sessions opened on it, delete it; the sessions left lose their deviceId *)
(* (onDelete: SetNull).                                                    *)

RemoveDevice(r) ==
    \E a \in accessTokens, d \in Sids :
        /\ "removeDevice" \in Ops
        /\ At(r, "idle") /\ Accepted(a)
        /\ req' = [req EXCEPT ![r] = [Idle EXCEPT !.op = "removeDevice",
                      !.step = "findDevice", !.user = session[a.sid].user,
                      !.dev = d]]
        /\ UNCHANGED <<now, user, session, tokens, blacklist, history, devices>>

(* Mutation: the sessions opened on the device are not ended.              *)
FindDeviceOnly(r) ==
    /\ At(r, "findDevice")
    /\ GoTo(r, IF device[req[r].dev] = req[r].user THEN "deleteDevice"
               ELSE "rejected")
    /\ UNCHANGED <<now, user, session, tokens, blacklist, history, devices>>

FindDevice(r) ==
    /\ At(r, "findDevice")
    /\ GoTo(r, IF device[req[r].dev] = req[r].user THEN "endSessions"
               ELSE "rejected")
    /\ UNCHANGED <<now, user, session, tokens, blacklist, history, devices>>

EndSessions(r) ==
    /\ At(r, "endSessions")
    /\ session' = [s \in Sids |->
           IF Live(s) /\ openedOn[s] = req[r].dev
           THEN [session[s] EXCEPT !.state = "revoked"]
           ELSE session[s]]
    /\ GoTo(r, "deleteDevice")
    /\ UNCHANGED <<now, user, tokens, blacklist, history, devices>>

(* The row may be gone: another removal of it has come first.              *)
DeleteDevice(r) ==
    LET d == req[r].dev IN
    /\ At(r, "deleteDevice")
    /\ IF device[d] = Nobody
       THEN GoTo(r, "rejected") /\ UNCHANGED <<device, openedOn>>
       ELSE /\ GoTo(r, "done")
            /\ device' = [device EXCEPT ![d] = Nobody]
            /\ openedOn' = [s \in Sids |-> IF openedOn[s] = d THEN NoSid
                                           ELSE openedOn[s]]
    /\ UNCHANGED <<now, user, session, tokens, blacklist, history, slipped>>

-----------------------------------------------------------------------------
(* The environment: time passes; a crash or a database error ends a        *)
(* request between two of its steps.                                       *)

Tick ==
    /\ now < MaxTime
    /\ now' = now + 1
    /\ UNCHANGED <<user, session, req, tokens, blacklist, history, devices>>

Abort(r) ==
    /\ MayAbort
    /\ req[r].step \notin Ended \cup {"idle"}
    /\ GoTo(r, "failed")
    /\ UNCHANGED <<now, user, session, tokens, blacklist, history, devices>>

Arrive(r) ==
    \/ LoginVerify(r)   \/ RefreshRead(r)   \/ Logout(r)       \/ Kill(r)
    \/ LogoutAll(r)     \/ ChangePassword(r) \/ ResetPassword(r)
    \/ ResendInvite(r)  \/ RemoveUser(r)    \/ RestoreUser(r)
    \/ RemoveDevice(r)  \/ RehireUser(r)

Continue(r) ==
    \/ LoginInsert(r)    \/ RefreshReuse(r)   \/ RefreshUser(r)
    \/ RefreshRotate(r)  \/ KillFind(r)       \/ RevokeSession(r)
    \/ BlacklistJti(r)   \/ UpdatePassword(r) \/ SoftDelete(r)
    \/ Undelete(r)       \/ EvictSessions(r)  \/ UpsertDevice(r)
    \/ LoginRefused(r)   \/ FindDevice(r)     \/ EndSessions(r)
    \/ DeleteDevice(r)  \/ Rehire(r)

Next == Tick \/ \E r \in Reqs : Arrive(r) \/ Continue(r) \/ Abort(r)

Spec == Init /\ [][Next]_vars

(* The event loop runs every continuation whose promise has settled, so a  *)
(* request that has started goes on; callers owe nothing.                  *)
FairSpec == Spec /\ \A r \in Reqs : WF_vars(Continue(r))
-----------------------------------------------------------------------------
(* What must hold.                                                         *)

TokensOf(s) == {a \in accessTokens : a.sid = s}

(* A refresh that has read session s as live and not answered yet.         *)
Holds(r, s) == req[r].sid = s /\ req[r].step \in {"user", "rotate"}

Quiet(s) == Revoked(s) /\ \A r \in Reqs : ~Holds(r, s)

(* Once a revoked session has no refresh in flight that read it before the *)
(* revocation, it never yields another access token, whatever requests     *)
(* come later.                                                             *)
RevokedSessionGoesQuiet ==
    [][\A s \in Sids : Quiet(s) => Quiet(s)' /\ TokensOf(s)' = TokensOf(s)]_vars

Phase(s) ==
    IF ~Revoked(s) THEN session[s].state
    ELSE IF Quiet(s) THEN "dead" ELSE "draining"

Lifecycle == INSTANCE SessionLifecycle WITH
    phase  <- [s \in Sids |-> Phase(s)],
    minted <- [s \in Sids |-> TokensOf(s)]

(* The sessions of the back end implement the life cycle above: a rotation *)
(* that overtakes a revocation never revives the session (rotateSession    *)
(* writes by id, without looking at revokedAt again), and no step yields   *)
(* tokens for a dead session or for two sessions.                          *)
ImplementsLifecycle == Lifecycle!Spec

(* A request that is past the check of the user row, and may still answer  *)
(* with tokens of user u.                                                  *)
Committed(r, u) ==
    req[r].user = u /\ req[r].step \in {"device", "insert", "rotate"}

DeletedAndIdle(u) ==
    user[u].deleted /\ \A r \in Reqs : ~Committed(r, u)

(* A soft-deleted user obtains no token, from a login or from a session    *)
(* that survived the deletion, once the requests that had read the row     *)
(* before have ended; only a restore or a re-hire changes this.            *)
DeletedUserGetsNoToken ==
    [][\A u \in Users : DeletedAndIdle(u) =>
         /\ \A s \in Sids : session[s].user = u => TokensOf(s)' = TokensOf(s)
         /\ user'[u].deleted => DeletedAndIdle(u)']_vars

PasswordWrites == {"change", "reset", "invite"}

(* After a new password is written, no session opened under an older one   *)
(* stays live ("Invalidate every other session"), while the writer is not  *)
(* between its two statements and did not die there.  A re-hire writes a   *)
(* password and ends nothing; it leaves no such session either, provided   *)
(* the removal before it ran to its end and was not undone by a restore.   *)
(* Excepted are the sessions in astray: those a re-hire finds live         *)
(* otherwise, and those of a login that had read the row before, inserted  *)
(* after the password was replaced or the account removed.                 *)
PasswordChangeEvictsOldSessions ==
    \A s \in Sids :
        LET u == session[s].user IN
        Live(s) /\ s \notin astray /\ vouched[s] < user[u].pw =>
            \E r \in Reqs :
                /\ req[r].op \in PasswordWrites /\ req[r].user = u
                /\ req[r].step \in {"evict", "failed"}
                /\ req[r].pw = user[u].pw

(* "Revoke sessions on that device, then delete it" (auth.service.js:341): *)
(* a live session stands on a device of its user's list, where it can be   *)
(* signed out, and no live session is left on a device that is about to be *)
(* deleted; but for the session of a login that had found the device and   *)
(* was inserted between the two statements.                                *)
RemovedDeviceIsSignedOut ==
    \A s \in Sids : Live(s) /\ s \notin slipped =>
        /\ openedOn[s] \in Sids /\ device[openedOn[s]] = session[s].user
        /\ \A r \in Reqs : ~Removing(r, openedOn[s])

(* The token a completed logout came with is refused for as long as its    *)
(* JWT is valid: the Redis key does not expire before the token does.      *)
LoggedOutTokenStaysRefused ==
    ~RedisMayFail =>
        \A r \in Reqs : req[r].op = "logout" /\ At(r, "done") =>
            \A a \in accessTokens : a.jti = req[r].jti => ~Accepted(a)

(* A request that detected the reuse of a refresh token brings about a     *)
(* moment in which the user has no live session, unless it dies first.     *)
ReuseEndsAllSessions ==
    \A r \in Reqs :
        At(r, "reuse") ~>
            \/ At(r, "failed")
            \/ \A s \in Sids : session[s].user = req[r].user => ~Live(s)

(* Every revoked session comes to the state in which it yields nothing.    *)
RevocationTakesEffect ==
    \A s \in Sids : Revoked(s) ~> Quiet(s)

-----------------------------------------------------------------------------
(* What the repository says and the code does not do.                      *)

(* auth.tokens.js: "a stolen refresh token is invalidated the moment the   *)
(* legitimate client refreshes": no spent token is the current one.        *)
SpentTokenIsInvalid ==
    \A t \in spent : session[t.sid].iat # t.iat

=============================================================================
