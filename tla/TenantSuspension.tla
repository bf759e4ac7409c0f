-------------------------- MODULE TenantSuspension --------------------------
(***************************************************************************)
(* Suspension of a company (tenant): the status in PostgreSQL, the Redis   *)
(* flag company:suspended:<id> that the access check of every request      *)
(* reads, and the sessions of the company's users (company.service.js).    *)
(* Login, MFA verification and refresh obtain tokens against the status    *)
(* (auth.service.js); the middleware accepts a token against the flag      *)
(* (auth.middleware.js).                                                   *)
(*                                                                         *)
(* Each endpoint is a request that runs one database or Redis call at a    *)
(* time.  Passwords, token hashes and lifetimes are the subject of module  *)
(* Sessions: here a token stays valid for ever, which is the worst case    *)
(* for a suspension.  Request l opens session l or MFA challenge l.        *)
(***************************************************************************)
EXTENDS FiniteSets

CONSTANTS
    Companies,
    Accounts,       \* users
    Home,           \* the company of each user
    Supers,         \* the users with role SUPER_ADMIN
    MfaAccounts,    \* the users with MFA enabled
    Reqs,           \* requests; each one is used once
    OldSids,        \* sessions that exist at the start
    Owner,          \* the user of each of them
    Nil,            \* a field a request has not filled
    Ops,            \* the endpoints called in this instance
    RedisMayFail,   \* a Redis command may be answered with an error
    MayAbort,       \* a request may die between two of its steps
    MemoryRedis     \* REDIS_DRIVER=memory: the flags live in the process

Sids == Reqs \cup OldSids

ASSUME SuspensionAssumption ==
    /\ Home \in [Accounts -> Companies]
    /\ Supers \subseteq Accounts
    /\ MfaAccounts \subseteq Accounts
    /\ Reqs \cap OldSids = {}
    /\ Owner \in [OldSids -> Accounts]
    /\ Nil \notin Companies \cup Accounts \cup Sids \cup {"ACTIVE", "SUSPENDED"}
    /\ {RedisMayFail, MayAbort, MemoryRedis} \subseteq BOOLEAN

VARIABLES
    company,        \* rows of "companies": status, soft-delete mark
    flag,           \* Redis: company:suspended:<id> is set
    session,        \* rows of "sessions"
    challenge,      \* rows of "otp_codes" with purpose MFA_LOGIN
    tokens,         \* access tokens handed to clients
    req,            \* the requests
    (* History.                                                            *)
    crossed,        \* companies that two writers have been at at once
    unflagged,      \* companies whose flag was lost or not written, since
    late            \* sessions inserted while their company is suspended

disturbed == <<crossed, unflagged>>

vars == <<company, flag, session, challenge, tokens, req, disturbed, late>>

-----------------------------------------------------------------------------
Status     == {"ACTIVE", "SUSPENDED"}
Operations == {"login", "verify", "refresh", "update", "archive", "resetAdmin"}
Steps      == {"idle", "challenge", "insert", "use", "user", "rotate", "update",
               "archive", "flag", "revoke", "done", "rejected", "failed"}
Ended      == {"done", "rejected", "failed"}

Session   == [state: {"none", "live", "revoked"}, account: Accounts \cup {Nil}]
Challenge == [state: {"none", "open", "used", "expired"},
              account: Accounts \cup {Nil}]
Request   == [op: Operations \cup {Nil}, step: Steps,
              company: Companies \cup {Nil}, account: Accounts \cup {Nil},
              sid: Sids \cup {Nil}, before: Status \cup {Nil},
              to: Status \cup {Nil}]

TypeOK ==
    /\ company \in [Companies -> [status: Status, deleted: BOOLEAN]]
    /\ flag \in [Companies -> BOOLEAN]
    /\ session \in [Sids -> Session]
    /\ challenge \in [Reqs -> Challenge]
    /\ tokens \subseteq [jti: Sids, sid: Sids, account: Accounts]
    /\ req \in [Reqs -> Request]
    /\ crossed \subseteq Companies
    /\ unflagged \subseteq Companies
    /\ late \subseteq Sids

Idle == [op |-> Nil, step |-> "idle", company |-> Nil, account |-> Nil,
         sid |-> Nil, before |-> Nil, to |-> Nil]

Init ==
    /\ company = [c \in Companies |-> [status |-> "ACTIVE", deleted |-> FALSE]]
    /\ flag = [c \in Companies |-> FALSE]
    /\ session = [s \in Sids |->
           IF s \in OldSids THEN [state |-> "live", account |-> Owner[s]]
           ELSE [state |-> "none", account |-> Nil]]
    /\ challenge = [l \in Reqs |-> [state |-> "none", account |-> Nil]]
    /\ tokens = {[jti |-> s, sid |-> s, account |-> Owner[s]] : s \in OldSids}
    /\ req = [r \in Reqs |-> Idle]
    /\ crossed = {}
    /\ unflagged = {}
    /\ late = {}

-----------------------------------------------------------------------------
At(r, step)   == req[r].step = step
GoTo(r, step) == req' = [req EXCEPT ![r].step = step]

Live(s)      == session[s].state = "live"
CompanyOf(s) == Home[session[s].account]
Suspended(c) == company[c].status = "SUSPENDED"

(* login and refresh, on the row of user a as it is now.                   *)
Barred(a) == Suspended(Home[a]) /\ a \notin Supers

(* auth.middleware: a Redis error skips the check; SUPER_ADMIN bypasses it.*)
Accepted(t) ==
    \/ RedisMayFail
    \/ ~flag[Home[t.account]]
    \/ t.account \in Supers

(* Mutation: the token is signed before the session id is drawn.           *)
DeliverNoSid(r, s, a) ==
    tokens' = tokens \cup {[jti |-> r, sid |-> Nil, account |-> a]}

Deliver(r, s, a) ==
    tokens' = tokens \cup {[jti |-> r, sid |-> s, account |-> a]}

logins == <<challenge, tokens, late>>

-----------------------------------------------------------------------------
(* Login: the candidates are read with their companies, the gates decide   *)
(* on that row, and the session or the challenge is inserted later.        *)

Login(r) ==
    \E a \in Accounts :
        /\ "login" \in Ops
        /\ At(r, "idle")
        /\ req' = [req EXCEPT ![r] = [Idle EXCEPT !.op = "login",
                      !.company = Home[a], !.account = a, !.sid = r,
                      !.before = company[Home[a]].status,
                      !.step = IF Barred(a) THEN "rejected"
                               ELSE IF a \in MfaAccounts THEN "challenge"
                               ELSE "insert"]]
        /\ UNCHANGED <<company, flag, session, logins, disturbed>>

IssueChallenge(r) ==
    /\ At(r, "challenge")
    /\ challenge' = [challenge EXCEPT ![r] =
                         [state |-> "open", account |-> req[r].account]]
    /\ req' = [req EXCEPT ![r] = [@ EXCEPT !.step = "done", !.sid = Nil]]
    /\ UNCHANGED <<company, flag, session, tokens, disturbed, late>>

(* verifyMfa looks the user and the challenge up; the company's status is  *)
(* in the row it reads, and it does not look at it.                        *)
VerifyMfa(r) ==
    \E l \in Reqs :
        LET a == challenge[l].account IN
        /\ "verify" \in Ops
        /\ At(r, "idle")
        /\ challenge[l].state = "open"
        /\ req' = [req EXCEPT ![r] = [Idle EXCEPT !.op = "verify",
                      !.step = "use", !.company = Home[a], !.account = a,
                      !.sid = l, !.before = company[Home[a]].status]]
        /\ UNCHANGED <<company, flag, session, logins, disturbed>>

UseChallenge(r) ==
    /\ At(r, "use")
    /\ challenge' = [challenge EXCEPT ![req[r].sid].state = "used"]
    /\ req' = [req EXCEPT ![r] = [@ EXCEPT !.step = "insert", !.sid = r]]
    /\ UNCHANGED <<company, flag, session, tokens, disturbed, late>>

InsertSession(r) ==
    /\ At(r, "insert")
    /\ session' = [session EXCEPT ![r] =
                       [state |-> "live", account |-> req[r].account]]
    /\ Deliver(r, r, req[r].account)
    /\ late' = IF Suspended(req[r].company) THEN late \cup {r} ELSE late
    /\ GoTo(r, "done")
    /\ UNCHANGED <<company, flag, challenge, disturbed>>

-----------------------------------------------------------------------------
(* Refresh: the session, then the user with the company, then the rotation.*)

Refresh(r) ==
    \E s \in Sids :
        /\ "refresh" \in Ops
        /\ At(r, "idle")
        /\ Live(s)
        /\ req' = [req EXCEPT ![r] = [Idle EXCEPT !.op = "refresh",
                      !.step = "user", !.company = CompanyOf(s),
                      !.account = session[s].account, !.sid = s]]
        /\ UNCHANGED <<company, flag, session, logins, disturbed>>

(* Mutation: the company's status is not looked at.                        *)
RefreshUserUnchecked(r) ==
    /\ At(r, "user")
    /\ req' = [req EXCEPT ![r] = [@ EXCEPT
                   !.before = company[req[r].company].status, !.step = "rotate"]]
    /\ UNCHANGED <<company, flag, session, logins, disturbed>>

RefreshUser(r) ==
    /\ At(r, "user")
    /\ req' = [req EXCEPT ![r] = [@ EXCEPT
                   !.before = company[req[r].company].status,
                   !.step = IF Barred(req[r].account) THEN "rejected"
                            ELSE "rotate"]]
    /\ UNCHANGED <<company, flag, session, logins, disturbed>>

Rotate(r) ==
    /\ At(r, "rotate")
    /\ Deliver(r, req[r].sid, req[r].account)
    /\ GoTo(r, "done")
    /\ UNCHANGED <<company, flag, session, challenge, disturbed, late>>

-----------------------------------------------------------------------------
(* The platform administrator's operations.                                *)

Writing(r, c) == req[r].company = c /\ req[r].step \in {"update", "archive", "flag"}

(* A request reads the row of company c, not archived, and will write it.  *)
StartWriter(r, op, c, to) ==
    /\ op \in Ops
    /\ At(r, "idle")
    /\ ~company[c].deleted
    /\ req' = [req EXCEPT ![r] = [Idle EXCEPT !.op = op, !.step = op,
                  !.company = c, !.before = company[c].status, !.to = to]]
    /\ crossed' = IF \E q \in Reqs : Writing(q, c) THEN crossed \cup {c}
                  ELSE crossed
    /\ UNCHANGED <<company, flag, session, logins, unflagged>>

(* PUT /companies/:id with a status; name and plan alone touch none of the *)
(* state modelled here.                                                    *)
PlatformUpdate(r) ==
    \E c \in Companies, to \in Status : StartWriter(r, "update", c, to)

(* Mutation: the side effects depend on the status in the row, not on the  *)
(* change.                                                                 *)
UpdateCompanyNoFlag(r) ==
    /\ At(r, "update")
    /\ company' = [company EXCEPT ![req[r].company].status = req[r].to]
    /\ GoTo(r, IF req[r].to = "ACTIVE" THEN "done" ELSE "flag")
    /\ UNCHANGED <<flag, session, logins, disturbed>>

UpdateCompany(r) ==
    /\ At(r, "update")
    /\ company' = [company EXCEPT ![req[r].company].status = req[r].to]
    /\ GoTo(r, IF req[r].to = req[r].before THEN "done" ELSE "flag")
    /\ UNCHANGED <<flag, session, logins, disturbed>>

Archive(r) == \E c \in Companies : StartWriter(r, "archive", c, "SUSPENDED")

ArchiveCompany(r) ==
    /\ At(r, "archive")
    /\ company' = [company EXCEPT ![req[r].company] =
                       [status |-> "SUSPENDED", deleted |-> TRUE]]
    /\ GoTo(r, "flag")
    /\ UNCHANGED <<flag, session, logins, disturbed>>

AfterFlag(r) == IF req[r].to = "SUSPENDED" THEN "revoke" ELSE "done"

(* Mutation: an error reply from Redis ends the request.                   *)
WriteFlagOrStop(r) ==
    LET c == req[r].company IN
    /\ At(r, "flag")
    /\ \/ /\ flag' = [flag EXCEPT ![c] = req[r].to = "SUSPENDED"]
          /\ GoTo(r, AfterFlag(r))
          /\ unflagged' = unflagged \ {c}
       \/ /\ RedisMayFail
          /\ GoTo(r, "done")
          /\ unflagged' = unflagged \cup {c}
          /\ UNCHANGED flag
    /\ UNCHANGED <<company, session, logins, crossed>>

(* setSuspendState: SET or DEL of the flag; an error reply is swallowed.   *)
WriteFlag(r) ==
    LET c == req[r].company IN
    /\ At(r, "flag")
    /\ \/ /\ flag' = [flag EXCEPT ![c] = req[r].to = "SUSPENDED"]
          /\ unflagged' = unflagged \ {c}
       \/ /\ RedisMayFail
          /\ unflagged' = unflagged \cup {c}
          /\ UNCHANGED flag
    /\ GoTo(r, AfterFlag(r))
    /\ UNCHANGED <<company, session, logins, crossed>>

(* resetAdmin, once the administrator's new password is written.           *)
ResetAdmin(r) ==
    \E c \in Companies :
        /\ "resetAdmin" \in Ops
        /\ At(r, "idle")
        /\ ~company[c].deleted
        /\ req' = [req EXCEPT ![r] = [Idle EXCEPT !.op = "resetAdmin",
                      !.step = "revoke", !.company = c]]
        /\ UNCHANGED <<company, flag, session, logins, disturbed>>

RevokeCompany(r) ==
    /\ At(r, "revoke")
    /\ session' = [s \in Sids |->
           IF Live(s) /\ CompanyOf(s) = req[r].company
           THEN [session[s] EXCEPT !.state = "revoked"] ELSE session[s]]
    /\ GoTo(r, "done")
    /\ UNCHANGED <<company, flag, logins, disturbed>>

-----------------------------------------------------------------------------
(* The environment.                                                        *)

(* A challenge outlives OTP_EXPIRES_MIN.                                   *)
Expire(l) ==
    /\ challenge[l].state = "open"
    /\ challenge' = [challenge EXCEPT ![l].state = "expired"]
    /\ UNCHANGED <<company, flag, session, tokens, req, disturbed, late>>

InFlight(r) == req[r].step \notin Ended \cup {"idle"}

Unflagged(r) == IF At(r, "flag") THEN {req[r].company} ELSE {}

(* A request dies between two of its steps: a database error, a timeout.   *)
Abort(r) ==
    /\ MayAbort
    /\ InFlight(r)
    /\ GoTo(r, "failed")
    /\ unflagged' = unflagged \cup Unflagged(r)
    /\ UNCHANGED <<company, flag, session, logins, crossed>>

(* The process restarts with the in-memory Redis: every flag is gone, and  *)
(* so is every request.  Nothing sets the flags again from the database.   *)
Restart ==
    /\ MemoryRedis
    /\ flag' = [c \in Companies |-> FALSE]
    /\ req' = [r \in Reqs |-> IF InFlight(r)
                              THEN [req[r] EXCEPT !.step = "failed"] ELSE req[r]]
    /\ unflagged' = unflagged \cup {c \in Companies : flag[c]}
                              \cup UNION {Unflagged(r) : r \in Reqs}
    /\ UNCHANGED <<company, session, logins, crossed>>

Arrive(r) ==
    \/ Login(r) \/ VerifyMfa(r) \/ Refresh(r)
    \/ PlatformUpdate(r) \/ Archive(r) \/ ResetAdmin(r)

Continue(r) ==
    \/ IssueChallenge(r) \/ UseChallenge(r) \/ InsertSession(r)
    \/ RefreshUser(r) \/ Rotate(r)
    \/ UpdateCompany(r) \/ ArchiveCompany(r) \/ WriteFlag(r) \/ RevokeCompany(r)

Next == Restart \/ \E r \in Reqs : Arrive(r) \/ Continue(r) \/ Abort(r) \/ Expire(r)

Spec == Init /\ [][Next]_vars

(* The event loop runs every continuation whose promise has settled.       *)
FairSpec == Spec /\ \A r \in Reqs : WF_vars(Continue(r))
-----------------------------------------------------------------------------
(* What must hold.                                                         *)

(* The flag the middleware reads follows the status that login and refresh *)
(* read, except while a writer of the company is between its two writes.   *)
(* Excepted are companies that two writers have been at at once (see       *)
(* SuspensionIsInstant), and those whose flag a restart lost, or the last  *)
(* writer could not write or died before writing.  So an active tenant is  *)
(* not locked out, and a suspended one's tokens are refused.               *)
FlagFollowsStatus ==
    \A c \in Companies \ (crossed \cup unflagged) :
        \/ flag[c] = Suspended(c)
        \/ \E r \in Reqs : req[r].company = c /\ At(r, "flag")

(* Suspending or archiving a company ends its users' sessions, whether or  *)
(* not Redis answers ("the DB is the source of truth"), unless the request *)
(* is still at it or died; what is left was inserted by a login that had   *)
(* passed the gates before, or whose user bypasses them.  Excepted are     *)
(* companies that two writers have been at at once: of two, one may write  *)
(* SUSPENDED over a reactivation it has not seen, and then takes its own   *)
(* write for no change.                                                    *)
SuspensionEvictsSessions ==
    \A s \in Sids \ late :
        LET c == CompanyOf(s) IN
        Live(s) /\ c \notin crossed /\ Suspended(c) =>
            \E r \in Reqs :
                /\ req[r].company = c /\ req[r].to = "SUSPENDED"
                /\ req[r].step \in {"flag", "revoke", "failed"}

(* A request that is past the check of the status, and an open challenge,  *)
(* may still lead to tokens for users of company c.                        *)
Committed(r, c) ==
    req[r].company = c /\ req[r].step \in {"challenge", "use", "insert", "rotate"}

ShutDown(c) ==
    /\ Suspended(c)
    /\ \A r \in Reqs : Committed(r, c) => req[r].account \in Supers
    /\ \A l \in Reqs : challenge[l].state = "open" =>
           Home[challenge[l].account] # c \/ challenge[l].account \in Supers

TenantTokens(c) == {t \in tokens : Home[t.account] = c /\ t.account \notin Supers}

(* "login/refresh still enforce via DB": whatever happens to Redis, a      *)
(* suspended company that has no login or refresh under way obtains no     *)
(* token until it is reactivated.                                          *)
SuspendedTenantGetsNoToken ==
    [][\A c \in Companies : ShutDown(c) =>
         /\ TenantTokens(c)' = TenantTokens(c)
         /\ Suspended(c)' => ShutDown(c)']_vars

(* A suspension that has been recorded comes to a moment at which none of  *)
(* the company's sessions is live, whether or not Redis answers, unless    *)
(* its request dies.                                                       *)
SuspensionTakesHold ==
    \A r \in Reqs :
        At(r, "flag") /\ req[r].to = "SUSPENDED"
            ~> \/ At(r, "failed")
               \/ \A s \in Sids : Live(s) => CompanyOf(s) # req[r].company

-----------------------------------------------------------------------------
(* What the repository says and the code does not do.                      *)

(* auth.middleware.js: "Instant tenant-suspension enforcement for still-   *)
(* valid access tokens": when no writer is at work, the tokens of a        *)
(* suspended company's users are refused.                                  *)
SuspensionIsInstant ==
    \A c \in Companies :
        Suspended(c) /\ (\A r \in Reqs : ~Writing(r, c)) =>
            \A t \in TenantTokens(c) : ~Accepted(t)

=============================================================================
