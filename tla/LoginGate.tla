----------------------------- MODULE LoginGate -----------------------------
(***************************************************************************)
(* The gates between an email with a password and a session: resolution of *)
(* the account among the companies that share the email, the lockout after *)
(* repeated failures, the account's status, the two portals, and the way   *)
(* in by a challenge when MFA is on (AuthService.login and verifyMfa,      *)
(* auth.service.js).                                                       *)
(*                                                                         *)
(* The candidate rows are read once; argon2 then takes its time, and every *)
(* decision and every write of the counters uses the row as it was read.   *)
(* verifyMfa reads the row again, but looks at none of the gates: it wants *)
(* an open challenge.  How MFA is switched on and off is in module Mfa,    *)
(* the suspension of a tenant in TenantSuspension, the session that is     *)
(* opened in Sessions.                                                     *)
(***************************************************************************)
EXTENDS Integers, FiniteSets

CONSTANTS
    Accounts,           \* users; several may share an email
    Emails,
    Email,              \* the email of each account
    PlatformAdmins,     \* SUPER_ADMIN, or permission * or platform:manage
    MfaAccounts,        \* accounts with mfaEnabled
    Reqs,               \* requests; each one is used once
    Nil,
    MaxFailed,          \* MAX_FAILED_LOGINS
    LockTicks,          \* LOCK_MINUTES, in clock ticks
    MaxTime             \* bound on the clock

ASSUME LoginAssumption ==
    /\ Email \in [Accounts -> Emails]
    /\ PlatformAdmins \subseteq Accounts
    /\ MfaAccounts \subseteq Accounts
    /\ Nil \notin Accounts
    /\ MaxFailed \in Nat \ {0}
    /\ LockTicks \in Nat \ {0}
    /\ MaxTime \in Nat

VARIABLES
    now,
    user,       \* failedLoginCount, lockedUntil (0 is null), status
    challenge,  \* what the login of a request made of its MFA challenge
    req,
    opened,     \* requests that opened a session
    (* History.                                                            *)
    streak,     \* failures registered for the account since the last reset
    raced       \* accounts whose counters were written from an old row

vars == <<now, user, challenge, req, opened, streak, raced>>

-----------------------------------------------------------------------------
Portals  == {"hrms", "platform"}
Statuses == {"ACTIVE", "DISABLED"}  \* PENDING passes, SUSPENDED is barred

Counters == [count: Nat, lock: Nat, status: Statuses]

Steps == {"idle", "gate", "fail", "clear", "open", "use", "done", "rejected",
          "choose"}

(* No usedAt and not expired; or one of the two.                           *)
Challenges == {"none", "open", "spent"}

(* A request is a login, or a verification of the challenge of login `of`. *)
Request == [step: Steps, who: Accounts \cup {Nil}, row: Counters,
            portal: Portals, of: Reqs \cup {Nil}]

TypeOK ==
    /\ now \in Nat
    /\ user \in [Accounts -> Counters]
    /\ challenge \in [Reqs -> Challenges]
    /\ req \in [Reqs -> Request]
    /\ opened \subseteq Reqs
    /\ streak \in [Accounts -> Nat]
    /\ raced \subseteq Accounts

Fresh == [count |-> 0, lock |-> 0, status |-> "ACTIVE"]

Idle == [step |-> "idle", who |-> Nil, row |-> Fresh, portal |-> "hrms",
         of |-> Nil]

Init ==
    /\ now = 0
    /\ user = [a \in Accounts |-> Fresh]
    /\ challenge = [r \in Reqs |-> "none"]
    /\ req = [r \in Reqs |-> Idle]
    /\ opened = {}
    /\ streak = [a \in Accounts |-> 0]
    /\ raced = {}

-----------------------------------------------------------------------------
At(r, step)   == req[r].step = step
GoTo(r, step) == req' = [req EXCEPT ![r].step = step]

Locked(a) == user[a].lock > now

(* The account the password verified against, when it is the only one or   *)
(* the caller named its company; none when the caller has to choose.       *)
Resolved(matches, picked) ==
    IF Cardinality(matches) = 1 THEN matches ELSE matches \cap picked

(* A login reads the accounts with its email; the password is that of some *)
(* of them, perhaps none.  A failure counts only if the email maps to a    *)
(* single account.                                                         *)
Login(r) ==
    \E e \in Emails, portal \in Portals :
    LET candidates == {a \in Accounts : Email[a] = e} IN
    \E matches \in SUBSET candidates, picked \in SUBSET candidates :
        /\ Cardinality(picked) <= 1
        /\ At(r, "idle")
        /\ \/ /\ matches = {}
              /\ \E a \in candidates :
                     req' = [req EXCEPT ![r] =
                         [step |-> IF candidates = {a} THEN "fail"
                                   ELSE "rejected",
                          who |-> a, row |-> user[a], portal |-> portal,
                          of |-> Nil]]
           \/ \E a \in Resolved(matches, picked) :
                  req' = [req EXCEPT ![r] =
                      [step |-> "gate", who |-> a, row |-> user[a],
                       portal |-> portal, of |-> Nil]]
           \/ /\ matches # {} /\ Resolved(matches, picked) = {}
              /\ GoTo(r, "choose")
        /\ UNCHANGED <<now, user, challenge, opened, streak, raced>>

Stale(r) == LET a == req[r].who IN
    req[r].row.count # user[a].count \/ req[r].row.lock # user[a].lock

Touch(r) == raced' = IF Stale(r) THEN raced \cup {req[r].who} ELSE raced

(* Mutation: the account is locked one failure late.                       *)
LimitReachedLate(row) == row.count + 1 > MaxFailed

LimitReached(row) == row.count + 1 >= MaxFailed

(* registerFailedLogin: one more failure than in the row that was read;    *)
(* lockedUntil and status are written, or not, as the data names them.     *)
RegisterFailure(r) ==
    LET a == req[r].who IN
    /\ At(r, "fail")
    /\ user' = IF LimitReached(req[r].row)
               THEN [user EXCEPT ![a].count = 0, ![a].lock = now + LockTicks]
               ELSE [user EXCEPT ![a].count = req[r].row.count + 1]
    /\ streak' = [streak EXCEPT ![a] = @ + 1]
    /\ Touch(r)
    /\ GoTo(r, "rejected")
    /\ UNCHANGED <<now, challenge, opened>>

BadPortal(r) == (req[r].portal = "hrms") = (req[r].who \in PlatformAdmins)

(* Mutation: lockedUntil is not compared with the clock.                   *)
GateNoLock(r) ==
    LET row == req[r].row IN
    /\ At(r, "gate")
    /\ GoTo(r, IF row.status = "DISABLED" \/ BadPortal(r) THEN "rejected"
               ELSE IF row.count > 0 \/ row.lock # 0 THEN "clear" ELSE "open")
    /\ UNCHANGED <<now, user, challenge, opened, streak, raced>>

(* Mutation: the status of the account is not looked at.                   *)
GateNoStatus(r) ==
    LET row == req[r].row IN
    /\ At(r, "gate")
    /\ GoTo(r, IF row.lock > now \/ BadPortal(r) THEN "rejected"
               ELSE IF row.count > 0 \/ row.lock # 0 THEN "clear" ELSE "open")
    /\ UNCHANGED <<now, user, challenge, opened, streak, raced>>

(* The gates, on the row that was read and the clock as it is now.         *)
Gate(r) ==
    LET row == req[r].row IN
    /\ At(r, "gate")
    /\ GoTo(r, IF row.lock > now \/ row.status = "DISABLED" \/ BadPortal(r)
               THEN "rejected"
               ELSE IF row.count > 0 \/ row.lock # 0 THEN "clear" ELSE "open")
    /\ UNCHANGED <<now, user, challenge, opened, streak, raced>>

(* Mutation: a success forgives one failure.                               *)
ClearOne(r) ==
    LET a == req[r].who IN
    /\ At(r, "clear")
    /\ user' = [user EXCEPT ![a].count = @ - 1, ![a].lock = 0]
    /\ streak' = [streak EXCEPT ![a] = 0]
    /\ Touch(r)
    /\ GoTo(r, "open")
    /\ UNCHANGED <<now, challenge, opened>>

(* Reset of the counters on success.                                       *)
ClearCounters(r) ==
    LET a == req[r].who IN
    /\ At(r, "clear")
    /\ user' = [user EXCEPT ![a].count = 0, ![a].lock = 0]
    /\ streak' = [streak EXCEPT ![a] = 0]
    /\ Touch(r)
    /\ GoTo(r, "open")
    /\ UNCHANGED <<now, challenge, opened>>

(* Without MFA the login opens a session.                                  *)
Open(r) ==
    /\ At(r, "open") /\ req[r].who \notin MfaAccounts
    /\ opened' = opened \cup {r}
    /\ GoTo(r, "done")
    /\ UNCHANGED <<now, user, challenge, streak, raced>>

(* With MFA it ends with a challenge in the caller's hand.                 *)
Challenge(r) ==
    /\ At(r, "open") /\ req[r].who \in MfaAccounts
    /\ challenge' = [challenge EXCEPT ![r] = "open"]
    /\ GoTo(r, "done")
    /\ UNCHANGED <<now, user, opened, streak, raced>>

(* Request r brings the challenge of login l back with the right code.     *)
(* Neither lock nor status is looked at.                                   *)
VerifyMfa(r) ==
    \E l \in Reqs :
        /\ At(r, "idle")
        /\ challenge[l] = "open"
        /\ req' = [req EXCEPT ![r] =
               [Idle EXCEPT !.step = "use", !.who = req[l].who, !.of = l]]
        /\ UNCHANGED <<now, user, challenge, opened, streak, raced>>

(* The challenge is used up, by its id, and a session opened.              *)
UseChallenge(r) ==
    /\ At(r, "use")
    /\ challenge' = [challenge EXCEPT ![req[r].of] = "spent"]
    /\ opened' = opened \cup {r}
    /\ GoTo(r, "done")
    /\ UNCHANGED <<now, user, streak, raced>>

(* The time of a challenge is over.                                        *)
Expire ==
    \E r \in Reqs :
        /\ challenge[r] = "open"
        /\ challenge' = [challenge EXCEPT ![r] = "spent"]
        /\ UNCHANGED <<now, user, req, opened, streak, raced>>

(* An administrator updates the status (UserService.update): one UPDATE by *)
(* id that leaves the counters alone.                                      *)
SetStatus ==
    \E a \in Accounts, s \in Statuses :
        /\ user' = [user EXCEPT ![a].status = s]
        /\ UNCHANGED <<now, challenge, req, opened, streak, raced>>

Tick ==
    /\ now < MaxTime
    /\ now' = now + 1
    /\ UNCHANGED <<user, challenge, req, opened, streak, raced>>

Next ==
    \/ Tick
    \/ SetStatus
    \/ Expire
    \/ \E r \in Reqs :
           \/ Login(r) \/ RegisterFailure(r) \/ Gate(r) \/ ClearCounters(r)
           \/ Open(r) \/ Challenge(r) \/ VerifyMfa(r) \/ UseChallenge(r)

Spec == Init /\ [][Next]_vars
-----------------------------------------------------------------------------
(* What must hold.                                                         *)

(* As long as every write of an account's counters comes from the row as   *)
(* it still is, the counter is the number of failures since the last reset *)
(* or lock, and the account carries a lock exactly if it has reached the   *)
(* limit.                                                                  *)
FailuresAreCounted ==
    \A a \in Accounts \ raced :
        /\ user[a].count = streak[a] % MaxFailed
        /\ user[a].lock # 0 <=> streak[a] >= MaxFailed

(* Request r has a way into account a that no gate stands before any more: *)
(* it is past the gates or holds a challenge.                              *)
WayIn(r, a) ==
    /\ req[r].who = a
    /\ req[r].step \in {"clear", "open", "use"} \/ challenge[r] = "open"

(* Request r will not go through on what it read of account a, as long as  *)
(* the lock it read lasts.                                                 *)
HeldBack(r, a) ==
    /\ ~WayIn(r, a)
    /\ req[r].who = a /\ At(r, "gate") => req[r].row.lock = user[a].lock

Sealed(a) == Locked(a) /\ \A r \in Reqs : HeldBack(r, a)

OpenedFor(a) == {r \in opened : req[r].who = a}

(* A lock keeps everyone out, right password or not, until it runs out or  *)
(* another failure prolongs it.  The exceptions are the logins that had    *)
(* read the row before the lock was written, and the challenges handed out *)
(* before it: verifyMfa compares no lock, so as long as one of these is    *)
(* open, or being verified, it is a way in.                                *)
LockSealsAccount ==
    [][\A a \in Accounts : Sealed(a) =>
         /\ OpenedFor(a)' = OpenedFor(a)
         /\ \/ Sealed(a)'
            \/ user[a].lock <= now'
            \/ user'[a].lock # user[a].lock /\ Locked(a)']_vars

(* A disabled account is entered by nobody once the logins that had read   *)
(* the row before are over and the challenges handed out before are used   *)
(* or have expired: verifyMfa reads the row again, but not its status.  No *)
(* new way in comes into being while the account stays disabled.           *)
Disabled(a) ==
    /\ user[a].status = "DISABLED"
    /\ \A r \in Reqs :
           /\ ~WayIn(r, a)
           /\ req[r].who = a /\ At(r, "gate") =>
                  req[r].row.status = "DISABLED"

DisabledAccountStaysOut ==
    [][\A a \in Accounts : Disabled(a) =>
         /\ OpenedFor(a)' = OpenedFor(a)
         /\ user'[a].status = "DISABLED" => Disabled(a)']_vars

=============================================================================
