-------------------------------- MODULE Mfa --------------------------------
(***************************************************************************)
(* Two-factor authentication: setting it up, enabling and disabling it,    *)
(* and the challenge between password and session (auth.service.js).       *)
(*                                                                         *)
(* A TOTP secret is the identity of the setup request that generated it; a *)
(* code is the secret it was computed from.  A challenge is the identity   *)
(* of the login that issued it.  config.security.enableMfa is on.          *)
(***************************************************************************)
EXTENDS FiniteSets

CONSTANTS
    Accounts,
    Reqs,       \* requests; each one is used once
    Nil,
    MayAbort    \* a request may die between two of its steps

ASSUME MfaAssumption == Nil \notin Accounts \cup Reqs /\ MayAbort \in BOOLEAN

VARIABLES
    user,       \* mfaEnabled, mfaSecret
    challenge,  \* rows of "otp_codes" with purpose MFA_LOGIN
    req,
    scanned,    \* secrets handed to their users, who can compute codes
    sessions,   \* sessions opened: [by, from]; from is Nil without MFA
    (* History.                                                            *)
    proved,     \* secrets a right code has been presented for
    raced       \* accounts written from a row that had changed since

vars == <<user, challenge, req, scanned, sessions, proved, raced>>

-----------------------------------------------------------------------------
Settings == [enabled: BOOLEAN, secret: Reqs \cup {Nil}]

Steps == {"idle", "store", "activate", "drop", "challenge", "look", "use",
          "open", "done", "rejected", "failed"}

Request == [step: Steps, who: Accounts \cup {Nil}, row: Settings,
            token: Reqs \cup {Nil}, code: Reqs \cup {Nil}]

TypeOK ==
    /\ user \in [Accounts -> Settings]
    /\ challenge \in [Reqs ->
           [state: {"none"}, who: {Nil}]
             \cup [state: {"open", "used", "expired"}, who: Accounts]]
    /\ req \in [Reqs -> Request]
    /\ scanned \subseteq Reqs
    /\ sessions \subseteq [by: Reqs, from: Reqs \cup {Nil}]
    /\ proved \subseteq Reqs
    /\ raced \subseteq Accounts

Off == [enabled |-> FALSE, secret |-> Nil]

Init ==
    /\ user = [a \in Accounts |-> Off]
    /\ challenge = [l \in Reqs |-> [state |-> "none", who |-> Nil]]
    /\ req = [r \in Reqs |-> [step |-> "idle", who |-> Nil, row |-> Off,
                              token |-> Nil, code |-> Nil]]
    /\ scanned = {}
    /\ sessions = {}
    /\ proved = {}
    /\ raced = {}

-----------------------------------------------------------------------------
At(r, step)   == req[r].step = step
GoTo(r, step) == req' = [req EXCEPT ![r].step = step]

(* Request r reads the row of account a and goes on to step.               *)
Read(r, a, step, token, code) ==
    /\ At(r, "idle")
    /\ req' = [req EXCEPT ![r] = [step |-> step, who |-> a, row |-> user[a],
                                  token |-> token, code |-> code]]

(* Request r writes the settings of its account by id.                     *)
Write(r, settings) ==
    /\ user' = [user EXCEPT ![req[r].who] = settings]
    /\ raced' = IF user[req[r].who] = req[r].row THEN raced
                ELSE raced \cup {req[r].who}
    /\ GoTo(r, "done")

(* setupMfa: refused once MFA is enabled; the new secret is stored as      *)
(* pending and handed to the user.                                         *)
SetupMfa(r) ==
    \E a \in Accounts :
        /\ Read(r, a, IF user[a].enabled THEN "rejected" ELSE "store", Nil, Nil)
        /\ UNCHANGED <<user, challenge, scanned, sessions, proved, raced>>

StoreSecret(r) ==
    /\ At(r, "store")
    /\ Write(r, [user[req[r].who] EXCEPT !.secret = r])
    /\ scanned' = scanned \cup {r}
    /\ UNCHANGED <<challenge, sessions, proved>>

(* Mutation: the code is not compared with the stored secret.              *)
EnableMfaAny(r) ==
    \E a \in Accounts, code \in scanned :
        /\ Read(r, a, IF user[a].secret # Nil THEN "activate" ELSE "rejected",
                Nil, code)
        /\ proved' = IF user[a].secret = code THEN proved \cup {code} ELSE proved
        /\ UNCHANGED <<user, challenge, scanned, sessions, raced>>

(* enableMfa: the code must fit the secret in the row that was read; the   *)
(* update sets mfaEnabled only.                                            *)
EnableMfa(r) ==
    \E a \in Accounts, code \in scanned :
        /\ Read(r, a, IF user[a].secret = code THEN "activate" ELSE "rejected",
                Nil, code)
        /\ proved' = IF user[a].secret = code THEN proved \cup {code} ELSE proved
        /\ UNCHANGED <<user, challenge, scanned, sessions, raced>>

Activate(r) ==
    /\ At(r, "activate")
    /\ Write(r, [user[req[r].who] EXCEPT !.enabled = TRUE])
    /\ UNCHANGED <<challenge, scanned, sessions, proved>>

(* disableMfa, with the right password.                                    *)
DisableMfa(r) ==
    \E a \in Accounts :
        /\ Read(r, a, "drop", Nil, Nil)
        /\ UNCHANGED <<user, challenge, scanned, sessions, proved, raced>>

DropSecret(r) ==
    /\ At(r, "drop")
    /\ Write(r, Off)
    /\ UNCHANGED <<challenge, scanned, sessions, proved>>

-----------------------------------------------------------------------------
(* Mutation: MFA is not asked for.                                         *)
LoginUnasked(r) ==
    \E a \in Accounts :
        /\ Read(r, a, "open", Nil, Nil)
        /\ UNCHANGED <<user, challenge, scanned, sessions, proved, raced>>

(* login, with the right password and past the gates of module LoginGate.  *)
Login(r) ==
    \E a \in Accounts :
        /\ Read(r, a, IF user[a].enabled THEN "challenge" ELSE "open", Nil, Nil)
        /\ UNCHANGED <<user, challenge, scanned, sessions, proved, raced>>

(* Mutation: the challenge is stored without its user.                     *)
IssueChallengeBare(r) ==
    /\ At(r, "challenge")
    /\ challenge' = [challenge EXCEPT ![r] = [state |-> "open", who |-> Nil]]
    /\ GoTo(r, "done")
    /\ UNCHANGED <<user, scanned, sessions, proved, raced>>

IssueChallenge(r) ==
    /\ At(r, "challenge")
    /\ challenge' = [challenge EXCEPT ![r] = [state |-> "open",
                                              who |-> req[r].who]]
    /\ GoTo(r, "done")
    /\ UNCHANGED <<user, scanned, sessions, proved, raced>>

(* verifyMfa: user, then challenge, then code, then usedAt, then session.  *)
VerifyMfa(r) ==
    \E a \in Accounts, l \in Reqs, code \in scanned :
        /\ challenge[l].state # "none"
        /\ Read(r, a, IF user[a].enabled THEN "look" ELSE "rejected", l, code)
        /\ UNCHANGED <<user, challenge, scanned, sessions, proved, raced>>

(* Mutation: a challenge that has been used is found too.                  *)
FindChallengeUsed(r) ==
    LET c == challenge[req[r].token] IN
    /\ At(r, "look")
    /\ GoTo(r, IF c.state \in {"open", "used"} /\ c.who = req[r].who
                  /\ req[r].row.secret = req[r].code
               THEN "use" ELSE "rejected")
    /\ UNCHANGED <<user, challenge, scanned, sessions, proved, raced>>

FindChallenge(r) ==
    LET c == challenge[req[r].token] IN
    /\ At(r, "look")
    /\ GoTo(r, IF c.state = "open" /\ c.who = req[r].who
                  /\ req[r].row.secret = req[r].code
               THEN "use" ELSE "rejected")
    /\ UNCHANGED <<user, challenge, scanned, sessions, proved, raced>>

UseChallenge(r) ==
    /\ At(r, "use")
    /\ challenge' = [challenge EXCEPT ![req[r].token].state = "used"]
    /\ GoTo(r, "open")
    /\ UNCHANGED <<user, scanned, sessions, proved, raced>>

(* finalizeLogin.                                                          *)
OpenSession(r) ==
    /\ At(r, "open")
    /\ sessions' = sessions \cup {[by |-> r, from |-> req[r].token]}
    /\ GoTo(r, "done")
    /\ UNCHANGED <<user, challenge, scanned, proved, raced>>

(* A challenge outlives OTP_EXPIRES_MIN.                                   *)
Expire(l) ==
    /\ challenge[l].state = "open"
    /\ challenge' = [challenge EXCEPT ![l].state = "expired"]
    /\ UNCHANGED <<user, req, scanned, sessions, proved, raced>>

(* A request dies between two of its steps.                                *)
Abort(r) ==
    /\ MayAbort
    /\ req[r].step \notin {"idle", "done", "rejected", "failed"}
    /\ GoTo(r, "failed")
    /\ UNCHANGED <<user, challenge, scanned, sessions, proved, raced>>

Next == \E r \in Reqs :
    \/ SetupMfa(r)   \/ StoreSecret(r)    \/ EnableMfa(r)  \/ Activate(r)
    \/ DisableMfa(r) \/ DropSecret(r)     \/ Login(r)      \/ IssueChallenge(r)
    \/ VerifyMfa(r)  \/ FindChallenge(r)  \/ UseChallenge(r)
    \/ OpenSession(r) \/ Expire(r)        \/ Abort(r)

Spec == Init /\ [][Next]_vars
-----------------------------------------------------------------------------
(* What must hold.                                                         *)

(* The secret MFA is enabled with is one its user has shown a code for, on *)
(* accounts whose settings are changed by one request at a time.           *)
EnabledSecretWasProved ==
    \A a \in Accounts \ raced : user[a].enabled => user[a].secret \in proved

(* Account a asks for a second factor, and no login that read it before is *)
(* about to open a session.                                                *)
Guarded(a) ==
    /\ user[a].enabled
    /\ \A r \in Reqs : req[r].who = a /\ req[r].token = Nil => ~At(r, "open")

PasswordOnly(a) == {s \in sessions : s.from = Nil /\ req[s.by].who = a}

(* As long as MFA is enabled nobody enters with the password alone.        *)
SecondFactorRequired ==
    [][\A a \in Accounts : Guarded(a) =>
         /\ PasswordOnly(a)' = PasswordOnly(a)
         /\ user'[a].enabled => Guarded(a)']_vars

(* A verification that has found challenge l open.                         *)
Holds(r, l) == req[r].token = l /\ req[r].step \in {"use", "open"}

Phase(l) ==
    IF challenge[l].state \in {"none", "open"} THEN challenge[l].state
    ELSE IF \E r \in Reqs : Holds(r, l) THEN "draining" ELSE "dead"

Token == INSTANCE OneTimeToken WITH
    Tokens  <- Reqs,
    phase   <- [l \in Reqs |-> Phase(l)],
    effects <- [l \in Reqs |-> {s.by : s \in {t \in sessions : t.from = l}}]

(* A challenge that has been used or has expired opens no session, but for *)
(* the verifications that had found it open (findFirst and the update of   *)
(* usedAt are two calls).                                                  *)
ChallengeIsOneTime == Token!Spec

=============================================================================
