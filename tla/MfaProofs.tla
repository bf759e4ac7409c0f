----------------------------- MODULE MfaProofs -----------------------------
(***************************************************************************)
(* Theorems about Mfa, for any numbers of accounts and requests: the types,*)
(* the proof of possession behind an enabled secret, the second factor,    *)
(* and the challenge as a one-time token.                                  *)
(***************************************************************************)
EXTENDS Mfa, TLAPS

(* What a request in flight carries: an account once it has begun, a       *)
(* challenge that exists while it looks for one, and only the login that   *)
(* is to issue challenge r, or has, stands behind it.                      *)
RequestsWellFormed ==
    \A r \in Reqs :
        /\ ~At(r, "idle") => req[r].who \in Accounts
        /\ req[r].step \in {"idle", "challenge"} => challenge[r].state = "none"
        /\ req[r].step \in {"look", "use"} =>
               req[r].token \in Reqs /\ challenge[req[r].token].state # "none"
        /\ At(r, "open") /\ req[r].token # Nil =>
               challenge[req[r].token].state = "used"

(* Who has opened a session has ended.                                     *)
SessionsEnded == \A s \in sessions : At(s.by, "done")

(* A request about to enable MFA has seen a right code for the secret in   *)
(* the row it read; one about to store a secret read that MFA is off.      *)
RowsRead ==
    \A r \in Reqs :
        /\ At(r, "activate") => req[r].row.secret \in proved
        /\ At(r, "store") => ~req[r].row.enabled

IInv == TypeOK /\ RequestsWellFormed /\ SessionsEnded /\ RowsRead
              /\ EnabledSecretWasProved

LEMMA InitIInv == Init => IInv
  BY DEF Init, IInv, TypeOK, Settings, Steps, Request, Off, At,
     RequestsWellFormed, SessionsEnded, RowsRead, EnabledSecretWasProved

-----------------------------------------------------------------------------
(* The steps of one request.                                               *)

LEMMA GoToReq ==
    ASSUME TypeOK, NEW r \in Reqs, NEW p \in Steps, GoTo(r, p)
    PROVE  /\ req' \in [Reqs -> Request]
           /\ \A q \in Reqs \ {r} : req'[q] = req[q]
           /\ req'[r].step = p /\ req'[r].who = req[r].who
           /\ req'[r].row = req[r].row /\ req'[r].token = req[r].token
           /\ req'[r].code = req[r].code
<1>1. PICK x \in Request : x = req[r]
  BY DEF TypeOK
<1>2. /\ [x EXCEPT !.step = p] \in Request
      /\ [x EXCEPT !.step = p].step = p
      /\ [x EXCEPT !.step = p].who = x.who
      /\ [x EXCEPT !.step = p].row = x.row
      /\ [x EXCEPT !.step = p].token = x.token
      /\ [x EXCEPT !.step = p].code = x.code
  BY DEF Request
<1> QED
  BY <1>1, <1>2 DEF GoTo, TypeOK

LEMMA ReadReq ==
    ASSUME TypeOK, NEW r \in Reqs, NEW a \in Accounts, NEW p \in Steps,
           NEW token \in Reqs \cup {Nil}, NEW code \in Reqs \cup {Nil},
           Read(r, a, p, token, code)
    PROVE  /\ At(r, "idle") /\ req' \in [Reqs -> Request]
           /\ \A q \in Reqs \ {r} : req'[q] = req[q]
           /\ req'[r].step = p /\ req'[r].who = a
           /\ req'[r].row = user[a] /\ req'[r].token = token
           /\ req'[r].code = code
<1>1. user[a] \in Settings
  BY DEF TypeOK
<1>2. [step |-> p, who |-> a, row |-> user[a], token |-> token, code |-> code]
        \in Request
  BY <1>1 DEF Request
<1> QED
  BY <1>2 DEF Read, TypeOK

(* The first step of a request: it reads a row and writes nothing.         *)
LEMMA ReadIInv ==
    ASSUME IInv, NEW r \in Reqs, NEW a \in Accounts,
           NEW p \in Steps \ {"idle", "use"},
           NEW token \in Reqs \cup {Nil}, NEW code \in Reqs \cup {Nil},
           Read(r, a, p, token, code),
           p = "look" => token \in Reqs /\ challenge[token].state # "none",
           p = "open" => token = Nil,
           p = "activate" => user[a].secret \in proved',
           p = "store" => ~user[a].enabled,
           proved \subseteq proved', proved' \subseteq Reqs,
           UNCHANGED <<user, challenge, scanned, sessions, raced>>
    PROVE  IInv'
<1>1. /\ At(r, "idle") /\ req' \in [Reqs -> Request]
      /\ \A q \in Reqs \ {r} : req'[q] = req[q]
      /\ req'[r].step = p /\ req'[r].who = a
      /\ req'[r].row = user[a] /\ req'[r].token = token
  BY ReadReq DEF IInv
<1>2. TypeOK'
  BY <1>1 DEF IInv, TypeOK
<1>3. RequestsWellFormed'
  BY <1>1 DEF IInv, RequestsWellFormed, At
<1>4. SessionsEnded'
  <2>1. \A s \in sessions : s.by \in Reqs /\ s.by # r
    BY <1>1 DEF IInv, TypeOK, SessionsEnded, At
  <2> QED
    BY <1>1, <2>1 DEF IInv, SessionsEnded, At
<1>5. RowsRead' /\ EnabledSecretWasProved'
  BY <1>1 DEF IInv, RowsRead, EnabledSecretWasProved, At
<1> QED
  BY <1>2, <1>3, <1>4, <1>5 DEF IInv

(* A later step of a request, that writes no row of "users" and no code.   *)
LEMMA MoveIInv ==
    ASSUME IInv, NEW r \in Reqs, NEW p \in {"use", "open", "done", "rejected",
                                            "failed"},
           ~At(r, "idle"), ~At(r, "done"), GoTo(r, p), TypeOK',
           p = "use" => req[r].token \in Reqs
                        /\ challenge[req[r].token].state # "none",
           p = "open" => req[r].token \in Reqs
                         /\ challenge'[req[r].token].state = "used",
           \A l \in Reqs :
               /\ challenge[l].state # "none" => challenge'[l].state # "none"
               /\ challenge[l].state = "used" => challenge'[l].state = "used"
               /\ challenge[l].state = "none" /\ l # r =>
                      challenge'[l].state = "none",
           \A s \in sessions' : s \in sessions \/ (s.by = r /\ p = "done"),
           UNCHANGED <<user, scanned, proved, raced>>
    PROVE  IInv'
<1>1. /\ \A q \in Reqs \ {r} : req'[q] = req[q]
      /\ req'[r].step = p /\ req'[r].who = req[r].who
      /\ req'[r].token = req[r].token
  BY GoToReq DEF IInv, Steps
<1>2. RequestsWellFormed'
  <2>1. ASSUME NEW q \in Reqs \ {r}
        PROVE  /\ At(q, "open") /\ req[q].token # Nil =>
                      challenge'[req[q].token].state = "used"
               /\ req[q].step \in {"look", "use"} =>
                      challenge'[req[q].token].state # "none"
               /\ req[q].step \in {"idle", "challenge"} =>
                      challenge'[q].state = "none"
    <3>1. req[q].token \in Reqs \cup {Nil}
      BY DEF IInv, TypeOK, Request
    <3> QED
      BY <3>1 DEF IInv, RequestsWellFormed, At
  <2> QED
    BY <1>1, <2>1 DEF IInv, RequestsWellFormed, At
<1>3. SessionsEnded'
  <2>1. \A s \in sessions : s.by \in Reqs /\ s.by # r
    BY DEF IInv, TypeOK, SessionsEnded, At
  <2> QED
    BY <1>1, <2>1 DEF IInv, SessionsEnded, At
<1>4. RowsRead' /\ EnabledSecretWasProved'
  BY <1>1 DEF IInv, RowsRead, EnabledSecretWasProved, At
<1> QED
  BY <1>2, <1>3, <1>4 DEF IInv

(* The write of a row.  What it makes of the row it finds is safe when the *)
(* row is the one the request had read.                                    *)
LEMMA WriteIInv ==
    ASSUME IInv, NEW r \in Reqs, ~At(r, "idle"), ~At(r, "done"),
           NEW settings \in Settings, Write(r, settings),
           user[req[r].who] = req[r].row /\ settings.enabled =>
               settings.secret \in proved,
           scanned' \subseteq Reqs,
           UNCHANGED <<challenge, sessions, proved>>
    PROVE  IInv'
<1>0. req[r].who \in Accounts /\ user \in [Accounts -> Settings]
      /\ raced \subseteq Accounts
  BY DEF IInv, RequestsWellFormed, At, TypeOK
<1>1. /\ req' \in [Reqs -> Request]
      /\ \A q \in Reqs \ {r} : req'[q] = req[q]
      /\ req'[r].step = "done" /\ req'[r].who = req[r].who
  BY GoToReq DEF IInv, Steps, Write
<1>2. TypeOK'
  BY <1>0, <1>1 DEF IInv, TypeOK, Write
<1>3. RequestsWellFormed'
  BY <1>1 DEF IInv, RequestsWellFormed, At
<1>4. SessionsEnded'
  <2>1. \A s \in sessions : s.by \in Reqs /\ s.by # r
    BY DEF IInv, TypeOK, SessionsEnded, At
  <2> QED
    BY <1>1, <2>1 DEF IInv, SessionsEnded, At
<1>5. RowsRead'
  BY <1>1 DEF IInv, RowsRead, At
<1>6. EnabledSecretWasProved'
  BY <1>0 DEF IInv, EnabledSecretWasProved, Write
<1> QED
  BY <1>2, <1>3, <1>4, <1>5, <1>6 DEF IInv

-----------------------------------------------------------------------------
(* IInv is inductive: one step per handler.                                *)

LEMMA BeginIInv ==
    ASSUME IInv, NEW r \in Reqs,
           \/ SetupMfa(r) \/ EnableMfa(r) \/ DisableMfa(r) \/ Login(r)
           \/ VerifyMfa(r)
    PROVE  IInv'
<1>0. scanned \subseteq Reqs /\ proved \subseteq Reqs
  BY DEF IInv, TypeOK
<1>1. CASE SetupMfa(r)
  <2>1. PICK a \in Accounts :
          Read(r, a, IF user[a].enabled THEN "rejected" ELSE "store", Nil, Nil)
    BY <1>1 DEF SetupMfa
  <2>2. UNCHANGED <<user, challenge, scanned, sessions, proved, raced>>
    BY <1>1 DEF SetupMfa
  <2>3. CASE user[a].enabled
    BY <1>0, <2>1, <2>2, <2>3, ReadIInv DEF Steps
  <2>4. CASE ~user[a].enabled
    BY <1>0, <2>1, <2>2, <2>4, ReadIInv DEF Steps
  <2> QED
    BY <2>3, <2>4
<1>2. CASE EnableMfa(r)
  <2>1. PICK a \in Accounts, code \in scanned :
          /\ Read(r, a, IF user[a].secret = code THEN "activate"
                        ELSE "rejected", Nil, code)
          /\ proved' = IF user[a].secret = code THEN proved \cup {code}
                       ELSE proved
    BY <1>2 DEF EnableMfa
  <2>2. UNCHANGED <<user, challenge, scanned, sessions, raced>>
    BY <1>2 DEF EnableMfa
  <2>3. code \in Reqs
    BY <1>0
  <2>4. CASE user[a].secret = code
    BY <1>0, <2>1, <2>2, <2>3, <2>4, ReadIInv DEF Steps
  <2>5. CASE user[a].secret # code
    BY <1>0, <2>1, <2>2, <2>3, <2>5, ReadIInv DEF Steps
  <2> QED
    BY <2>4, <2>5
<1>3. CASE DisableMfa(r)
  <2>1. PICK a \in Accounts : Read(r, a, "drop", Nil, Nil)
    BY <1>3 DEF DisableMfa
  <2>2. UNCHANGED <<user, challenge, scanned, sessions, proved, raced>>
    BY <1>3 DEF DisableMfa
  <2> QED
    BY <1>0, <2>1, <2>2, ReadIInv DEF Steps
<1>4. CASE Login(r)
  <2>1. PICK a \in Accounts :
          Read(r, a, IF user[a].enabled THEN "challenge" ELSE "open", Nil, Nil)
    BY <1>4 DEF Login
  <2>2. UNCHANGED <<user, challenge, scanned, sessions, proved, raced>>
    BY <1>4 DEF Login
  <2>3. CASE user[a].enabled
    BY <1>0, <2>1, <2>2, <2>3, ReadIInv DEF Steps
  <2>4. CASE ~user[a].enabled
    BY <1>0, <2>1, <2>2, <2>4, ReadIInv DEF Steps
  <2> QED
    BY <2>3, <2>4
<1>5. CASE VerifyMfa(r)
  <2>1. PICK a \in Accounts, l \in Reqs, code \in scanned :
          /\ challenge[l].state # "none"
          /\ Read(r, a, IF user[a].enabled THEN "look" ELSE "rejected", l, code)
    BY <1>5 DEF VerifyMfa
  <2>2. UNCHANGED <<user, challenge, scanned, sessions, proved, raced>>
    BY <1>5 DEF VerifyMfa
  <2>3. code \in Reqs
    BY <1>0
  <2>4. CASE user[a].enabled
    BY <1>0, <2>1, <2>2, <2>3, <2>4, ReadIInv DEF Steps
  <2>5. CASE ~user[a].enabled
    BY <1>0, <2>1, <2>2, <2>3, <2>5, ReadIInv DEF Steps
  <2> QED
    BY <2>4, <2>5
<1> QED
  BY <1>1, <1>2, <1>3, <1>4, <1>5

LEMMA WritesIInv ==
    ASSUME IInv, NEW r \in Reqs,
           StoreSecret(r) \/ Activate(r) \/ DropSecret(r)
    PROVE  IInv'
<1> DEFINE row == user[req[r].who]
<1>0. /\ ~At(r, "idle") /\ ~At(r, "done") /\ row \in Settings
      /\ scanned \subseteq Reqs
  BY DEF StoreSecret, Activate, DropSecret, At, IInv, RequestsWellFormed,
     TypeOK
<1>1. CASE StoreSecret(r)
  <2>1. [row EXCEPT !.secret = r] \in Settings
        /\ [row EXCEPT !.secret = r].enabled = row.enabled
    BY <1>0 DEF Settings
  <2>2. row = req[r].row => ~row.enabled
    BY <1>1 DEF StoreSecret, IInv, RowsRead
  <2>3. /\ Write(r, [row EXCEPT !.secret = r]) /\ scanned' \subseteq Reqs
        /\ UNCHANGED <<challenge, sessions, proved>>
    BY <1>0, <1>1 DEF StoreSecret
  <2> HIDE DEF row
  <2> QED
    BY <1>0, <2>1, <2>2, <2>3, WriteIInv DEF row
<1>2. CASE Activate(r)
  <2>1. [row EXCEPT !.enabled = TRUE] \in Settings
        /\ [row EXCEPT !.enabled = TRUE].secret = row.secret
    BY <1>0 DEF Settings
  <2>2. row = req[r].row => row.secret \in proved
    BY <1>2 DEF Activate, IInv, RowsRead
  <2>3. /\ Write(r, [row EXCEPT !.enabled = TRUE]) /\ scanned' \subseteq Reqs
        /\ UNCHANGED <<challenge, sessions, proved>>
    BY <1>0, <1>2 DEF Activate
  <2> HIDE DEF row
  <2> QED
    BY <1>0, <2>1, <2>2, <2>3, WriteIInv DEF row
<1>3. CASE DropSecret(r)
  <2>1. Off \in Settings /\ ~Off.enabled
    BY DEF Off, Settings
  <2>2. /\ Write(r, Off) /\ scanned' \subseteq Reqs
        /\ UNCHANGED <<challenge, sessions, proved>>
    BY <1>0, <1>3 DEF DropSecret
  <2> QED
    BY <1>0, <2>1, <2>2, WriteIInv
<1> QED
  BY <1>1, <1>2, <1>3

LEMMA ChallengesIInv ==
    ASSUME IInv, NEW r \in Reqs,
           \/ IssueChallenge(r) \/ FindChallenge(r) \/ UseChallenge(r)
           \/ OpenSession(r) \/ Abort(r)
    PROVE  IInv'
<1> DEFINE Rows == [state: {"none"}, who: {Nil}]
                     \cup [state: {"open", "used", "expired"}, who: Accounts]
<1>0. /\ challenge \in [Reqs -> Rows] /\ req[r].token \in Reqs \cup {Nil}
      /\ sessions \subseteq [by: Reqs, from: Reqs \cup {Nil}]
  BY DEF IInv, TypeOK, Request
<1>1. CASE IssueChallenge(r)
  <2>1. /\ At(r, "challenge") /\ GoTo(r, "done") /\ req[r].who \in Accounts
        /\ challenge' = [challenge EXCEPT ![r] = [state |-> "open",
                                                  who |-> req[r].who]]
        /\ UNCHANGED <<user, scanned, sessions, proved, raced>>
    BY <1>1 DEF IssueChallenge, At, IInv, RequestsWellFormed
  <2>2. challenge' \in [Reqs -> Rows] /\ challenge[r].state = "none"
    BY <1>0, <2>1 DEF IInv, RequestsWellFormed, At
  <2>3. TypeOK'
    BY <2>1, <2>2, GoToReq DEF IInv, TypeOK, Steps
  <2> QED
    BY <1>0, <2>1, <2>2, <2>3, MoveIInv DEF At
<1>2. CASE FindChallenge(r)
  <2>1. PICK p \in {"use", "rejected"} : GoTo(r, p)
    BY <1>2 DEF FindChallenge
  <2>2. At(r, "look") /\ UNCHANGED <<user, challenge, scanned, sessions, proved,
                                     raced>>
    BY <1>2 DEF FindChallenge
  <2>3. TypeOK'
    BY <2>1, <2>2, GoToReq DEF IInv, TypeOK, Steps
  <2>4. req[r].token \in Reqs /\ challenge[req[r].token].state # "none"
    BY <2>2 DEF At, IInv, RequestsWellFormed
  <2> QED
    BY <2>1, <2>2, <2>3, <2>4, MoveIInv DEF At
<1>3. CASE UseChallenge(r)
  <2>1. /\ At(r, "use") /\ GoTo(r, "open") /\ req[r].token \in Reqs
        /\ challenge[req[r].token].state # "none"
        /\ challenge' = [challenge EXCEPT ![req[r].token].state = "used"]
        /\ UNCHANGED <<user, scanned, sessions, proved, raced>>
    BY <1>3 DEF UseChallenge, At, IInv, RequestsWellFormed
  <2>2. /\ challenge' \in [Reqs -> Rows]
        /\ challenge'[req[r].token].state = "used"
        /\ \A l \in Reqs \ {req[r].token} : challenge'[l] = challenge[l]
    BY <1>0, <2>1
  <2>3. TypeOK'
    BY <2>1, <2>2, GoToReq DEF IInv, TypeOK, Steps
  <2> QED
    BY <1>0, <2>1, <2>2, <2>3, MoveIInv DEF At
<1>4. CASE OpenSession(r)
  <2>1. /\ At(r, "open") /\ GoTo(r, "done")
        /\ sessions' = sessions \cup {[by |-> r, from |-> req[r].token]}
        /\ UNCHANGED <<user, challenge, scanned, proved, raced>>
    BY <1>4 DEF OpenSession
  <2>2. sessions' \subseteq [by: Reqs, from: Reqs \cup {Nil}]
    BY <1>0, <2>1
  <2>3. TypeOK'
    BY <2>1, <2>2, GoToReq DEF IInv, TypeOK, Steps
  <2> QED
    BY <2>1, <2>3, MoveIInv DEF At
<1>5. CASE Abort(r)
  <2>1. /\ ~At(r, "idle") /\ ~At(r, "done") /\ GoTo(r, "failed")
        /\ UNCHANGED <<user, challenge, scanned, sessions, proved, raced>>
    BY <1>5 DEF Abort, At
  <2>2. TypeOK'
    BY <2>1, GoToReq DEF IInv, TypeOK, Steps
  <2> QED
    BY <2>1, <2>2, MoveIInv
<1> QED
  BY <1>1, <1>2, <1>3, <1>4, <1>5

LEMMA ExpireIInv ==
    ASSUME IInv, NEW l \in Reqs, Expire(l)
    PROVE  IInv'
<1>1. /\ challenge[l].state = "open"
      /\ challenge' = [challenge EXCEPT ![l].state = "expired"]
      /\ UNCHANGED <<user, req, scanned, sessions, proved, raced>>
  BY DEF Expire
<1>2. /\ challenge'[l].state = "expired"
      /\ \A x \in Reqs \ {l} : challenge'[x] = challenge[x]
  BY <1>1 DEF IInv, TypeOK
<1>3. TypeOK'
  BY <1>1 DEF IInv, TypeOK
<1>4. RequestsWellFormed'
  <2>1. \A q \in Reqs : req[q].token \in Reqs \cup {Nil}
    BY DEF IInv, TypeOK, Request
  <2> QED
    BY <1>1, <1>2, <2>1 DEF IInv, RequestsWellFormed, At
<1> QED
  BY <1>1, <1>3, <1>4
  DEF IInv, SessionsEnded, RowsRead, EnabledSecretWasProved, At

LEMMA NextIInv ==
    ASSUME IInv, [Next]_vars
    PROVE  IInv'
<1>1. CASE UNCHANGED vars
  BY <1>1 DEF vars, IInv, TypeOK, RequestsWellFormed, SessionsEnded, RowsRead,
     EnabledSecretWasProved, At
<1> QED
  BY <1>1, BeginIInv, WritesIInv, ChallengesIInv, ExpireIInv DEF Next

LEMMA Invariance == Spec => []IInv
  BY InitIInv, NextIInv, PTL DEF Spec

(* Every variable keeps its type: a challenge that has been issued belongs *)
(* to an account.                                                          *)
THEOREM TypeCorrect == Spec => []TypeOK
<1>1. IInv => TypeOK
  BY DEF IInv
<1> QED
  BY <1>1, Invariance, PTL

(* An account that asks for a second factor holds a secret whose owner has *)
(* shown a code for it, unless two requests rewrote its row at a time: the *)
(* right code was for the secret in the row the request had read, and that *)
(* row is the one it completes.                                            *)
THEOREM SecretsProved == Spec => []EnabledSecretWasProved
<1>1. IInv => EnabledSecretWasProved
  BY DEF IInv
<1> QED
  BY <1>1, Invariance, PTL

-----------------------------------------------------------------------------
(* The second factor.                                                      *)

Begin(r) == \/ SetupMfa(r) \/ EnableMfa(r) \/ DisableMfa(r) \/ Login(r)
            \/ VerifyMfa(r)

Later(r) == \/ StoreSecret(r) \/ Activate(r) \/ DropSecret(r)
            \/ IssueChallenge(r) \/ FindChallenge(r) \/ UseChallenge(r)
            \/ OpenSession(r) \/ Abort(r)

(* A request keeps its account and its challenge from its first read on.   *)
LEMMA LaterKeeps ==
    ASSUME IInv, NEW r \in Reqs, Later(r)
    PROVE  /\ ~At(r, "idle") /\ ~At(r, "done")
           /\ \A q \in Reqs \ {r} : req'[q] = req[q]
           /\ req'[r].who = req[r].who /\ req'[r].token = req[r].token
<1>1. \E p \in Steps : GoTo(r, p)
  BY DEF Later, StoreSecret, Activate, DropSecret, IssueChallenge,
     FindChallenge, UseChallenge, OpenSession, Abort, Write, Steps
<1>2. ~At(r, "idle") /\ ~At(r, "done")
  BY DEF Later, StoreSecret, Activate, DropSecret, IssueChallenge,
     FindChallenge, UseChallenge, OpenSession, Abort, At
<1> QED
  BY <1>1, <1>2, GoToReq DEF IInv

(* A request that begins opens no session; it stands before one at once    *)
(* only if its account asks for no second factor.                          *)
LEMMA BeginHow ==
    ASSUME IInv, NEW r \in Reqs, Begin(r)
    PROVE  /\ At(r, "idle") /\ \A q \in Reqs \ {r} : req'[q] = req[q]
           /\ UNCHANGED <<user, challenge, sessions>>
           /\ req'[r].step # "use"
           /\ At(r, "open")' => /\ req'[r].token = Nil
                                /\ ~user[req'[r].who].enabled
<1>0. scanned \subseteq Reqs
  BY DEF IInv, TypeOK
<1>1. UNCHANGED <<user, challenge, sessions>>
  BY DEF Begin, SetupMfa, EnableMfa, DisableMfa, Login, VerifyMfa
<1>2. PICK a \in Accounts, p \in Steps, token \in Reqs \cup {Nil},
           code \in Reqs \cup {Nil} :
        /\ Read(r, a, p, token, code) /\ p # "use"
        /\ p = "open" => token = Nil /\ ~user[a].enabled
  <2>1. CASE SetupMfa(r) \/ DisableMfa(r) \/ Login(r)
    BY <2>1 DEF SetupMfa, DisableMfa, Login, Steps
  <2>2. CASE EnableMfa(r)
    BY <1>0, <2>2 DEF EnableMfa, Steps
  <2>3. CASE VerifyMfa(r)
    BY <1>0, <2>3 DEF VerifyMfa, Steps
  <2> QED
    BY <2>1, <2>2, <2>3 DEF Begin
<1> QED
  BY <1>1, <1>2, ReadReq DEF IInv, At

(* A session that MFA was not asked for is opened by a login of its        *)
(* account that stands before it.                                          *)
LEMMA WhoEnters ==
    ASSUME IInv, NEW r \in Reqs, Begin(r) \/ Later(r), NEW a \in Accounts,
           PasswordOnly(a)' # PasswordOnly(a)
    PROVE  At(r, "open") /\ req[r].token = Nil /\ req[r].who = a
<1>1. \A s \in sessions : /\ s.by \in Reqs
                          /\ req'[s.by] = req[s.by]
  BY BeginHow, LaterKeeps DEF IInv, TypeOK, SessionsEnded, At
<1>2. sessions' # sessions
  BY <1>1 DEF PasswordOnly
<1>3. OpenSession(r)
  BY <1>2, BeginHow DEF Later, StoreSecret, Activate, DropSecret,
     IssueChallenge, FindChallenge, UseChallenge, Abort
<1>4. /\ At(r, "open") /\ req'[r].who = req[r].who
      /\ sessions' = sessions \cup {[by |-> r, from |-> req[r].token]}
  BY <1>3, LaterKeeps DEF OpenSession, Later
<1> QED
  BY <1>1, <1>4 DEF PasswordOnly

LEMMA GuardedStep ==
    ASSUME IInv, [Next]_vars, NEW a \in Accounts, Guarded(a)
    PROVE  /\ PasswordOnly(a)' = PasswordOnly(a)
           /\ user'[a].enabled => Guarded(a)'
<1>1. CASE UNCHANGED vars
  BY <1>1 DEF vars, Guarded, PasswordOnly, At
<1>2. ASSUME NEW l \in Reqs, Expire(l)
      PROVE  /\ PasswordOnly(a)' = PasswordOnly(a)
             /\ user'[a].enabled => Guarded(a)'
  BY <1>2 DEF Expire, Guarded, PasswordOnly, At
<1>3. ASSUME NEW r \in Reqs, Begin(r) \/ Later(r)
      PROVE  /\ PasswordOnly(a)' = PasswordOnly(a)
             /\ user'[a].enabled => Guarded(a)'
  <2>1. PasswordOnly(a)' = PasswordOnly(a)
    BY <1>3, WhoEnters DEF Guarded
  <2>2. \A q \in Reqs \ {r} : req'[q] = req[q]
    BY <1>3, BeginHow, LaterKeeps
  <2>3. ASSUME req'[r].who = a, req'[r].token = Nil, At(r, "open")'
        PROVE  FALSE
    <3>1. CASE Begin(r)
      BY <2>3, <3>1, BeginHow DEF Guarded
    <3>2. CASE Later(r)
      <4>1. req[r].who = a /\ req[r].token = Nil
        BY <2>3, <3>2, LaterKeeps
      <4>2. UseChallenge(r)
        <5>1. ASSUME NEW p \in Steps \ {"open"}, GoTo(r, p)
              PROVE  FALSE
          BY <2>3, <5>1, GoToReq DEF IInv, At
        <5> QED
          BY <3>2, <5>1 DEF Later, StoreSecret, Activate, DropSecret,
             IssueChallenge, FindChallenge, OpenSession, Abort, Write, Steps
      <4> QED
        BY <4>1, <4>2, MfaAssumption
        DEF UseChallenge, At, IInv, RequestsWellFormed
    <3> QED
      BY <1>3, <3>1, <3>2
  <2> QED
    BY <2>1, <2>2, <2>3 DEF Guarded, At
<1> QED
  BY <1>1, <1>2, <1>3 DEF Next, Begin, Later

(* Nobody enters an account by its password alone while MFA is enabled,    *)
(* once the logins that read the account before have ended.                *)
THEOREM SecondFactorAsked == Spec => SecondFactorRequired
<1>1. IInv /\ [Next]_vars =>
        [\A a \in Accounts : Guarded(a) =>
           /\ PasswordOnly(a)' = PasswordOnly(a)
           /\ user'[a].enabled => Guarded(a)']_vars
  BY GuardedStep
<1> QED
  BY <1>1, Invariance, PTL DEF Spec, SecondFactorRequired

-----------------------------------------------------------------------------
(* The challenge implements the one-time token.                            *)

Effects(l) == {s.by : s \in {t \in sessions : t.from = l}}

PhaseMap   == [l \in Reqs |-> Phase(l)]
EffectsMap == [l \in Reqs |-> Effects(l)]

LEMMA TokenInit == Init => Token!Init
<1> SUFFICES ASSUME Init PROVE Token!Init
  OBVIOUS
<1>1. \A l \in Reqs : Phase(l) = "none" /\ Effects(l) = {}
  BY DEF Init, Phase, Effects
<1> QED
  BY <1>1 DEF Token!Init, Effects

(* A step after which challenge l alone has another phase is a step of the *)
(* one-time token if its phase moves on.                                   *)
LEMMA OnePhaseMoves ==
    ASSUME NEW l \in Reqs, \A x \in Reqs \ {l} : Phase(x)' = Phase(x),
           \A x \in Reqs : Effects(x)' = Effects(x),
           \/ Phase(l)' = Phase(l)
           \/ Phase(l) = "none" /\ Phase(l)' = "open"
           \/ Phase(l) = "open" /\ Phase(l)' \in {"draining", "dead"}
           \/ Phase(l) = "draining" /\ Phase(l)' = "dead"
    PROVE  [Token!Next]_<<PhaseMap, EffectsMap>>
<1>1. EffectsMap' = EffectsMap
  BY DEF EffectsMap
<1>2. PhaseMap' = [PhaseMap EXCEPT ![l] = Phase(l)']
  BY DEF PhaseMap
<1>3. PhaseMap[l] = Phase(l)
  BY DEF PhaseMap
<1>4. CASE Phase(l)' = Phase(l)
  BY <1>1, <1>4 DEF PhaseMap
<1>5. CASE Phase(l) = "none" /\ Phase(l)' = "open"
  <2>1. Token!Issue(l)
    BY <1>1, <1>2, <1>3, <1>5
    DEF Token!Issue, Token!Becomes, PhaseMap, EffectsMap, Effects
  <2> QED
    BY <2>1 DEF Token!Next
<1>6. CASE Phase(l) = "open" /\ Phase(l)' \in {"draining", "dead"}
  <2>1. Token!Close(l)
    BY <1>1, <1>2, <1>3, <1>6
    DEF Token!Close, Token!Becomes, PhaseMap, EffectsMap, Effects
  <2> QED
    BY <2>1 DEF Token!Next
<1>7. CASE Phase(l) = "draining" /\ Phase(l)' = "dead"
  <2>1. Token!Drain(l)
    BY <1>1, <1>2, <1>3, <1>7
    DEF Token!Drain, Token!Becomes, PhaseMap, EffectsMap, Effects
  <2> QED
    BY <2>1 DEF Token!Next
<1> QED
  BY <1>4, <1>5, <1>6, <1>7

(* A step that leaves the challenges and the sessions alone ends at most   *)
(* the drain of the challenge its request had found.                       *)
LEMMA IdleStepRefines ==
    ASSUME IInv, NEW r \in Reqs, Begin(r) \/ Later(r),
           UNCHANGED <<challenge, sessions>>,
           \A l \in Reqs : Holds(r, l)' =>
               Holds(r, l) \/ challenge[l].state = "open"
    PROVE  [Token!Next]_<<PhaseMap, EffectsMap>>
<1> DEFINE x == req[r].token
<1>0. req[r].token \in Reqs \cup {Nil} /\ challenge \in [Reqs ->
           [state: {"none"}, who: {Nil}]
             \cup [state: {"open", "used", "expired"}, who: Accounts]]
  BY DEF IInv, TypeOK, Request
<1>1. \A q \in Reqs \ {r} : \A l \in Reqs : Holds(q, l)' = Holds(q, l)
  BY BeginHow, LaterKeeps DEF Holds
<1>2. \A l \in Reqs : Effects(l)' = Effects(l)
  BY DEF Effects
<1>3. ASSUME NEW l \in Reqs, Phase(l)' # Phase(l)
      PROVE  Phase(l) = "draining" /\ Phase(l)' = "dead" /\ l = x
  <2>1. challenge[l].state \notin {"none", "open"}
    BY <1>3 DEF Phase
  <2>2. Holds(r, l) /\ ~Holds(r, l)'
    BY <1>1, <1>3, <2>1 DEF Phase
  <2> QED
    BY <1>3, <2>1, <2>2 DEF Phase, Holds
<1>4. CASE x \in Reqs
  BY <1>2, <1>3, <1>4, OnePhaseMoves
<1>5. CASE x \notin Reqs
  <2>1. \A l \in Reqs : Phase(l)' = Phase(l)
    BY <1>3, <1>5
  <2> QED
    BY <1>2, <2>1 DEF PhaseMap, EffectsMap
<1> QED
  BY <1>4, <1>5

LEMMA IssueRefines ==
    ASSUME IInv, NEW r \in Reqs, IssueChallenge(r)
    PROVE  [Token!Next]_<<PhaseMap, EffectsMap>>
<1>1. /\ At(r, "challenge") /\ GoTo(r, "done") /\ UNCHANGED sessions
      /\ challenge' = [challenge EXCEPT ![r] = [state |-> "open",
                                                who |-> req[r].who]]
  BY DEF IssueChallenge
<1>2. /\ challenge[r].state = "none" /\ challenge'[r].state = "open"
      /\ \A l \in Reqs \ {r} : challenge'[l] = challenge[l]
  BY <1>1 DEF IInv, RequestsWellFormed, TypeOK, At
<1>3. \A q \in Reqs, l \in Reqs : Holds(q, l)' = Holds(q, l)
  BY <1>1, GoToReq DEF IInv, Steps, Holds, At
<1>4. Phase(r) = "none" /\ Phase(r)' = "open"
  BY <1>2 DEF Phase
<1>5. \A l \in Reqs \ {r} : Phase(l)' = Phase(l)
  BY <1>2, <1>3 DEF Phase
<1>6. \A l \in Reqs : Effects(l)' = Effects(l)
  BY <1>1 DEF Effects
<1> QED
  BY <1>4, <1>5, <1>6, OnePhaseMoves

LEMMA UseRefines ==
    ASSUME IInv, NEW r \in Reqs, UseChallenge(r)
    PROVE  [Token!Next]_<<PhaseMap, EffectsMap>>
<1>0. PICK x \in Reqs : x = req[r].token
  BY DEF UseChallenge, IInv, RequestsWellFormed, At
<1>1. /\ At(r, "use") /\ GoTo(r, "open") /\ UNCHANGED sessions
      /\ challenge[x].state \in {"open", "used", "expired"}
      /\ challenge' = [challenge EXCEPT ![x].state = "used"]
  BY <1>0 DEF UseChallenge, IInv, RequestsWellFormed, TypeOK, At
<1>2. /\ challenge'[x].state = "used"
      /\ \A l \in Reqs \ {x} : challenge'[l] = challenge[l]
  BY <1>1 DEF IInv, TypeOK
<1>3. \A q \in Reqs, l \in Reqs : Holds(q, l)' = Holds(q, l)
  BY <1>1, GoToReq DEF IInv, Steps, Holds, At
<1>4. Holds(r, x)
  BY <1>0, <1>1 DEF Holds, At
<1>5. Phase(x) \in {"open", "draining"} /\ Phase(x)' = "draining"
  BY <1>1, <1>2, <1>3, <1>4 DEF Phase
<1>6. \A l \in Reqs \ {x} : Phase(l)' = Phase(l)
  BY <1>2, <1>3 DEF Phase
<1>7. \A l \in Reqs : Effects(l)' = Effects(l)
  BY <1>1 DEF Effects
<1> QED
  BY <1>1, <1>5, <1>6, <1>7, OnePhaseMoves

LEMMA OpenRefines ==
    ASSUME IInv, NEW r \in Reqs, OpenSession(r)
    PROVE  [Token!Next]_<<PhaseMap, EffectsMap>>
<1>0. PICK x \in Reqs \cup {Nil} : x = req[r].token
  BY DEF IInv, TypeOK, Request
<1>1. /\ At(r, "open") /\ GoTo(r, "done") /\ UNCHANGED challenge
      /\ sessions' = sessions \cup {[by |-> r, from |-> x]}
      /\ Later(r)
  BY <1>0 DEF OpenSession, Later
<1>2. \A l \in Reqs : ~Holds(r, l)'
  BY <1>1, GoToReq DEF IInv, Steps, Holds
<1>3. \A q \in Reqs \ {r} : \A l \in Reqs : Holds(q, l)' = Holds(q, l)
  BY <1>1, LaterKeeps DEF Holds
<1>4. \A l \in Reqs : l # x => Phase(l)' = Phase(l) /\ Effects(l)' = Effects(l)
  <2> SUFFICES ASSUME NEW l \in Reqs, l # x
               PROVE  Phase(l)' = Phase(l) /\ Effects(l)' = Effects(l)
    OBVIOUS
  <2>1. ~Holds(r, l)
    BY <1>0 DEF Holds
  <2> QED
    BY <1>1, <1>2, <1>3, <2>1 DEF Phase, Effects
<1>5. CASE x = Nil
  <2>1. Nil \notin Reqs
    BY MfaAssumption
  <2> QED
    BY <1>4, <1>5, <2>1 DEF PhaseMap, EffectsMap
<1>6. CASE x \in Reqs
  <2>1. x # Nil /\ challenge[x].state = "used" /\ Holds(r, x)
    BY <1>0, <1>1, <1>6, MfaAssumption DEF IInv, RequestsWellFormed, Holds, At
  <2>2. Phase(x) = "draining" /\ Phase(x)' \in {"draining", "dead"}
    BY <1>1, <1>6, <2>1 DEF Phase
  <2>3. PhaseMap' = [PhaseMap EXCEPT ![x] = Phase(x)']
    BY <1>4, <1>6 DEF PhaseMap
  <2>4. Effects(x) \subseteq Effects(x)'
    BY <1>1 DEF Effects
  <2>5. Token!TakeEffect(x)
    BY <1>4, <1>6, <2>2, <2>3, <2>4
    DEF Token!TakeEffect, Token!Becomes, PhaseMap, Effects
  <2> QED
    BY <1>6, <2>5 DEF Token!Next
<1> QED
  BY <1>5, <1>6

LEMMA ExpireRefines ==
    ASSUME IInv, NEW l \in Reqs, Expire(l)
    PROVE  [Token!Next]_<<PhaseMap, EffectsMap>>
<1>1. /\ challenge[l].state = "open" /\ challenge'[l].state = "expired"
      /\ \A x \in Reqs \ {l} : challenge'[x] = challenge[x]
      /\ UNCHANGED <<req, sessions>>
  BY DEF Expire, IInv, TypeOK
<1>2. \A q \in Reqs, x \in Reqs : Holds(q, x)' = Holds(q, x)
  BY <1>1 DEF Holds
<1>3. Phase(l) = "open" /\ Phase(l)' \in {"draining", "dead"}
  BY <1>1 DEF Phase
<1>4. \A x \in Reqs \ {l} : Phase(x)' = Phase(x)
  BY <1>1, <1>2 DEF Phase
<1>5. \A x \in Reqs : Effects(x)' = Effects(x)
  BY <1>1 DEF Effects
<1> QED
  BY <1>3, <1>4, <1>5, OnePhaseMoves

LEMMA StepRefines ==
    ASSUME IInv, [Next]_vars
    PROVE  [Token!Next]_<<PhaseMap, EffectsMap>>
<1>1. CASE UNCHANGED vars
  BY <1>1 DEF vars, PhaseMap, EffectsMap, Phase, Holds, Effects
<1>2. ASSUME NEW r \in Reqs, Begin(r)
      PROVE  [Token!Next]_<<PhaseMap, EffectsMap>>
  <2>1. \A l \in Reqs : ~Holds(r, l)'
    BY <1>2, BeginHow, MfaAssumption DEF Holds, At
  <2> QED
    BY <1>2, <2>1, BeginHow, IdleStepRefines
<1>3. ASSUME NEW r \in Reqs, FindChallenge(r)
      PROVE  [Token!Next]_<<PhaseMap, EffectsMap>>
  <2>1. Later(r) /\ UNCHANGED <<challenge, sessions>>
    BY <1>3 DEF Later, FindChallenge
  <2>2. \A l \in Reqs : Holds(r, l)' => challenge[l].state = "open"
    <3>1. CASE challenge[req[r].token].state = "open"
      BY <2>1, <3>1, LaterKeeps DEF Holds
    <3>2. CASE challenge[req[r].token].state # "open"
      BY <1>3, <3>2, GoToReq DEF FindChallenge, IInv, Steps, Holds
    <3> QED
      BY <3>1, <3>2
  <2> QED
    BY <2>1, <2>2, IdleStepRefines
<1>4. ASSUME NEW r \in Reqs,
             StoreSecret(r) \/ Activate(r) \/ DropSecret(r) \/ Abort(r)
      PROVE  [Token!Next]_<<PhaseMap, EffectsMap>>
  <2>1. Later(r) /\ UNCHANGED <<challenge, sessions>>
    BY <1>4 DEF Later, StoreSecret, Activate, DropSecret, Abort
  <2>2. GoTo(r, "done") \/ GoTo(r, "failed")
    BY <1>4 DEF StoreSecret, Activate, DropSecret, Abort, Write
  <2>3. \A l \in Reqs : ~Holds(r, l)'
    BY <2>2, GoToReq DEF IInv, Steps, Holds
  <2> QED
    BY <2>1, <2>3, IdleStepRefines
<1> QED
  BY <1>1, <1>2, <1>3, <1>4, IssueRefines, UseRefines, OpenRefines,
     ExpireRefines DEF Next, Begin

(* The two calls of a verification, the lookup of an open challenge and    *)
(* the update of usedAt, and the expiry implement the one-time token: what *)
(* was closed opens no session but through who had found it open.          *)
THEOREM ChallengeOneTime == Spec => ChallengeIsOneTime
<1>1. IInv /\ [Next]_vars => [Token!Next]_<<PhaseMap, EffectsMap>>
  BY StepRefines
<1> QED
  BY <1>1, TokenInit, Invariance, PTL
  DEF Spec, ChallengeIsOneTime, Token!Spec, PhaseMap, EffectsMap, Effects

(* A token that is dead stays so, and takes no effect.                     *)
LEMMA DeadStaysDead ==
    ASSUME [Token!Next]_<<PhaseMap, EffectsMap>>, NEW l \in Reqs,
           Phase(l) = "dead"
    PROVE  Phase(l)' = "dead" /\ Effects(l)' = Effects(l)
<1>1. /\ PhaseMap[l] = Phase(l) /\ PhaseMap'[l] = Phase(l)'
      /\ EffectsMap[l] = Effects(l) /\ EffectsMap'[l] = Effects(l)'
  BY DEF PhaseMap, EffectsMap
<1>2. PhaseMap'[l] = PhaseMap[l] /\ EffectsMap'[l] = EffectsMap[l]
  <2>1. ASSUME NEW x \in Reqs,
               \/ Token!Issue(x) \/ Token!Close(x)
               \/ Token!Drain(x) \/ Token!TakeEffect(x)
        PROVE  PhaseMap'[l] = PhaseMap[l] /\ EffectsMap'[l] = EffectsMap[l]
    <3>1. x # l
      BY <1>1, <2>1 DEF Token!Issue, Token!Close, Token!Drain,
         Token!TakeEffect, PhaseMap
    <3> QED
      BY <2>1, <3>1 DEF Token!Issue, Token!Close, Token!Drain,
         Token!TakeEffect, Token!Becomes, PhaseMap, EffectsMap, Effects
  <2> QED
    BY <2>1 DEF Token!Next
<1> QED
  BY <1>1, <1>2

(* A challenge that has been used or has expired, and that no verification *)
(* under way has found open, opens no session any more, whatever is done   *)
(* with it: it stays so, and the sessions it opened stay those it had.  It *)
(* follows from ChallengeOneTime, that is, from what OneTimeToken promises *)
(* of a token that is dead.                                                *)
THEOREM SpentChallengesOpenNothing ==
    Spec => [][\A l \in Reqs :
                 /\ challenge[l].state \notin {"none", "open"}
                 /\ \A r \in Reqs : ~Holds(r, l)
                 => Phase(l)' = "dead" /\ Effects(l)' = Effects(l)]_vars
<1> DEFINE Spent == \A l \in Reqs :
                 /\ challenge[l].state \notin {"none", "open"}
                 /\ \A r \in Reqs : ~Holds(r, l)
                 => Phase(l)' = "dead" /\ Effects(l)' = Effects(l)
<1>1. [Token!Next]_<<PhaseMap, EffectsMap>> => [Spent]_vars
  BY DeadStaysDead DEF Phase
<1> QED
  BY <1>1, ChallengeOneTime, PTL
  DEF ChallengeIsOneTime, Token!Spec, PhaseMap, EffectsMap, Effects

=============================================================================
