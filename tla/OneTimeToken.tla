---------------------------- MODULE OneTimeToken ----------------------------
(***************************************************************************)
(* What the back end promises about a token that is handed out once and    *)
(* spent once (MFA challenge, password reset, email verification): it is   *)
(* issued, it can be redeemed while it is open, the first redemption or    *)
(* its expiry closes it, and it then has no further effect but through the *)
(* requests that had looked it up before ("draining").                     *)
(***************************************************************************)
CONSTANT Tokens

VARIABLES
    phase,      \* of each token
    effects     \* the redemptions of each token that took effect

Init ==
    /\ phase = [t \in Tokens |-> "none"]
    /\ effects = [t \in Tokens |-> {}]

Becomes(t, p) == phase' = [phase EXCEPT ![t] = p]

Issue(t) == phase[t] = "none" /\ Becomes(t, "open") /\ UNCHANGED effects

(* Redeemed, revoked or expired.                                           *)
Close(t) ==
    /\ phase[t] = "open"
    /\ \E p \in {"draining", "dead"} : Becomes(t, p)
    /\ UNCHANGED effects

Drain(t) == phase[t] = "draining" /\ Becomes(t, "dead") /\ UNCHANGED effects

(* One redemption takes effect, by a step that closes the token or comes   *)
(* after that.                                                             *)
TakeEffect(t) ==
    /\ phase[t] \in {"open", "draining"}
    /\ \E p \in {"draining", "dead"} : Becomes(t, p)
    /\ effects[t] \subseteq effects'[t]
    /\ \A x \in Tokens \ {t} : effects'[x] = effects[x]

Next == \E t \in Tokens : Issue(t) \/ Close(t) \/ Drain(t) \/ TakeEffect(t)

Spec == Init /\ [][Next]_<<phase, effects>>
=============================================================================
