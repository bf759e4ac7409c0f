-------------------------- MODULE SessionLifecycle --------------------------
(***************************************************************************)
(* What the back end promises about a login session, whatever the number   *)
(* and the interleaving of the requests that touch it: it is opened once,  *)
(* yields access tokens while it is live, is revoked once, may still yield *)
(* the tokens of refreshes that were already under way ("draining"), and   *)
(* then is dead for ever.                                                  *)
(***************************************************************************)
CONSTANT Sids

VARIABLES
    phase,      \* phase of each session
    minted      \* access tokens each session has yielded

Phases == {"none", "live", "draining", "dead"}

Init ==
    /\ phase \in [Sids -> {"none", "live"}]
    /\ \A s \in Sids : phase[s] = "none" => minted[s] = {}

(* One session yields a token; no other session is concerned.              *)
Yields(s) ==
    /\ minted[s] \subseteq minted'[s]
    /\ \A x \in Sids \ {s} : minted'[x] = minted[x]

Becomes(s, p) == phase' = [phase EXCEPT ![s] = p]

Open(s) == phase[s] = "none" /\ Becomes(s, "live") /\ Yields(s)

Mint(s) ==
    /\ \/ phase[s] = "live" /\ UNCHANGED phase
       \/ /\ phase[s] = "draining"
          /\ \E p \in {"draining", "dead"} : Becomes(s, p)
    /\ Yields(s)

Drain(s) == phase[s] = "draining" /\ Becomes(s, "dead") /\ UNCHANGED minted

(* Any set of live sessions may be revoked at once.                        *)
Revoke ==
    /\ phase' \in [Sids -> Phases]
    /\ \A s \in Sids :
           phase'[s] # phase[s] =>
               phase[s] = "live" /\ phase'[s] \in {"draining", "dead"}
    /\ UNCHANGED minted

Next == Revoke \/ \E s \in Sids : Open(s) \/ Mint(s) \/ Drain(s)

Spec == Init /\ [][Next]_<<phase, minted>>
=============================================================================
