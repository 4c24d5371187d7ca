----------------------------- MODULE MCRecovery -----------------------------
(* Instances of the live view and the opencode collector, both of which must   *)
(* come back after what they read has failed. They share no state, so each     *)
(* behaviour moves one of them, chosen at the start.                           *)
EXTENDS StatusView, OpencodeProbe

VARIABLE part

Init == part \in {"view", "opencode"} /\ ViewInit /\ OpencodeInit

Next ==
    \/ part = "view" /\ ViewNext /\ UNCHANGED <<part, opencodeVars>>
    \/ part = "opencode" /\ OpencodeNext /\ UNCHANGED <<part, viewVars>>

vars == <<part, viewVars, opencodeVars>>

\* As in ViewFairness and OpencodeFairness.
Spec ==
    /\ Init /\ [][Next]_vars
    /\ WF_vars(part = "view" /\ ViewStep /\ UNCHANGED <<part, opencodeVars>>)
    /\ WF_vars(part = "opencode" /\ OpencodeTick /\ UNCHANGED <<part, viewVars>>)
=============================================================================
