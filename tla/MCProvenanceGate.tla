-------------------------- MODULE MCProvenanceGate --------------------------
(***************************************************************************)
(* Instances of ProvenanceGate for TLC.                                    *)
(***************************************************************************)
EXTENDS ProvenanceGate, TLC

CONSTANTS a1, a2, s1, s2

TwoAgents == s1 :> a1 @@ s2 :> a2

\* The two agents may be exchanged together with their slots.
Swap == {a1 :> a2 @@ a2 :> a1 @@ s1 :> s2 @@ s2 :> s1}

\* One agent with two calls in flight.
OneAgent == s1 :> a1 @@ s2 :> a1
=============================================================================
