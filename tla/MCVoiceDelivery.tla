-------------------------- MODULE MCVoiceDelivery --------------------------
(* Instances of VoiceDelivery for TLC.                                     *)
EXTENDS VoiceDelivery, TLC

CONSTANTS p1, p2, s1, s2

\* One process name whose incarnations host the sessions in turn.
HomeOne == [s \in Sessions |-> p1]

\* Two processes that are up together, a session each.
HomeTwo == (s1 :> p1) @@ (s2 :> p2)

\* Both sessions on one Hermes session; or the second one on it or on another.
BindSame   == [s \in Sessions |-> {"hermes"}]
BindEither == [s \in Sessions |-> IF s = s1 THEN {"hermes"} ELSE {"hermes", "other"}]
=============================================================================
