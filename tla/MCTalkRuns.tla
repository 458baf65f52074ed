---------------------------- MODULE MCTalkRuns ----------------------------
(* Instances of TalkRuns for TLC.                                          *)
EXTENDS TalkRuns, TLC

CONSTANTS p1, p2, s1, s2

\* One process; or each process with a session of its own.
HomeOne == [s \in Sessions |-> p1]
HomeTwo == (s1 :> p1) @@ (s2 :> p2)

AdmissionSymmetry == Permutations(Callers) \union Permutations(Keys)
=============================================================================
