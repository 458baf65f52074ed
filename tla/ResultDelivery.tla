--------------------------- MODULE ResultDelivery ---------------------------
(***************************************************************************)
(* What the two-phase claim of hermes-talk promises about the result of an *)
(* accepted run, stated without processes, sessions or files: a result is  *)
(* handed to the wire, then consumed; a consumed result is never spoken    *)
(* again; and it is spoken a second time only when the first hand-off      *)
(* could not be recorded.                                                  *)
(***************************************************************************)
EXTENDS Naturals

CONSTANTS Run, MaxSays

VARIABLES
  stage,    \* stage[r]: how far run r is, as the durable record has it
  says,     \* says[r]: sessions that handed the result of r to the wire
  unsure    \* runs with a hand-off that was never recorded

vars == <<stage, says, unsure>>

Stages == {"none", "accepted", "landed", "consumed"}

Init ==
  /\ stage = [r \in Run |-> "none"]
  /\ says = [r \in Run |-> 0]
  /\ unsure = {}

Advance(r, from, to) ==
  /\ stage[r] \in from
  /\ stage' = [stage EXCEPT ![r] = to]
  /\ UNCHANGED <<says, unsure>>

Accept(r) == Advance(r, {"none"}, "accepted")

Land(r) == Advance(r, {"accepted"}, "landed")

\* Accepted and not consumed.  The landing itself may never be recorded: a
\* result in hand is spoken although its record still says running.
Owed(r) == stage[r] \in {"accepted", "landed"}

\* The first time, or again when an earlier hand-off was never recorded.
Say(r) ==
  /\ Owed(r)
  /\ says[r] = 0 \/ r \in unsure
  /\ says[r] < MaxSays
  /\ says' = [says EXCEPT ![r] = @ + 1]
  /\ UNCHANGED <<stage, unsure>>

\* Recorded only after it was spoken.
Consume(r) == says[r] > 0 /\ Advance(r, {"accepted", "landed"}, "consumed")

\* A hand-off was cut off from its record: a crash, a cancelled send or a
\* failed write.  The hand-off itself may be part of the same step.
LoseRecord(r) ==
  /\ Owed(r)
  /\ \/ says[r] > 0 /\ UNCHANGED says
     \/ /\ says[r] = 0 \/ r \in unsure
        /\ says[r] < MaxSays
        /\ says' = [says EXCEPT ![r] = @ + 1]
  /\ unsure' = unsure \union {r}
  /\ UNCHANGED stage

Next == \E r \in Run : Accept(r) \/ Land(r) \/ Say(r) \/ Consume(r) \/ LoseRecord(r)

Spec == Init /\ [][Next]_vars
=============================================================================
