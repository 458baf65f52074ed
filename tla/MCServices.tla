-------------------------- MODULE MCServices --------------------------
(* Instances of the modules of the spoken approvals, the history file, the steer
   receipts and the credentials, in one run.  They share no state: a behaviour is
   a behaviour of one of them. *)
EXTENDS Approvals, RunHistory, SteerNotes, Credentials

VARIABLE part

ServiceParts == {"approvals", "history", "steer", "credentials"}

ServiceVars  == <<part, vars, histVars, steerVars, credVars>>

\* Every part starts; one of them is the one that runs, and the others start one way.
ServiceInit ==
    /\ part \in ServiceParts
    /\ Init /\ HistInit /\ SteerInit /\ CredInit
    /\ part # "credentials" =>
         /\ vendor = "openai" /\ preference = "absent" /\ keys = [k \in {"scoped", "shared"} |-> "absent"]
         /\ ~hostKey.here /\ hostLogin = Missing /\ stored = Missing /\ ~renews

ServiceNext ==
    /\ UNCHANGED part
    /\ \/ /\ part = "approvals" /\ Next
          /\ UNCHANGED <<histVars, steerVars, credVars>>
       \/ /\ part = "history" /\ HistNext
          /\ UNCHANGED <<vars, steerVars, credVars>>
       \/ /\ part = "steer" /\ SteerNext
          /\ UNCHANGED <<vars, histVars, credVars>>
       \/ /\ part = "credentials" /\ CredNext
          /\ UNCHANGED <<vars, histVars, steerVars>>

ServiceSpec == ServiceInit /\ [][ServiceNext]_ServiceVars

\* Runs, agents and notes are interchangeable.
ServiceSymmetry == Permutations(AgentRuns) \union Permutations(Agents) \union Permutations(Notes)

\* Both agents answer to one id, one after the other.
OneId == [a \in Agents |-> "id"]
=============================================================================
