-------------------------- MODULE MCDashboard --------------------------
(* Instances of the modules of the dashboard, in one run.  They share no state:
   a behaviour is a behaviour of one of them. *)
EXTENDS DashboardActions, DashboardChoices, DashboardInteractions, TaskEvents

VARIABLE part

BoardParts == {"actions", "interactions", "recipients", "speech", "stream", "targets"}

BoardVars  == <<part, dashVars, interVars, recVars, taskVars, streamVars, targetVars>>

\* Every part starts; one of them is the one that runs, and the others start one way.
BoardInit ==
    /\ part \in BoardParts
    /\ DashInit /\ InterInit /\ RecInit /\ TaskInit /\ StreamInit /\ TargetInit
    /\ part # "stream" => kinds = {}

BoardNext ==
    /\ UNCHANGED part
    /\ \/ /\ part = "actions" /\ DashNext
          /\ UNCHANGED <<interVars, recVars, taskVars, streamVars, targetVars>>
       \/ /\ part = "interactions" /\ InterNext
          /\ UNCHANGED <<dashVars, recVars, taskVars, streamVars, targetVars>>
       \/ /\ part = "recipients" /\ RecNext
          /\ UNCHANGED <<dashVars, interVars, taskVars, streamVars, targetVars>>
       \/ /\ part = "speech" /\ TaskNext
          /\ UNCHANGED <<dashVars, interVars, recVars, streamVars, targetVars>>
       \/ /\ part = "stream" /\ StreamNext
          /\ UNCHANGED <<dashVars, interVars, recVars, taskVars, targetVars>>
       \/ /\ part = "targets" /\ TargetNext
          /\ UNCHANGED <<dashVars, interVars, recVars, taskVars, streamVars>>

BoardSpec == BoardInit /\ [][BoardNext]_BoardVars

\* What the tab and its threads do to an action and to an input: claimed by one, ended
\* once, and never left without an answer.
ActionsSafe == DashSafe /\ InterSafe

\* What the tab chose: the recipient of a message and the target of the conversation.
ChoicesSafe == RecipientsSafe /\ TargetSafe

\* What the tab hears of its tasks: news in order, and told once.
NewsSafe == TaskSafe /\ StreamSafe

\* Nothing that was learnt, read or stacked is taken back by a step.
StepsGoForward == KnowledgeGrows /\ CursorHolds /\ StackMovesByOne
=============================================================================
