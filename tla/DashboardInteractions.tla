------------------------ MODULE DashboardInteractions ------------------------
(***************************************************************************)
(* One interaction of a dashboard task: what the operator said, the chain  *)
(* of responses to it with their tool calls, and both in the canonical     *)
(* history (DashboardStages of talk_dashboard_store.py; event,             *)
(* _persist_original, _finish_interaction, _link_origin and _recover of    *)
(* talk_dashboard_tasks.py).                                               *)
(*                                                                         *)
(* The browser reports every event over its own request, in any order and  *)
(* again when it has no answer.  History is written once per generation of *)
(* the connection; joining again recovers what was left.                   *)
(***************************************************************************)
EXTENDS Naturals, FiniteSets, TLC

CONSTANTS
  First, Second,   \* response ids; Second follows the tool calls of First
  Reporters,       \* requests at a time
  MaxRejoins,      \* bound: generations of the connection
  MaxTrouble       \* bound: failed requests to the gateway

Asked == {First, Second}

ASSUME InteractionAssumption ==
  /\ MaxRejoins \in Nat \ {0} /\ MaxTrouble \in Nat
  /\ First # Second /\ Asked \cap {"user", "none"} = {}

Call == "call"

VARIABLES
  inter,     \* the durable record
  act,       \* the durable action of the call, a state
  reports,   \* reports[t]: a request
  link,      \* [generation, trouble]: the connection and the incidents so far
  canon      \* the host's history: events in it, "user" or a response's final

interVars == <<inter, act, reports, link, canon>>

Quiet0 == [at |-> "idle"]
NoAnswer == [status |-> "none", previous |-> "none", calls |-> {}, final |-> FALSE, saved |-> FALSE]

InterInit ==
  /\ inter = [staged |-> FALSE, state |-> "none", original |-> "pending", attempted |-> 0,
              finished |-> 0, settled |-> "none", answers |-> [r \in Asked |-> NoAnswer]]
  /\ act = "none"
  /\ reports = [t \in Reporters |-> Quiet0]
  /\ link = [generation |-> 1, trouble |-> 0]
  /\ canon = {}

SameTab(t) == reports[t].generation = link.generation
Fails == link.trouble < MaxTrouble /\ link' = [link EXCEPT !.trouble = @ + 1]
Ends0(t) == reports' = [reports EXCEPT ![t] = Quiet0]
To(t, fields) ==
  reports' = [reports EXCEPT ![t] = [f \in DOMAIN @ |-> IF f \in DOMAIN fields THEN fields[f] ELSE @[f]]]

\* What a request goes by of the record it read.
Progress(r) == [original |-> r.original, attempted |-> r.attempted, finished |-> r.finished]

Report(t, at, recover) ==
  /\ reports[t].at = "idle"
  /\ reports' = [reports EXCEPT ![t] =
       [at |-> at, generation |-> link.generation, recover |-> recover, finish |-> FALSE,
        seen |-> Progress(inter'), todo |-> {}]]

-----------------------------------------------------------------------------
(* event: the record changes in one transaction.                           *)

\* input.final, once: the same words again return the record.
Stage(t) ==
  /\ inter' = IF inter.staged THEN inter ELSE [inter EXCEPT !.staged = TRUE, !.state = "staged"]
  /\ Report(t, "persist", FALSE)
  /\ UNCHANGED <<act, link, canon>>

Change(new) == inter.staged /\ inter' = new /\ UNCHANGED <<act, reports, link, canon>>

\* response.started: the second follows a completed response that called tools.
ResponseStarted(r) ==
  /\ inter.answers[r].status = "none" /\ inter.settled = "none"
  /\ IF r = First THEN \A s \in Asked : inter.answers[s].status = "none"
     ELSE inter.answers[First].status = "completed" /\ inter.answers[First].calls # {}
  /\ Change([inter EXCEPT !.answers[r] = [NoAnswer EXCEPT !.status = "started",
               !.previous = IF r = First THEN "none" ELSE First]])

ResponseFinal(r) ==
  /\ inter.answers[r].status # "none" /\ ~inter.answers[r].final /\ inter.settled = "none"
  /\ Change([inter EXCEPT !.answers[r].final = TRUE])

ResponseDone(r) ==
  /\ inter.answers[r].status = "started"
  /\ \E calls \in SUBSET {Call}, status \in {"completed", "failed"} :
       Change([inter EXCEPT !.answers[r] = [@ EXCEPT !.status = status, !.calls = calls],
                            !.state = IF status = "failed" THEN "incomplete" ELSE @])

Incomplete ==
  /\ inter.state \notin {"saved", "execution_linked"}
  /\ Change([inter EXCEPT !.state = "incomplete"])

\* prepare_action, while the response is open or when it named the call.
PrepareAction(r) ==
  /\ inter.staged /\ act = "none" /\ inter.settled = "none" /\ r = First
  /\ inter.answers[r].status = "started" \/ Call \in inter.answers[r].calls
  /\ act' = "prepared" /\ UNCHANGED <<inter, reports, link, canon>>

ActionEnds ==
  /\ act = "prepared" /\ \E s \in {"returned", "failed"} : act' = s
  /\ UNCHANGED <<inter, reports, link, canon>>

\* Variant: an open or failed response does not keep an interaction open.
CompleteIfLast(r) ==
  /\ inter.answers[r].status = "completed" /\ inter.answers[r].calls = {} /\ inter.answers[r].final
  /\ inter.state # "incomplete"

\* _assert_complete: the chain from r covers every response, all completed, and
\* the calls they named are the actions there are, all of them over.
Complete(r) ==
  /\ inter.answers[r].status = "completed" /\ inter.answers[r].calls = {} /\ inter.answers[r].final
  /\ inter.state # "incomplete"
  /\ \A s \in Asked : inter.answers[s].status # "none" => s = r \/ inter.answers[r].previous = s
  /\ \A s \in Asked : inter.answers[s].status \in {"none", "completed"}
  /\ inter.answers[First].calls = IF act = "none" THEN {} ELSE {Call}
  /\ inter.answers[Second].calls = {}
  /\ act \in {"none", "accepted", "returned"}

\* interaction.settle.
Settle(t, r) ==
  /\ inter.staged /\ inter.settled \in {"none", r} /\ Complete(r)
  /\ inter' = [inter EXCEPT !.settled = r]
  /\ reports[t].at = "idle"
  /\ reports' = [reports EXCEPT ![t] =
       [at |-> "persist", generation |-> link.generation, recover |-> FALSE, finish |-> TRUE,
        seen |-> Progress(inter'), todo |-> {}]]
  /\ UNCHANGED <<act, link, canon>>

-----------------------------------------------------------------------------
(* _persist_original.                                                      *)

Skips(t) ==
  \/ reports[t].seen.original = "saved"
  \/ reports[t].seen.attempted = reports[t].generation /\ ~reports[t].recover

\* The store is proved again, the row added, the attempt noted.
Persist(t) ==
  /\ reports[t].at = "persist"
  /\ \/ /\ Skips(t) /\ UNCHANGED <<inter, link>>
        /\ To(t, [at |-> IF reports[t].finish THEN "finish" ELSE "over"])
     \/ /\ ~Skips(t) /\ SameTab(t) /\ UNCHANGED link
        /\ inter' = [inter EXCEPT !.attempted = link.generation] /\ To(t, [at |-> "flush"])
     \/ ~Skips(t) /\ ~SameTab(t) /\ Ends0(t) /\ UNCHANGED <<inter, link>>
     \/ ~Skips(t) /\ Fails /\ Ends0(t) /\ UNCHANGED inter
  /\ UNCHANGED <<act, canon>>

\* flush of the user's words: saved, or not known to be.
FlushUser(t) ==
  /\ reports[t].at = "flush"
  /\ \/ canon' = canon \union {"user"} /\ To(t, [at |-> "link"]) /\ UNCHANGED link
     \/ /\ Fails /\ canon' \in {canon, canon \union {"user"}}
        /\ To(t, [at |-> IF reports[t].finish THEN "finish" ELSE "over", seen |-> Progress(inter)])
  /\ UNCHANGED <<inter, act>>

\* _link_origin: the host's receipt makes the original saved.
LinkOrigin(t) ==
  /\ reports[t].at = "link"
  /\ \/ /\ "user" \in canon /\ SameTab(t) /\ UNCHANGED link
        /\ inter' = [inter EXCEPT !.original = "saved"]
        /\ To(t, [at |-> IF reports[t].finish THEN "finish" ELSE "over", seen |-> Progress(inter')])
     \/ ~SameTab(t) /\ Ends0(t) /\ UNCHANGED <<inter, link>>
     \/ Fails /\ Ends0(t) /\ UNCHANGED inter
  /\ UNCHANGED <<act, canon>>

-----------------------------------------------------------------------------
(* _finish_interaction.                                                    *)

\* Variant: the finals are written whether the user's words are or not.
OriginalAny(t) == TRUE

\* The answer is written when the user's words are saved.
OriginalSaved(t) == reports[t].seen.original = "saved"

Finals == {r \in Asked : inter.answers[r].final}

Finish(t) ==
  /\ reports[t].at = "finish"
  /\ IF /\ OriginalSaved(t) /\ SameTab(t)
        /\ reports[t].recover \/ reports[t].seen.finished # reports[t].generation
     THEN /\ inter' = [inter EXCEPT !.state = "pending", !.finished = link.generation]
          /\ To(t, [at |-> "finals", todo |-> Finals])
     ELSE Ends0(t) /\ UNCHANGED inter
  /\ UNCHANGED <<act, link, canon>>

\* Variant: what could not be written is passed over.
GoesOn(t, r) == To(t, [todo |-> reports[t].todo \ {r}])

\* A final that is not saved ends the attempt.
StopsAt(t, r) == Ends0(t)

\* The first final that is left is written, and marked with its receipt.
FlushFinal(t) ==
  /\ reports[t].at = "finals" /\ reports[t].todo # {}
  /\ LET r == IF First \in reports[t].todo THEN First ELSE Second
     IN  \/ /\ SameTab(t) /\ canon' = canon \union {r} /\ UNCHANGED link
            /\ inter' = [inter EXCEPT !.answers[r].saved = TRUE]
            /\ To(t, [todo |-> reports[t].todo \ {r}])
         \/ /\ Fails /\ canon' \in {canon, canon \union {r}} /\ StopsAt(t, r) /\ UNCHANGED inter
         \/ /\ ~SameTab(t) /\ Ends0(t) /\ UNCHANGED <<inter, link, canon>>
  /\ UNCHANGED act

Finished(t) ==
  /\ reports[t].at = "finals" /\ reports[t].todo = {}
  /\ inter' = IF SameTab(t)
              THEN [inter EXCEPT !.state = IF act = "none" THEN "saved" ELSE "execution_linked"]
              ELSE inter
  /\ Ends0(t)
  /\ UNCHANGED <<act, link, canon>>

\* The request is over; one that recovers goes on to finish what was settled.
Reported(t) ==
  /\ reports[t].at = "over"
  /\ Ends0(t)
  /\ UNCHANGED <<inter, act, link, canon>>

\* join: a new generation recovers the record.
Rejoin(t) ==
  /\ link.generation < MaxRejoins /\ inter.staged /\ reports[t].at = "idle"
  /\ link' = [link EXCEPT !.generation = @ + 1]
  /\ reports' = [reports EXCEPT ![t] =
       [at |-> "persist", generation |-> link.generation + 1, recover |-> TRUE,
        finish |-> inter.settled # "none" /\ inter.state \notin {"saved", "execution_linked", "incomplete"},
        seen |-> Progress(inter), todo |-> {}]]
  /\ UNCHANGED <<inter, act, canon>>

InterNext ==
  \/ Incomplete \/ ActionEnds
  \/ \E r \in Asked : ResponseStarted(r) \/ ResponseFinal(r) \/ ResponseDone(r) \/ PrepareAction(r)
  \/ \E t \in Reporters :
       \/ Stage(t) \/ Persist(t) \/ FlushUser(t) \/ LinkOrigin(t) \/ Finish(t) \/ FlushFinal(t)
       \/ Finished(t) \/ Reported(t) \/ Rejoin(t)
       \/ \E r \in Asked : Settle(t, r)

InterSpec == InterInit /\ [][InterNext]_interVars

-----------------------------------------------------------------------------
InterTypeOK ==
  /\ inter.state \in {"none", "staged", "incomplete", "pending", "saved", "execution_linked"}
  /\ inter.original \in {"pending", "saved"} /\ inter.settled \in Asked \union {"none"}
  /\ canon \subseteq Asked \union {"user"}

\* No word of the voice is in the history before the words it answers.
UserFirst == canon \cap Asked # {} => "user" \in canon

\* What is shown as saved is in the history: the user's words, and every final
\* of every response (_finish_interaction).
SavedIsThere ==
  /\ inter.original = "saved" => "user" \in canon
  /\ inter.state \in {"saved", "execution_linked"} => Finals \subseteq canon
  /\ \A r \in Asked : inter.answers[r].saved => r \in canon

\* A settled interaction is whole: nothing is added to it, no response of it is
\* open, and its calls are the actions that ran (_assert_complete).
SettledIsWhole ==
  inter.settled # "none" =>
    /\ \A r \in Asked : inter.answers[r].status \in {"none", "completed"}
    /\ inter.answers[First].calls = IF act = "none" THEN {} ELSE {Call}
    /\ act # "prepared"

\* The three together, and the types.
InterSafe == InterTypeOK /\ UserFirst /\ SavedIsThere /\ SettledIsWhole
=============================================================================
