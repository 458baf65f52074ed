---------------------------- MODULE NativeSpeech ----------------------------
(***************************************************************************)
(* How a native voice session speaks the updates of its task: _speak, the  *)
(* presentation it opens, and what becomes of it (talk_native_controller.  *)
(* py), against the host's record of the attempt (acknowledge_speech of    *)
(* talk_task_events.py).                                                   *)
(*                                                                         *)
(* Three tasks of one event loop post receipts to the host: the refresh    *)
(* loop (which ticks and speaks), the handler of provider events, and the  *)
(* operator's commands.  A task that posts a receipt waits for the answer, *)
(* and the others go on; the host takes the receipts in any order.  Audio  *)
(* is counted in chunks, per presentation.                                 *)
(***************************************************************************)
EXTENDS Naturals, FiniteSets

CONSTANTS MaxAttempts, \* bound: updates spoken
          MaxChunks,   \* bound: chunks of audio of an update
          MaxSpeech,   \* bound: times the operator begins to speak or interrupts
          MaxOutages   \* bound: refreshes the host does not answer, and sends that fail

Attempts == 1..MaxAttempts
Tasks == {"refresh", "handler", "command"}

VARIABLES hostSays,   \* the host's record of each attempt: state and facts
          shown,      \* the controller's presentations
          onShow,     \* self.presentation, 0 for none
          sound,      \* chunks queued, consumed, discarded, and lost unseen, by attempt
          told,       \* the provider's response of each attempt
          does,       \* Tasks -> where it is, and the receipt it waits for
          speaking,   \* operator_speaking
          muted,      \* service_paused
          spoken, outages

speechVars == <<hostSays, shown, onShow, sound, told, does, speaking, muted, spoken, outages>>

Off == [at |-> "idle", of |-> 0, post |-> "none", answer |-> "none"]

SpeechInit ==
  /\ hostSays = [p \in Attempts |-> [state |-> "none", facts |-> {}]]
  /\ shown = [p \in Attempts |-> [retired |-> FALSE, submitted |-> FALSE, generated |-> FALSE,
                                  started |-> FALSE, response |-> FALSE]]
  /\ onShow = 0 /\ sound = [p \in Attempts |-> [queued |-> 0, consumed |-> 0, discarded |-> 0, unseen |-> 0]]
  /\ told = [p \in Attempts |-> "none"] /\ does = [k \in Tasks |-> Off]
  /\ speaking = FALSE /\ muted = FALSE /\ spoken = 0 /\ outages = 0

Queued == {p \in Attempts : sound[p].queued > 0}

\* timing: anything that keeps an update from being spoken now.
Busy == speaking \/ Queued # {} \/ onShow # 0

Waits(k, at, p, post) == does' = [does EXCEPT ![k] = [Off EXCEPT !.at = at, !.of = p, !.post = post]]
Stops(k) == does' = [does EXCEPT ![k] = Off]

------------------------------------------------------------------------------
(* The host: speech and acknowledge_speech *)

Active == {"queued", "submitting", "context_submitted", "playback_started"}
HostFree == \A p \in Attempts : hostSays[p].state \notin Active

Moves == [queued |-> {"submitting", "unknown", "interrupted", "deferred"},
          submitting |-> {"context_submitted", "unknown", "interrupted"},
          context_submitted |-> {"playback_started", "unknown", "interrupted"},
          playback_started |-> {"playback_finished", "unknown", "interrupted"},
          unknown |-> {"interrupted"}, interrupted |-> {}, deferred |-> {}, playback_finished |-> {}]

\* A receipt that is known already, or that joins a record that has ended.
Known(record, state) == state \in record.facts
Joins(record, state) ==
  state = "context_submitted" /\ record.state \in {"interrupted", "unknown"} /\ "submitting" \in record.facts

Takes(k) ==
  /\ does[k].post # "none"
  /\ LET p == does[k].of  state == does[k].post  record == hostSays[p]
         answered(answer) == does' = [does EXCEPT ![k].post = "none", ![k].answer = answer]
     IN  CASE Known(record, state) -> answered("ok") /\ UNCHANGED hostSays
           [] ~Known(record, state) /\ Joins(record, state) ->
                answered("ok") /\ hostSays' = [hostSays EXCEPT ![p].facts = @ \union {state}]
           [] OTHER -> IF state \in Moves[record.state]
                       THEN /\ answered("ok")
                            /\ hostSays' = [hostSays EXCEPT ![p] = [state |-> state, facts |-> @.facts \union {state}]]
                       ELSE answered("refused") /\ UNCHANGED hostSays
  /\ UNCHANGED <<shown, onShow, sound, told, speaking, muted, spoken, outages>>

------------------------------------------------------------------------------
(* _retire_presentation and _observe_presentation *)

\* Variant: a presentation is retired whether it is already or not.
RetiresTwice(p) == p \in Attempts
RetiresOnce(p) == ~shown[p].retired

\* Nothing is awaited between the flag and the receipt.
RetirePresentation(k, p, state, then) ==
  IF RetiresOnce(p)
  THEN /\ shown' = [shown EXCEPT ![p].retired = TRUE] /\ onShow' = (IF onShow = p THEN 0 ELSE onShow)
       /\ does' = [does EXCEPT ![k] = [Off EXCEPT !.at = then, !.of = p, !.post = state]]
  ELSE does' = [does EXCEPT ![k] = [Off EXCEPT !.at = then, !.of = p, !.answer = "ok"]] /\ UNCHANGED <<shown, onShow>>

\* Variant: an update has finished once nothing is queued.
HeardOutAny(p, view) == sound[p].queued = 0
HeardOut(p, view) == view.generated /\ sound[p].queued = 0

\* What _observe_presentation retires the update as, if it does.
Verdict(p, view, finishing) ==
  IF view.retired \/ ~view.submitted THEN "none"
  ELSE IF sound[p].discarded > 0 THEN "unknown"
  ELSE IF finishing /\ HeardOut(p, view) THEN (IF view.started THEN "playback_finished" ELSE "unknown")
  ELSE "none"

\* The rest of an observation, and of an interrupt that made it: one step, for
\* only a receipt is waited for.
Concludes(k, p, view, interrupts) ==
  LET verdict == Verdict(p, view, ~interrupts)
      state == IF verdict = "none" /\ interrupts THEN "interrupted" ELSE verdict
  IN  /\ does' = [does EXCEPT ![k] = [Off EXCEPT !.at = (IF interrupts THEN "drains" ELSE "ends"), !.of = p,
                                      !.post = IF RetiresOnce(p) THEN state ELSE "none"]]
      /\ shown' = [shown EXCEPT ![p] = [view EXCEPT !.retired = @ \/ state # "none"]]
      /\ onShow' = (IF state # "none" /\ RetiresOnce(p) /\ onShow = p THEN 0 ELSE onShow)

StartIsNews(p, view) ==
  ~view.retired /\ view.submitted /\ view.response /\ sound[p].consumed > 0 /\ ~view.started

\* _observe_presentation of an update whose presentation is now "view".
Observe(k, p, view, interrupts) ==
  IF StartIsNews(p, view)
  THEN /\ does' = [does EXCEPT ![k] = [Off EXCEPT !.at = (IF interrupts THEN "interrupts" ELSE "observes"),
                                                  !.of = p, !.post = "playback_started"]]
       /\ shown' = [shown EXCEPT ![p] = view] /\ UNCHANGED onShow
  ELSE Concludes(k, p, view, interrupts)

\* The receipt of the start was answered: the observation goes on.
Observed(k) ==
  /\ does[k].at \in {"observes", "interrupts"} /\ does[k].answer = "ok"
  /\ LET p == does[k].of  IN Concludes(k, p, [shown[p] EXCEPT !.started = TRUE], does[k].at = "interrupts")
  /\ UNCHANGED <<hostSays, sound, told, speaking, muted, spoken, outages>>

------------------------------------------------------------------------------
(* _speak, in the refresh loop *)

\* The host offers the next update and claims it for this session.
Asks ==
  /\ does["refresh"].at = "idle" /\ ~Busy /\ HostFree /\ ~muted
  /\ \E p \in Attempts :
       /\ hostSays[p].state = "none" /\ \A q \in Attempts : q < p => hostSays[q].state # "none"
       /\ hostSays' = [hostSays EXCEPT ![p] = [state |-> "queued", facts |-> {}]]
       /\ Waits("refresh", "claimed", p, "none")
  /\ UNCHANGED <<shown, onShow, sound, told, speaking, muted, spoken, outages>>

\* The operator may have begun meanwhile: then the claim is given back.
Submits ==
  /\ does["refresh"].at = "claimed"
  /\ IF Busy THEN Waits("refresh", "ends", does["refresh"].of, "deferred")
     ELSE Waits("refresh", "submitting", does["refresh"].of, "submitting")
  /\ UNCHANGED <<hostSays, shown, onShow, sound, told, speaking, muted, spoken, outages>>

\* Variant: nothing is looked at again after the wait.
RechecksNothing == FALSE
\* The look at timing() after the wait for "submitting".
Rechecks == Busy

Shows ==
  /\ does["refresh"].at = "submitting" /\ does["refresh"].answer = "ok"
  /\ LET p == does["refresh"].of
     IN  IF Rechecks
         THEN RetirePresentation("refresh", p, "unknown", "ends") /\ UNCHANGED told
         ELSE /\ onShow' = p /\ told' = [told EXCEPT ![p] = "asked"]
              /\ Waits("refresh", "sent", p, "context_submitted") /\ UNCHANGED shown
  /\ UNCHANGED <<hostSays, sound, speaking, muted, spoken, outages>>

\* The request cannot be sent: the update is given up at the host, and then the session ends.
SendFails ==
  /\ does["refresh"].at = "submitting" /\ does["refresh"].answer = "ok" /\ ~Rechecks
  /\ outages < MaxOutages /\ outages' = outages + 1
  /\ RetirePresentation("refresh", does["refresh"].of, "unknown", "lost")
  /\ UNCHANGED <<hostSays, sound, told, speaking, muted, spoken>>

SessionLost == does["refresh"].at = "lost" /\ does["refresh"].post = "none"

\* "context_submitted" is answered: what has been played meanwhile is looked at.
Submitted ==
  /\ does["refresh"].at = "sent" /\ does["refresh"].answer = "ok"
  /\ LET p == does["refresh"].of  IN Observe("refresh", p, [shown[p] EXCEPT !.submitted = TRUE], FALSE)
  /\ UNCHANGED <<hostSays, sound, told, speaking, muted, spoken, outages>>

\* tick: the presentation is observed; after thirty seconds it is given up.
Ticks ==
  /\ does["refresh"].at = "idle" /\ onShow # 0
  /\ Observe("refresh", onShow, shown[onShow], FALSE)
  /\ UNCHANGED <<hostSays, sound, told, speaking, muted, spoken, outages>>

GivesUp ==
  /\ does["refresh"].at = "idle" /\ onShow # 0
  /\ RetirePresentation("refresh", onShow, "unknown", "drains")
  /\ UNCHANGED <<hostSays, sound, told, speaking, muted, spoken, outages>>

Drained == [p \in Attempts |-> [sound[p] EXCEPT !.discarded = @ + sound[p].queued, !.queued = 0]]

\* What a task does once its last receipt is answered.
Ended(k) ==
  /\ does[k].at \in {"ends", "drains"} /\ does[k].post = "none"
  /\ sound' = (IF does[k].at = "drains" THEN Drained ELSE sound)
  /\ Stops(k)
  /\ UNCHANGED <<hostSays, shown, onShow, told, speaking, muted, spoken, outages>>

------------------------------------------------------------------------------
(* interrupt: the operator speaks (handler), or asks for it (command) *)

Interrupt(k) ==
  /\ does[k].at = "idle" /\ k # "refresh" /\ spoken < MaxSpeech /\ spoken' = spoken + 1
  /\ speaking' = (IF k = "handler" THEN TRUE ELSE speaking)
  /\ IF onShow # 0 THEN Observe(k, onShow, shown[onShow], TRUE) /\ UNCHANGED sound
     ELSE sound' = Drained /\ UNCHANGED <<does, shown, onShow>>
  /\ UNCHANGED <<hostSays, told, muted, outages>>

------------------------------------------------------------------------------
(* handle: the provider's events *)

Listens == does["handler"].at = "idle"

OnSpeechStopped ==
  /\ Listens /\ speaking /\ speaking' = FALSE
  /\ UNCHANGED <<hostSays, shown, onShow, sound, told, does, muted, spoken, outages>>

OnStarted(p) ==
  /\ Listens /\ told[p] = "asked" /\ told' = [told EXCEPT ![p] = "open"]
  /\ shown' = [shown EXCEPT ![p].response = TRUE]
  /\ UNCHANGED <<hostSays, onShow, sound, does, speaking, muted, spoken, outages>>

\* OutputAudio: dropped while the service is paused, or of a retired update.
OnAudio(p) ==
  /\ Listens /\ told[p] = "open"
  /\ sound[p].queued + sound[p].consumed + sound[p].discarded + sound[p].unseen < MaxChunks
  /\ sound' = (IF muted THEN [sound EXCEPT ![p].unseen = @ + 1]
               ELSE IF shown[p].retired \/ onShow \notin {0, p} THEN sound
               ELSE [sound EXCEPT ![p].queued = @ + 1])
  /\ UNCHANGED <<hostSays, shown, onShow, told, does, speaking, muted, spoken, outages>>

OnDone(p, status) ==
  /\ Listens /\ told[p] = "open" /\ told' = [told EXCEPT ![p] = "done"]
  /\ CASE shown[p].retired -> UNCHANGED <<shown, onShow, does>>
       [] ~shown[p].retired /\ status = "completed" ->
            Observe("handler", p, [shown[p] EXCEPT !.generated = TRUE], FALSE)
       [] OTHER -> RetirePresentation("handler", p, IF status = "cancelled" THEN "interrupted" ELSE "unknown", "ends")
  /\ UNCHANGED <<hostSays, sound, speaking, muted, spoken, outages>>

\* The device plays a chunk.
Plays(p) ==
  /\ sound[p].queued > 0 /\ sound' = [sound EXCEPT ![p].queued = @ - 1, ![p].consumed = @ + 1]
  /\ UNCHANGED <<hostSays, shown, onShow, told, does, speaking, muted, spoken, outages>>

\* The host does not answer a refresh: the service is paused, the queue drained.
Outage ==
  /\ does["refresh"].at = "idle" /\ outages < MaxOutages /\ outages' = outages + 1
  /\ muted' = TRUE /\ sound' = Drained
  /\ UNCHANGED <<hostSays, shown, onShow, told, does, speaking, spoken>>

Refreshed ==
  /\ does["refresh"].at = "idle" /\ muted /\ muted' = FALSE
  /\ UNCHANGED <<hostSays, shown, onShow, sound, told, does, speaking, spoken, outages>>

\* A refused receipt is raised in its task: a command's is told to the operator,
\* any other ends the session.
CommandRefused ==
  /\ does["command"].answer = "refused" /\ Stops("command")
  /\ UNCHANGED <<hostSays, shown, onShow, sound, told, speaking, muted, spoken, outages>>

Alive == \A k \in Tasks \ {"command"} : does[k].answer # "refused"

SpeechNext ==
  /\ Alive /\ ~SessionLost
  /\ \/ Asks \/ Submits \/ Shows \/ SendFails \/ Submitted \/ Ticks \/ GivesUp \/ Outage \/ Refreshed \/ CommandRefused
     \/ OnSpeechStopped
     \/ \E k \in Tasks : Takes(k) \/ Observed(k) \/ Ended(k) \/ Interrupt(k)
     \/ \E p \in Attempts : \/ OnStarted(p) \/ OnAudio(p) \/ Plays(p)
                            \/ \E status \in {"completed", "cancelled", "failed"} : OnDone(p, status)

SpeechSpec == SpeechInit /\ [][SpeechNext]_speechVars

------------------------------------------------------------------------------
SpeechTypeOK ==
  /\ onShow \in {0} \union Attempts /\ spoken \in 0..MaxSpeech /\ outages \in 0..MaxOutages
  /\ \A k \in Tasks : does[k].of \in {0} \union Attempts

(* The only receipt the host ever refuses, and a session ends by, is the     *)
(* start of a playback that another task's end of the same update overtook.  *)
OnlyStartsAreRefused ==
  \A k \in Tasks : does[k].answer = "refused" =>
    does[k].at \in {"observes", "interrupts"} /\ shown[does[k].of].retired

(* The record says of the playback what the operator heard: it has begun     *)
(* when a chunk was played, and an update that finished was played whole.    *)
RecordIsHeard ==
  \A p \in Attempts :
    /\ "playback_started" \in hostSays[p].facts => sound[p].consumed > 0
    /\ hostSays[p].state = "playback_finished" =>
         told[p] = "done" /\ sound[p].queued = 0 /\ sound[p].discarded = 0 /\ (outages = 0 => sound[p].unseen = 0)

(* Once an interrupt is through no update is audible while the operator      *)
(* speaks.                                                                   *)
QuietForOperator == speaking /\ Listens => Queued = {}

(* An update that is over here is over at the host, which would otherwise    *)
(* hold the next one back, also when the session ended because the request   *)
(* for the update could not be sent.                                         *)
EndIsTold ==
  /\ onShow = 0 /\ (\A k \in Tasks : does[k].at = "idle") => HostFree
  /\ SessionLost => hostSays[does["refresh"].of].state \notin Active

\* What every state of the native speech keeps: what the host records was heard, nothing is
\* said over the operator, and an end is told.
SpeechSafe == SpeechTypeOK /\ OnlyStartsAreRefused /\ RecordIsHeard /\ QuietForOperator /\ EndIsTold

(* (Refuted: a tick waits for "playback_started" and another task retires    *)
(* the update meanwhile; the host then knows it interrupted and refuses.)    *)
(* No receipt is refused, whatever order the host takes them in.             *)
NoReceiptRefused == Alive

(* (Refuted: audio that arrives while a refresh fails is dropped without     *)
(* being counted, and the update is reported as finished.)                   *)
(* An update that finished was played whole, outages or not.                 *)
FinishedWasHeard == \A p \in Attempts : hostSays[p].state = "playback_finished" => sound[p].unseen = 0
=============================================================================
