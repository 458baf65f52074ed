---------------------------- MODULE VoiceSessions ----------------------------
(* The Discord voice session slot (talk_discord.py: start_session,
   start_core_session, stop_session, native_command and the done callbacks),
   the session that runs in it from its first check to its last cleanup
   (run_talk_session and run_native_talk_session in talk_cli.py,
   run_core_session in talk_core_session.py, each with the cleanup it has) and
   the one microphone surface commands may pause (talk_pause.py).

   Everything runs on one event loop; a step of the model is what happens
   between two awaits.  A session is numbered by its generation.  Leaving
   cancels the session's task, and a cancellation arrives at whatever await the
   task stands at, the awaits of its own cleanup included.  Between the end of
   a task and its done callback other callbacks may run: the slot already reads
   as free.                                                                    *)
EXTENDS Naturals, FiniteSets, TLC

CONSTANTS
    Sessions,       \* generations, 1..n
    Modes,          \* a subset of {"legacy", "core", "native-task"}
    HasCascade,     \* the sessions that speak through the cascade
    MaxLeaves       \* bound: how often the user leaves

ASSUME SessionsAssumption == Sessions \subseteq Nat \ {0}
ASSUME ModesAssumption == Modes \subseteq {"legacy", "core", "native-task"}

VARIABLES
    slot,       \* _SESSION: [task, generation, controller]
    latest,     \* _SESSION_GENERATION
    failure,    \* _LAST_FAILURE with its generation, 0 for none
    run,        \* session -> [stage, mode, cancelled, outcome, audio, provider, capture]
    bound,      \* whose callbacks, owner and surface are attached, 0 for none
    muted,      \* the sessions whose microphone is paused
    receipt,    \* session -> its failure receipt: "none", "sending", "told", "lost"
    command,    \* a native command awaiting its result: [session, answer]
    leaves      \* cancellations asked so far

seatVars == <<slot, latest, failure, run, bound, muted, receipt, command, leaves>>

NoRun == [stage |-> "none", mode |-> "legacy", cancelled |-> FALSE, outcome |-> "none",
          audio |-> FALSE, provider |-> "none", capture |-> FALSE]
Empty == [task |-> 0, generation |-> 0, controller |-> 0]
NoCommand == [session |-> 0, answer |-> "none"]

SeatInit ==
    /\ slot = Empty /\ latest = 0 /\ failure = 0
    /\ run = [k \in Sessions |-> NoRun]
    /\ bound = 0 /\ muted = {} /\ receipt = [k \in Sessions |-> "none"]
    /\ command = NoCommand /\ leaves = 0

Finished(k) == run[k].stage \in {"done", "over"}
Set(k, fields) == run' = [run EXCEPT ![k] = [f \in DOMAIN @ |-> IF f \in DOMAIN fields THEN fields[f] ELSE @[f]]]

----------------------------------------------------------------------------
(* start_session and start_core_session                                    *)

\* Variant: a new session starts beside one that is still cleaning up.
SeatFreeEarly == slot.task # 0 => run[slot.task].cancelled \/ Finished(slot.task)

SeatFree == slot.task # 0 => Finished(slot.task)

StartSession(mode) ==
    /\ SeatFree /\ latest + 1 \in Sessions
    /\ latest' = latest + 1
    /\ failure' = 0
    /\ Set(latest + 1, [stage |-> "created", mode |-> mode])
    /\ slot' = [task |-> latest + 1, generation |-> latest + 1, controller |-> 0]
    /\ UNCHANGED <<bound, muted, receipt, command, leaves>>

(* The task's first turn: the checks that may refuse before anything is
   spent, then the audio, then the first await.  A task cancelled before its
   first turn never runs at all.                                            *)
NeverRuns(k) ==
    /\ run[k].stage = "created" /\ run[k].cancelled
    /\ Set(k, [stage |-> "done", outcome |-> "cancelled"])
    /\ UNCHANGED <<slot, latest, failure, bound, muted, receipt, command, leaves>>

Refuses(k) ==
    /\ run[k].stage = "created" /\ ~run[k].cancelled
    /\ Set(k, [stage |-> "done", outcome |-> "failed"])
    /\ UNCHANGED <<slot, latest, failure, bound, muted, receipt, command, leaves>>

Prepares(k) ==
    /\ run[k].stage = "created" /\ ~run[k].cancelled
    /\ Set(k, [stage |-> "connecting", provider |-> "open", capture |-> run[k].mode = "legacy",
               audio |-> run[k].mode # "core"])
    /\ UNCHANGED <<slot, latest, failure, bound, muted, receipt, command, leaves>>

(* The connection failed, or was cancelled: nothing to close yet (core), or
   the session is closed with an await of its own before the rest is undone.  *)
ConnectEnds(k) ==
    /\ run[k].stage = "connecting"
    /\ Set(k, [outcome |-> IF run[k].cancelled THEN "cancelled" ELSE "failed", cancelled |-> FALSE]
              @@ CASE run[k].mode = "core" -> [stage |-> "done", provider |-> "closed"]
                   [] run[k].mode = "legacy" -> [stage |-> "undoing"]
                   [] OTHER -> [stage |-> "closing"])
    /\ UNCHANGED <<slot, latest, failure, bound, muted, receipt, command, leaves>>

Undone(k) ==
    /\ run[k].stage = "undoing"
    /\ IF run[k].cancelled
       THEN Set(k, [stage |-> "done", provider |-> "left", outcome |-> "cancelled"])
       ELSE Set(k, [stage |-> "done", provider |-> "closed", audio |-> FALSE, capture |-> FALSE])
    /\ UNCHANGED <<slot, latest, failure, bound, muted, receipt, command, leaves>>

Binds(k) == slot.task = k /\ slot.generation = k

(* A native session hands its controller to the slot as soon as it has one,
   and goes on awaiting the state of its task.                              *)
BindController(k) ==
    /\ run[k].stage = "connecting" /\ run[k].mode = "native-task" /\ ~run[k].cancelled
    /\ Binds(k) /\ slot.controller # k
    /\ slot' = [slot EXCEPT !.controller = k]
    /\ UNCHANGED <<latest, failure, run, bound, muted, receipt, command, leaves>>

(* Connected: the microphone surface (and, in a legacy session, the
   process-wide callbacks and the owner) is attached in the same turn; a core
   session attaches nothing and opens its audio only now.                   *)
GoesLive(k) ==
    /\ run[k].stage = "connecting" /\ ~run[k].cancelled
    /\ run[k].mode = "native-task" /\ Binds(k) => slot.controller = k
    /\ Set(k, [stage |-> "live", audio |-> TRUE])
    /\ bound' = IF run[k].mode = "core" THEN bound ELSE k
    /\ UNCHANGED <<slot, latest, failure, muted, receipt, command, leaves>>

\* Variant: the cleanup leaves the surface attached.
StaysBound(k) == bound

\* detach_session: only the surface that is still the session's own.
Detached(k) == IF bound = k THEN 0 ELSE bound

(* The session ends: the connection closed, an error, or a cancellation.  A
   legacy session detaches at once, a native one first awaits its workers, a
   core one stops its audio and awaits the close of its attachment.         *)
Ends(k) ==
    /\ run[k].stage = "live"
    /\ \E how \in {"ok", "failed"} :
         Set(k, [outcome |-> IF run[k].cancelled THEN "cancelled" ELSE how, cancelled |-> FALSE]
                @@ CASE run[k].mode = "core" -> [stage |-> "closing", audio |-> FALSE]
                     [] run[k].mode = "legacy" -> [stage |-> "cleaning"]
                     [] OTHER -> [stage |-> "gathering"])
    /\ bound' = IF run[k].mode = "legacy" THEN Detached(k) ELSE bound
    /\ UNCHANGED <<slot, latest, failure, muted, receipt, command, leaves>>

(* The native workers have ended.  A second cancellation that arrives at this
   await skips everything after it: the surface stays attached, nothing is
   closed, and only the done callback stops the audio.                      *)
Gathered(k) ==
    /\ run[k].stage = "gathering"
    /\ IF run[k].cancelled
       THEN /\ Set(k, [stage |-> "done", provider |-> "left", outcome |-> "cancelled"])
            /\ UNCHANGED bound
       ELSE Set(k, [stage |-> "closing"]) /\ bound' = Detached(k)
    /\ UNCHANGED <<slot, latest, failure, muted, receipt, command, leaves>>

(* The children were awaited, or the bound passed, or a second cancellation
   cut the wait short: the outer cleanup starts either way.                 *)
Cleaned(k) ==
    /\ run[k].stage = "cleaning"
    /\ \E late \in BOOLEAN :
         Set(k, [stage |-> IF k \in HasCascade THEN "quieting" ELSE "closing",
                 cancelled |-> FALSE,
                 outcome |-> IF run[k].cancelled THEN "cancelled"
                             ELSE IF late /\ run[k].outcome = "ok" THEN "failed" ELSE run[k].outcome])
    /\ UNCHANGED <<slot, latest, failure, bound, muted, receipt, command, leaves>>

(* The cascade's close is awaited first; a cancellation that arrives there is
   not an error it swallows, so everything after it is skipped.             *)
Quieted(k) ==
    /\ run[k].stage = "quieting"
    /\ IF run[k].cancelled
       THEN Set(k, [stage |-> "done", outcome |-> "cancelled", provider |-> "left"])
       ELSE Set(k, [stage |-> "closing"])
    /\ UNCHANGED <<slot, latest, failure, bound, muted, receipt, command, leaves>>

Closed(k) ==
    /\ run[k].stage = "closing"
    /\ \E clean \in BOOLEAN :
         Set(k, [stage |-> "done", audio |-> FALSE, capture |-> FALSE,
                 provider |-> IF run[k].cancelled THEN "left" ELSE "closed",
                 outcome |-> IF run[k].cancelled THEN "cancelled"
                             ELSE IF clean \/ run[k].outcome = "cancelled" THEN run[k].outcome ELSE "failed"])
    /\ UNCHANGED <<slot, latest, failure, bound, muted, receipt, command, leaves>>

----------------------------------------------------------------------------
(* The done callback: a turn of its own, after the task has ended.         *)

\* Variant: the callback clears the slot whoever holds it.
OwnsAny(k) == TRUE

Owns(k) == slot.task = k /\ slot.generation = k

DoneCallback(k) ==
    /\ run[k].stage = "done"
    /\ Set(k, [stage |-> "over", mode |-> "legacy", cancelled |-> FALSE, audio |-> FALSE])
    /\ muted' = muted \ {k}
    /\ IF Owns(k)
       THEN /\ slot' = Empty
            /\ failure' = IF run[k].outcome = "failed" THEN k ELSE failure
            /\ receipt' = IF run[k].outcome = "failed" THEN [receipt EXCEPT ![k] = "sending"] ELSE receipt
       ELSE UNCHANGED <<slot, failure, receipt>>
    /\ UNCHANGED <<latest, bound, command, leaves>>

\* Variant: a delivered receipt clears whichever failure is remembered.
ClearsAny(k) == TRUE

Clears(k) == failure = k

(* _notify: the receipt reaches the channel, or does not.                  *)
Notify(k) ==
    /\ receipt[k] = "sending"
    /\ \/ /\ receipt' = [receipt EXCEPT ![k] = "told"]
          /\ failure' = IF Clears(k) THEN 0 ELSE failure
       \/ receipt' = [receipt EXCEPT ![k] = "lost"] /\ UNCHANGED failure
    /\ UNCHANGED <<slot, latest, run, bound, muted, command, leaves>>

----------------------------------------------------------------------------
(* The other commands                                                      *)

StopSession ==
    /\ slot.task # 0 /\ ~Finished(slot.task) /\ leaves < MaxLeaves
    /\ leaves' = leaves + 1
    /\ Set(slot.task, [cancelled |-> TRUE, audio |-> FALSE])
    /\ UNCHANGED <<slot, latest, failure, bound, muted, receipt, command>>

SetPaused ==
    /\ slot.task # 0 /\ ~Finished(slot.task) /\ run[slot.task].mode # "core" /\ bound # 0
    /\ muted' = IF bound \in muted THEN muted \ {bound} ELSE muted \cup {bound}
    /\ UNCHANGED <<slot, latest, failure, run, bound, receipt, command, leaves>>

CommandBegins ==
    /\ command.session = 0 /\ slot.controller # 0 /\ ~Finished(slot.task)
    /\ command' = [session |-> slot.task, answer |-> "pending"]
    /\ UNCHANGED <<slot, latest, failure, run, bound, muted, receipt, leaves>>

\* Variant: the result is given to whoever asks.
CurrentAny == TRUE

Current == slot.generation = command.session /\ slot.task = command.session

CommandReturns ==
    /\ command.session # 0 /\ command.answer = "pending"
    /\ command' = IF Current THEN [command EXCEPT !.answer = "given"] ELSE NoCommand
    /\ UNCHANGED <<slot, latest, failure, run, bound, muted, receipt, leaves>>

CommandHeard ==
    /\ command.answer = "given"
    /\ command' = NoCommand
    /\ UNCHANGED <<slot, latest, failure, run, bound, muted, receipt, leaves>>

SeatNext ==
    \/ \E mode \in Modes : StartSession(mode)
    \/ \E k \in Sessions : \/ NeverRuns(k) \/ Refuses(k) \/ Prepares(k) \/ ConnectEnds(k) \/ Undone(k)
                           \/ BindController(k) \/ GoesLive(k) \/ Ends(k)
                           \/ Gathered(k) \/ Cleaned(k) \/ Quieted(k) \/ Closed(k)
                           \/ DoneCallback(k) \/ Notify(k)
    \/ StopSession \/ SetPaused \/ CommandBegins \/ CommandReturns \/ CommandHeard

SeatSpec == SeatInit /\ [][SeatNext]_seatVars

----------------------------------------------------------------------------
SeatTypeOK ==
    /\ slot.task \in Sessions \cup {0} /\ bound \in Sessions \cup {0} /\ muted \subseteq Sessions
    /\ \A k \in Sessions : receipt[k] \in {"none", "sending", "told", "lost"}

(* One session at a time has the channel: no two tasks run, the audio belongs
   to the slot's session, and once its callback has run the channel is free.  *)
OneSession ==
    /\ Cardinality({k \in Sessions : run[k].stage \notin {"none", "done", "over"}}) <= 1
    /\ \A k \in Sessions : run[k].audio => slot.task = k \/ run[k].stage = "done"
    /\ \A k \in Sessions : run[k].stage = "over" => ~run[k].audio

(* What the microphone commands reach: while a session that has a surface is
   live it is that session's, and afterwards it is nobody's - unless a second
   cancellation cut the session's cleanup short before the detach.  The slot's
   controller is the slot's session's.                                       *)
BoundIsLive ==
    /\ \A k \in Sessions : run[k].stage \in {"live", "gathering"} /\ run[k].mode # "core" => bound = k
    /\ bound # 0 => \/ run[bound].stage \in {"live", "gathering"} /\ slot.task = bound
                    \/ Finished(bound) /\ run[bound].outcome = "cancelled" /\ run[bound].provider = "left"
    /\ slot.controller # 0 => slot.controller = slot.task

(* The last session's failure is shown until it has been told, or another
   session starts: no late receipt of an older one hides it.                 *)
FailureIsShown ==
    /\ failure # 0 => failure = latest
    /\ latest # 0 /\ run[latest].stage = "over" /\ run[latest].outcome = "failed" /\ receipt[latest] # "told"
          => failure = latest

\* What every state of the seat keeps: one session at a time, bound while it is live, and a
\* failure that is shown until it is told.
SeatSafe == SeatTypeOK /\ OneSession /\ BoundIsLive /\ FailureIsShown

(* A result is never handed out for a session that has ended.              *)
ResultOfItsSession ==
    [][ command'.answer = "given" /\ command.answer = "pending" => slot.task = command.session ]_seatVars

(* A session that is over has closed its provider connection and finished its
   transcript.  (Refuted: leaving while the cascade or a failed connection is
   being closed cancels the cleanup itself.)                                 *)
OverIsReleased ==
    \A k \in Sessions : run[k].stage = "over" => run[k].provider # "left" /\ ~run[k].capture

(* A pause command reaches the session the channel belongs to.  (Refuted: the
   surface of a native session whose cleanup was cancelled stays attached, and
   until the next session attaches its own, a pause mutes the dead one.)     *)
PauseReachesTheSeat ==
    [][ muted' \ muted \subseteq {slot.task} ]_seatVars

(* A session that failed is told or remembered.  (Refuted: a session started
   before the failed one's callback ran takes the slot, and the callback then
   reports nothing.)                                                        *)
FailureIsNotLost ==
    \A k \in Sessions : run[k].stage = "over" /\ run[k].outcome = "failed" => receipt[k] # "none"

=============================================================================
