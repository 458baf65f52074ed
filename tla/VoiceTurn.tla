----------------------------- MODULE VoiceTurn -----------------------------
(***************************************************************************)
(* One live call of run_talk_session (talk_cli.py): the receiver, the tool *)
(* worker, the announcement pump and the microphone sender are tasks of    *)
(* one event loop that share a provider socket behind a FIFO lock.  The    *)
(* relay (talk_relay.py) keeps the ledger of the response that may speak;  *)
(* the tool coordinator answers the calls of a response in one batch with  *)
(* one continuation; the pump says something of its own in the gaps.       *)
(*                                                                         *)
(* A task runs from one await to the next: an action is such a stretch.    *)
(* The provider opens one response at a time and refuses to start another; *)
(* its events reach the receiver in order and late.                        *)
(***************************************************************************)
EXTENDS Naturals, Sequences

CONSTANTS
  None,
  Unnamed,           \* responses whose events carry no response id
  ToolQueueSize,     \* TOOL_SESSION_QUEUE_SIZE
  MaxResponses,      \* bound on responses
  MaxCalls,          \* bound on tool calls
  MaxAudio,          \* bound on pieces of audio
  MaxSpeech,         \* bound on the operator's turns
  MaxAnnouncements,  \* bound on announcements
  MaxLost,           \* bound on terminal events that never arrive
  MaxInbox           \* bound on unread events

ASSUME VoiceTurnAssumption ==
  /\ {MaxResponses, MaxCalls, MaxAudio, MaxSpeech, MaxAnnouncements, MaxLost,
      MaxInbox} \subseteq Nat
  /\ ToolQueueSize \in Nat \ {0}
  /\ Unnamed \subseteq 1 .. MaxResponses

VARIABLES
  \* the provider
  open,       \* the response the provider has open, 0 when it has none
  muted,      \* TRUE: the open response may not call tools
  started,    \* responses so far
  inbox,      \* events the receiver has not read
  used,       \* calls, audio, turns, lost terminals and announcements so far
  \* the relay's ledger
  inFlight,   \* _response_in_flight
  active,     \* _active_response_id
  settled,    \* _settled_response_ids
  unnamedCut, \* _unnamed_response_cancelled
  speaker,    \* the response whose audio is queued for playback, 0 when none is
  \* the tool coordinator
  outputs,    \* outputs, by position: the call and whether it has its output
  closed,     \* closed
  tools,      \* queue: positions to execute
  running,    \* the position the worker executes, 0 when it executes none
  \* the socket and the tasks
  writing,    \* the batch inside session.send, or None
  line,       \* batches whose task waits for send_lock
  awaiting,   \* awaiting[t]: what task t waits for
  restart,    \* continuation_pending
  dead,       \* TRUE: a task raised and the session is being torn down
  \* history
  wired,      \* tool calls in the order the receiver read them
  answered,   \* answered calls in the order they were sent, each with where its batch began
  cutOff,     \* responses the operator spoke over
  released    \* responses a second barge-in gave up waiting for, and those it cannot tell apart

server   == <<open, muted, started, inbox, used>>
ledger   == <<inFlight, active, settled, unnamedCut, speaker>>
batch    == <<outputs, closed, tools, running>>
socket   == <<writing, line, awaiting, restart, dead>>
history  == <<wired, answered, cutOff, released>>
vars     == <<server, ledger, batch, socket, history>>

Responses == 1 .. MaxResponses
Calls     == Responses \X (1 .. MaxCalls)
Tasks     == {"receiver", "worker", "pump", "microphone"}

Events == [type: {"started", "audio", "done", "call", "speech", "error"},
           id: Responses \union {0}, nth: 0 .. MaxCalls]

\* A batch of commands: the task that sends it and the calls it answers.
Batches == [by: Tasks, calls: Seq(Calls),
            kind: {"input", "reply", "cancel", "results", "announcement"}]
Batch(task, kind) == [by |-> task, kind |-> kind, calls |-> <<>>]

ASSUME NoneAssumption == None \notin Responses /\ None \notin Batches

TypeOK ==
  /\ open \in Responses \union {0} /\ muted \in BOOLEAN /\ started \in 0 .. MaxResponses
  /\ inbox \in Seq(Events)
  /\ used \in [calls: 0 .. MaxCalls, audio: 0 .. MaxAudio, speech: 0 .. MaxSpeech,
               lost: 0 .. MaxLost, announcements: 0 .. MaxAnnouncements]
  /\ inFlight \in BOOLEAN /\ unnamedCut \in BOOLEAN
  /\ active \in Responses \union {None} /\ settled \subseteq Responses
  /\ speaker \in Responses \union {0}
  /\ outputs \in Seq([call: Calls, ready: BOOLEAN]) /\ closed \in BOOLEAN
  /\ tools \in Seq(1 .. Len(outputs)) /\ Len(tools) <= ToolQueueSize
  /\ running \in 0 .. Len(outputs)
  /\ writing \in Batches \union {None} /\ line \in Seq(Batches)
  /\ awaiting \in [Tasks -> {"nothing", "socket", "flush", "opening"}]
  /\ \A t \in Tasks : awaiting[t] = "socket" <=>
       \/ writing # None /\ writing.by = t
       \/ \E i \in 1 .. Len(line) : line[i].by = t
  /\ restart \in BOOLEAN /\ dead \in BOOLEAN
  /\ wired \in Seq(Calls) /\ answered \in Seq([call: Calls, batch: Nat])
  /\ cutOff \subseteq Responses /\ released \subseteq Responses

Init ==
  /\ open = 0 /\ muted = FALSE /\ started = 0 /\ inbox = <<>>
  /\ used = [calls |-> 0, audio |-> 0, speech |-> 0, lost |-> 0, announcements |-> 0]
  /\ inFlight = FALSE /\ active = None /\ settled = {} /\ unnamedCut = FALSE
  /\ speaker = 0
  /\ outputs = <<>> /\ closed = FALSE /\ tools = <<>> /\ running = 0
  /\ writing = None /\ line = <<>>
  /\ awaiting = [t \in Tasks |-> "nothing"]
  /\ restart = FALSE /\ dead = FALSE
  /\ wired = <<>> /\ answered = <<>> /\ cutOff = {} /\ released = {}

-----------------------------------------------------------------------------
(* The provider and the room.                                              *)

Event(type, r, n) == [type |-> type, id |-> r, nth |-> n]

Emit(event) == Len(inbox) < MaxInbox /\ inbox' = Append(inbox, event)

Use(what, bound) == used[what] < bound /\ used' = [used EXCEPT ![what] = @ + 1]

\* The provider answers the operator's turn.
ProviderStarts ==
  /\ open = 0 /\ started < MaxResponses /\ used.speech > 0
  /\ open' = started + 1 /\ started' = started + 1 /\ muted' = FALSE
  /\ Emit(Event("started", open', 0))
  /\ UNCHANGED <<used, ledger, batch, socket, history>>

ProviderCalls ==
  /\ open # 0 /\ ~muted
  /\ Use("calls", MaxCalls)
  /\ Emit(Event("call", open, used'.calls))
  /\ UNCHANGED <<open, muted, started, ledger, batch, socket, history>>

\* Also while a cancellation is on its way: the tail of the response.
ProviderSpeaks ==
  /\ open # 0
  /\ Use("audio", MaxAudio)
  /\ Emit(Event("audio", open, 0))
  /\ UNCHANGED <<open, muted, started, ledger, batch, socket, history>>

ProviderFinishes ==
  /\ open # 0
  /\ open' = 0
  /\ \/ Emit(Event("done", open, 0)) /\ UNCHANGED used
     \/ Use("lost", MaxLost) /\ UNCHANGED inbox
  /\ UNCHANGED <<muted, started, ledger, batch, socket, history>>

OperatorSpeaks ==
  /\ Use("speech", MaxSpeech)
  /\ Emit(Event("speech", 0, 0))
  /\ UNCHANGED <<open, muted, started, ledger, batch, socket, history>>

SpeakerDrains ==
  /\ speaker # 0
  /\ speaker' = 0
  /\ UNCHANGED <<server, inFlight, active, settled, unnamedCut, batch, socket, history>>

-----------------------------------------------------------------------------
(* The socket: send_outgoing.                                              *)

\* The batch holds a StartResponse.
Starts(b) == b.kind \in {"results", "announcement"}

\* Take the lock when nobody holds it or waits for it, and start the write;
\* else wait in line.  cleared: the batch's task just saw a response start.
Join(b, cleared) ==
  /\ awaiting' = [awaiting EXCEPT ![b.by] = "socket"]
  /\ \/ /\ writing = None /\ line = <<>>
        /\ writing' = b
        /\ restart' = (Starts(b) \/ (restart /\ ~cleared))
        /\ UNCHANGED line
     \/ /\ writing # None \/ line # <<>>
        /\ line' = Append(line, b)
        /\ restart' = (restart /\ ~cleared)
        /\ UNCHANGED writing

\* An announcement at the front of the lock is not written over a response.
Declined == inFlight \/ restart \/ speaker # 0

\* The lock goes to the first in line.
Grant ==
  /\ ~dead /\ writing = None /\ line # <<>>
  /\ line' = Tail(line)
  /\ IF Head(line).kind = "announcement" /\ Declined
     THEN /\ awaiting' = [awaiting EXCEPT !["pump"] = "opening"]
          /\ UNCHANGED <<writing, restart>>
     ELSE /\ writing' = Head(line)
          /\ restart' = (restart \/ Starts(Head(line)))
          /\ UNCHANGED awaiting
  /\ UNCHANGED <<server, ledger, batch, dead, history>>

\* What the provider makes of a batch.
Received(b) ==
  \/ /\ ~Starts(b)
     /\ UNCHANGED <<open, muted, started, inbox>>
  \/ /\ Starts(b) /\ open = 0 /\ started < MaxResponses
     /\ open' = started + 1 /\ started' = started + 1
     /\ muted' = (b.kind = "announcement")
     /\ Emit(Event("started", open', 0))
  \/ /\ Starts(b) /\ open # 0
     /\ Emit(Event("error", 0, 0))
     /\ UNCHANGED <<open, muted, started>>

\* The calls of a batch, as they are added to those answered before.
Answers(calls) == [i \in 1 .. Len(calls) |-> [call |-> calls[i], batch |-> Len(answered)]]

\* session.send returns.  A flush resets the batch; the receiver, which
\* flushes inside response_done, goes on to send what its event asked for.
SendReturns ==
  /\ ~dead /\ writing # None
  /\ Received(writing)
  /\ \/ /\ writing.kind # "results"
        /\ writing' = None
        /\ awaiting' = [awaiting EXCEPT ![writing.by] = "nothing"]
        /\ UNCHANGED <<line, outputs, closed, answered>>
     \/ /\ writing.kind = "results"
        /\ answered' = answered \o Answers(writing.calls)
        /\ outputs' = <<>> /\ closed' = FALSE
        /\ \/ /\ writing.by = "worker"
              /\ writing' = None
              /\ awaiting' = [awaiting EXCEPT !["worker"] = "nothing"]
              /\ UNCHANGED line
           \/ /\ writing.by = "receiver"
              /\ LET reply == Batch("receiver", "reply")
                 IN  IF line = <<>> THEN writing' = reply /\ UNCHANGED line
                     ELSE writing' = None /\ line' = Append(line, reply)
              /\ UNCHANGED awaiting
  /\ UNCHANGED <<used, ledger, tools, running, restart, dead, wired, cutOff, released>>

MicrophoneSends ==
  /\ ~dead /\ awaiting["microphone"] = "nothing"
  /\ Join(Batch("microphone", "input"), FALSE)
  /\ UNCHANGED <<server, ledger, batch, dead, history>>

-----------------------------------------------------------------------------
(* The receiver: receive_events over handle_realtime_event.                *)

Label(r) == IF r \in Unnamed THEN None ELSE r

\* The next event is of the given type, and the receiver is free to read it.
Reads(type) ==
  /\ ~dead /\ awaiting["receiver"] = "nothing"
  /\ inbox # <<>> /\ Head(inbox).type = type
  /\ inbox' = Tail(inbox)
  /\ UNCHANGED <<open, muted, started, used>>

\* Variant: an event that asks for nothing does not pass the lock.
ReplyOnlyIfNeeded(kind, cleared) ==
  IF kind = "reply"
  THEN /\ restart' = (restart /\ ~cleared)
       /\ UNCHANGED <<awaiting, writing, line>>
  ELSE Join(Batch("receiver", kind), cleared)

\* Every event but a call ends in a send, of no command when it asks for none.
Reply(kind, cleared) == Join(Batch("receiver", kind), cleared)

\* _start_response
ReadStarted ==
  LET id == Label(Head(inbox).id)
      replayed == id # None /\ id \in settled
      unnaming == id = None /\ inFlight /\ active # None
  IN  /\ Reads("started")
      /\ IF replayed \/ unnaming
         THEN UNCHANGED <<inFlight, active, unnamedCut>>
         ELSE inFlight' = TRUE /\ active' = id /\ unnamedCut' = FALSE
      /\ Reply("reply", TRUE)
      /\ UNCHANGED <<settled, speaker, batch, dead, history>>

\* Variant: only the response known to be active is told apart.
BelongsUnsettled(id) ==
  IF id = None THEN ~unnamedCut ELSE active = None \/ id = active

\* _belongs_to_active
Belongs(id) ==
  IF id = None THEN ~unnamedCut
  ELSE id \notin settled /\ (active = None \/ id = active)

ReadAudio ==
  /\ Reads("audio")
  /\ speaker' = IF Belongs(Label(Head(inbox).id)) THEN Head(inbox).id ELSE speaker
  /\ Reply("reply", FALSE)
  /\ UNCHANGED <<inFlight, active, settled, unnamedCut, batch, dead, history>>

\* on_barge_in and _cancel_active_response: the speaker is drained; a response
\* in flight is cancelled once, and forgotten when it was cancelled before.
ReadSpeech ==
  LET again == \/ active # None /\ active \in settled
               \/ active = None /\ unnamedCut
  IN  /\ Reads("speech")
      /\ speaker' = 0
      /\ cutOff' = cutOff \union ({speaker} \ {0})
                          \union (IF inFlight /\ active # None THEN {active} ELSE {})
      /\ \/ /\ ~inFlight
            /\ UNCHANGED <<inFlight, active, settled, unnamedCut, released>>
            /\ Reply("reply", FALSE)
         \/ /\ inFlight /\ again
            /\ inFlight' = FALSE /\ active' = None /\ unnamedCut' = FALSE
            /\ released' = released \union Unnamed \union ({active} \ {None})
            /\ UNCHANGED settled
            /\ Reply("reply", FALSE)
         \/ /\ inFlight /\ ~again
            /\ IF active = None
               THEN unnamedCut' = TRUE /\ UNCHANGED settled
               ELSE settled' = settled \union {active} /\ UNCHANGED unnamedCut
            /\ UNCHANGED <<inFlight, active, released>>
            /\ Reply("cancel", FALSE)
      /\ UNCHANGED <<batch, dead, wired, answered>>

\* Variant: a queue one longer than its bound.
FullLate == Len(tools) > ToolQueueSize

\* asyncio.QueueFull
Full == Len(tools) = ToolQueueSize

\* ToolResponseCoordinator.admit: a call takes the next position; when the
\* queue is full its output is the refusal.  After the close it raises.
ReadCall ==
  LET call == <<Head(inbox).id, Head(inbox).nth>>
  IN  /\ Reads("call")
      /\ \/ /\ closed
            /\ dead' = TRUE
            /\ UNCHANGED <<outputs, tools, wired>>
         \/ /\ ~closed
            /\ outputs' = Append(outputs, [call |-> call, ready |-> Full])
            /\ tools' = IF Full THEN tools ELSE Append(tools, Len(outputs'))
            /\ wired' = Append(wired, call)
            /\ UNCHANGED dead
      /\ UNCHANGED <<ledger, closed, running, writing, line, awaiting, restart, answered, cutOff, released>>

\* Variant: a batch is ready as soon as the calls so far have their outputs.
FlushableEarly(outs, isClosed) ==
  outs # <<>> /\ \A i \in 1 .. Len(outs) : outs[i].ready

\* _flush_if_ready
Flushable(outs, isClosed) ==
  isClosed /\ outs # <<>> /\ \A i \in 1 .. Len(outs) : outs[i].ready

Results(task, outs) ==
  [Batch(task, "results") EXCEPT !.calls = [i \in 1 .. Len(outs) |-> outs[i].call]]

\* _flush_lock is held: a batch of outputs is being written or waits for the lock.
Flushing ==
  \/ writing # None /\ writing.kind = "results"
  \/ \E i \in 1 .. Len(line) : line[i].kind = "results"

\* _finish_response, then response_done.
ReadDone ==
  LET id == Label(Head(inbox).id)
  IN  /\ Reads("done")
      /\ settled' = settled \union ({id} \ {None})
      /\ IF id # None /\ active # None /\ id # active
         THEN UNCHANGED <<inFlight, active, unnamedCut>>
         ELSE inFlight' = FALSE /\ active' = None /\ unnamedCut' = FALSE
      /\ closed' = (closed \/ outputs # <<>>)
      /\ \/ /\ ~Flushable(outputs, closed')
            /\ Reply("reply", FALSE)
         \/ /\ Flushable(outputs, closed') /\ ~Flushing
            /\ Join(Results("receiver", outputs), FALSE)
         \/ /\ Flushable(outputs, closed') /\ Flushing
            /\ awaiting' = [awaiting EXCEPT !["receiver"] = "flush"]
            /\ UNCHANGED <<writing, line, restart>>
      /\ UNCHANGED <<speaker, outputs, tools, running, dead, history>>

\* The receiver waited for the worker's flush of the same batch.
FlushWaited ==
  /\ ~dead /\ awaiting["receiver"] = "flush" /\ ~Flushing
  /\ Reply("reply", FALSE)
  /\ UNCHANGED <<server, ledger, batch, dead, history>>

\* A refused start is reported and changes nothing.
ReadError ==
  /\ Reads("error")
  /\ Reply("reply", FALSE)
  /\ UNCHANGED <<ledger, batch, dead, history>>

-----------------------------------------------------------------------------
(* The tool worker and the announcement pump.                              *)

WorkerTakes ==
  /\ ~dead /\ awaiting["worker"] = "nothing" /\ running = 0 /\ tools # <<>>
  /\ running' = Head(tools)
  /\ tools' = Tail(tools)
  /\ UNCHANGED <<server, ledger, outputs, closed, socket, history>>

\* The call returned, failed or outran its time: either way it has an output.
ToolEnds ==
  /\ ~dead /\ running # 0
  /\ outputs' = [outputs EXCEPT ![running].ready = TRUE]
  /\ running' = 0
  /\ \/ /\ Flushable(outputs', closed)
        /\ Join(Results("worker", outputs'), FALSE)
     \/ /\ ~Flushable(outputs', closed)
        /\ UNCHANGED <<writing, line, awaiting, restart>>
  /\ UNCHANGED <<server, ledger, closed, tools, dead, history>>

\* The pump takes the next announcement off its queue.
Announce ==
  /\ ~dead /\ awaiting["pump"] = "nothing"
  /\ Use("announcements", MaxAnnouncements)
  /\ awaiting' = [awaiting EXCEPT !["pump"] = "opening"]
  /\ UNCHANGED <<open, muted, started, inbox, ledger, batch, writing, line, restart, dead, history>>

\* response_busy
Busy == inFlight \/ restart \/ outputs # <<>> \/ speaker # 0

\* The poll found an opening.
PumpSends ==
  /\ ~dead /\ awaiting["pump"] = "opening" /\ ~Busy
  /\ Join(Batch("pump", "announcement"), FALSE)
  /\ UNCHANGED <<server, ledger, batch, dead, history>>

Next ==
  \/ ProviderStarts \/ ProviderCalls \/ ProviderSpeaks \/ ProviderFinishes
  \/ OperatorSpeaks \/ SpeakerDrains
  \/ Grant \/ SendReturns \/ MicrophoneSends
  \/ ReadStarted \/ ReadAudio \/ ReadSpeech \/ ReadCall \/ ReadDone \/ ReadError
  \/ FlushWaited
  \/ WorkerTakes \/ ToolEnds \/ Announce \/ PumpSends

Spec == Init /\ [][Next]_vars

-----------------------------------------------------------------------------
(* Properties.                                                             *)

\* Every call the receiver read is answered once and in the order of the wire:
\* the calls answered and the batch in the making are the calls it read.
AnsweredInOrder ==
  [i \in 1 .. Len(answered) |-> answered[i].call] \o [i \in 1 .. Len(outputs) |-> outputs[i].call] = wired

\* When no terminal event was lost a batch answers all calls of one response
\* and nothing else, so the model goes on once from all of them.
BatchesAreWhole ==
  used.lost = 0 => \A i \in 1 .. Len(answered) :
    /\ \A j \in 1 .. Len(answered) :
         answered[i].batch = answered[j].batch <=> answered[i].call[1] = answered[j].call[1]
    /\ \A k \in 1 .. Len(wired) : wired[k][1] = answered[i].call[1] => k <= Len(answered)

\* An announcement is never written while a response may speak, a start is
\* unconfirmed, the speaker is busy, or the calls of a response wait for their
\* batch - although send_outgoing looks again only at the first three: the last
\* holds because the receiver passes the FIFO lock between a response's start
\* and its end, even when it has nothing to send.  It holds for all calls but
\* those of a response that the operator spoke over twice: that one is taken to
\* have lost its terminal event, although it may only be late.
AnnouncementsWait ==
  [][writing' # writing /\ writing' # None /\ writing'.kind = "announcement"
       => /\ ~Declined
          /\ \A i \in 1 .. Len(outputs) : outputs[i].call[1] \in released]_vars

\* A response the operator spoke over is not heard again, whatever of it
\* arrives late; a response without an id can only be told by its terminal.
SpokenOverStaysSilent == speaker \in cutOff => speaker \in Unnamed

\* What every state of a turn keeps: calls answered once, in order and in whole
\* batches, and silence once the operator spoke over a response.
TurnSafe == TypeOK /\ AnsweredInOrder /\ BatchesAreWhole /\ SpokenOverStaysSilent

\* Calls are admitted in wire order: no call ends the session.  (Refuted:
\* admit raises while the batch of the response before is closed.)
CallsAreAdmitted == ~dead

\* (Refuted where the operator may speak three times: see AnnouncementsWait.)
AnnouncementsAlwaysWait ==
  [][writing' # writing /\ writing' # None /\ writing'.kind = "announcement"
       => outputs = <<>>]_vars
=============================================================================
