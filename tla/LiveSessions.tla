---------------------------- MODULE LiveSessions ----------------------------
(***************************************************************************)
(* The browser's GPT-Live sessions and the provider session behind each.   *)
(*                                                                         *)
(* The registry: create, close_all and the close of a binding              *)
(* (talk_live_browser.py, talk_live_transport.py).  A create waits for the *)
(* task's authority, for the closes of the bindings it sweeps, for the     *)
(* negotiation, for the sideband, for the authority again and for the      *)
(* closes of those it replaces; all else it does in one go.  The binding a *)
(* create makes is named by the create.                                    *)
(*                                                                         *)
(* The wire: connect or attach_transport, the reader that pumps the wire   *)
(* into a bounded queue, send, and close, which may come at any time       *)
(* (talk_live_realtime.py).  A cancelled reader is waited for, so a        *)
(* cleanup is one step.                                                    *)
(*                                                                         *)
(* The registry closes a session under a deadline of five seconds, and the *)
(* session's own close waits as long for the provider's answer: the outer  *)
(* deadline was set first and cancels the close before its cleanup.        *)
(***************************************************************************)
EXTENDS Naturals, Sequences, FiniteSets, SequencesExt

CONSTANTS Creates,     \* requests for a session
          Connections, \* connections of the dashboard
          MaxBindings, \* MAX_BINDINGS
          NoCreate,    \* not a create
          MaxUpsets    \* bound: refusals, failures and closes from outside

VARIABLES create,   \* Creates -> where it is
          binding,  \* Creates -> its binding: life, who closes it, whether its lease has run out
          negotiated,  \* Creates -> its session at the provider: called, open, closed, or cut: asked to
                       \* close, with the close cut short by its deadline
          listed,   \* self.bindings
          creating, \* self.creating
          opening,  \* self.opening
          ended,    \* self.closed, and whether close_all is through
          upsets

registryVars == <<create, binding, negotiated, listed, creating, opening, ended, upsets>>

RegistryInit ==
  /\ create = [t \in Creates |-> [at |-> "idle", conn |-> CHOOSE c \in Connections : TRUE,
                                  todo |-> {}, waits |-> NoCreate, cancelled |-> FALSE, gathered |-> FALSE]]
  /\ binding = [t \in Creates |-> [life |-> "none", closer |-> "none", by |-> NoCreate, lapsed |-> FALSE]]
  /\ negotiated = [t \in Creates |-> "none"]
  /\ listed = {} /\ creating = {} /\ opening = {} /\ ended = "no" /\ upsets = 0

InFlight(t) == create[t].at \notin {"idle", "failed", "done"}
Upset == upsets < MaxUpsets /\ upsets' = upsets + 1
GoesTo(t, at) == create' = [create EXCEPT ![t].at = at]
RegistryClosed == ended # "no"

------------------------------------------------------------------------------
(* BrowserBinding.close *)

\* A close that finds another at work, or done, returns at once.
Closable(b) == binding[b].life = "live"

\* The binding with its close begun by a create, by itself, by a request or at the end.
BeginsClosing(b, closer, t) == [binding EXCEPT ![b].life = "closing", ![b].closer = closer, ![b].by = t]

\* The presentations are retired and what was heard is flushed.
CloseFlushes(b) ==
  /\ binding[b].life = "closing" /\ binding[b].closer # "gone"
  /\ binding' = [binding EXCEPT ![b].life = "closed"]
  /\ UNCHANGED <<create, negotiated, listed, creating, opening, ended, upsets>>

\* The browser's session is closed, or its deadline cuts that short; a request then takes
\* the binding off the list.
CloseEnds(b) ==
  /\ binding[b].life = "closed" /\ binding[b].closer \notin {"none", "gone"}
  /\ \E how \in {"closed", "cut"} : negotiated' = [negotiated EXCEPT ![b] = how]
  /\ binding' = [binding EXCEPT ![b].closer = "none"]
  /\ listed' = (IF binding[b].closer = "request" THEN listed \ {b} ELSE listed)
  /\ UNCHANGED <<create, creating, opening, ended, upsets>>

\* The pump or the lease fails, or the browser asks for the close.
CloseAsked(b, closer) ==
  /\ Closable(b) /\ Upset /\ binding' = BeginsClosing(b, closer, NoCreate)
  /\ UNCHANGED <<create, negotiated, listed, creating, opening, ended>>

\* A request to close what is being closed only takes it off the list.
Unlist(b) ==
  /\ b \in listed /\ binding[b].life \in {"closing", "closed"} /\ Upset /\ listed' = listed \ {b}
  /\ UNCHANGED <<create, binding, negotiated, creating, opening, ended>>

Lapse(b) ==
  /\ binding[b].life = "live" /\ ~binding[b].lapsed /\ Upset
  /\ binding' = [binding EXCEPT ![b].lapsed = TRUE]
  /\ UNCHANGED <<create, negotiated, listed, creating, opening, ended>>

------------------------------------------------------------------------------
(* create *)

AskFor(t, c) ==
  /\ create[t].at = "idle" /\ ~RegistryClosed
  /\ create' = [create EXCEPT ![t].at = "admitting", ![t].conn = c]
  /\ UNCHANGED <<binding, negotiated, listed, creating, opening, ended, upsets>>

\* What a sweep takes off the list, and what a create replaces.
Due(todo) == {b \in todo : binding[b].life = "closed" \/ binding[b].lapsed}
Same(t, todo) == {b \in todo : create[b].conn = create[t].conn}

\* One close of a sweep: the create waits for it.
Closes(t, at, todo, b) ==
  /\ create' = [create EXCEPT ![t].at = at, ![t].todo = todo \ {b}, ![t].waits = b]
  /\ binding' = BeginsClosing(b, "create", t)

\* The closed and the lapsed are swept; then the connection is taken, without a wait.
Sweep(t, todo, list) ==
  IF \E b \in Due(todo) : Closable(b)
  THEN /\ \E b \in Due(todo) : Closable(b) /\ Closes(t, "sweeping", todo, b)
       /\ listed' = list /\ UNCHANGED <<creating, opening>>
  ELSE LET left == list \ Due(todo)
           room == Cardinality(left) + Cardinality(creating) < MaxBindings
       IN  /\ listed' = left /\ UNCHANGED binding
           /\ create' = [create EXCEPT ![t].at = (IF room THEN "negotiating" ELSE "failed"),
                                       ![t].todo = {}, ![t].waits = NoCreate]
           /\ creating' = (IF room THEN creating \union {create[t].conn} ELSE creating)
           /\ opening' = (IF room THEN opening \union {t} ELSE opening)

\* The authority is read: a connection that is being made is busy.
Admitted(t) ==
  /\ create[t].at = "admitting" /\ create[t].conn \notin creating
  /\ Sweep(t, listed, listed) /\ UNCHANGED <<negotiated, ended, upsets>>

NotAdmitted(t) ==
  /\ create[t].at = "admitting"
  /\ \/ create[t].conn \in creating /\ UNCHANGED upsets
     \/ Upset
  /\ GoesTo(t, "failed") /\ UNCHANGED <<binding, negotiated, listed, creating, opening, ended>>

\* The finally: the connection is free again, whoever else creates for it.
\* Variant: a create that failed keeps the connection.
FreesOnSuccess(t, ok) == /\ creating' = (IF ok THEN creating \ {create[t].conn} ELSE creating)
                         /\ opening' = opening \ {t}
Frees(t, ok) == /\ creating' = creating \ {create[t].conn}
                /\ opening' = opening \ {t}

\* Variant: the end of the registry is not looked at again.
StillOpenNot == TRUE
StillOpen == ~RegistryClosed

\* The provider has answered: there is a call, and its sideband is dialled.
Negotiated(t) ==
  /\ create[t].at = "negotiating" /\ ~create[t].cancelled
  /\ \/ /\ negotiated' = [negotiated EXCEPT ![t] = "called"]
        /\ GoesTo(t, "dialling") /\ UNCHANGED <<creating, opening, upsets>>
     \/ /\ Upset /\ GoesTo(t, "failed") /\ Frees(t, FALSE) /\ UNCHANGED negotiated
  /\ UNCHANGED <<binding, listed, ended>>

\* open_session: a dial that fails leaves no session to close.
SidebandOpens(t) ==
  /\ create[t].at = "dialling" /\ ~create[t].cancelled
  /\ \/ /\ negotiated' = [negotiated EXCEPT ![t] = "open"] /\ UNCHANGED upsets
        /\ GoesTo(t, IF StillOpen THEN "rechecking" ELSE "letting go")
     \/ Upset /\ GoesTo(t, "letting go") /\ UNCHANGED negotiated
  /\ UNCHANGED <<binding, listed, creating, opening, ended>>

\* The bindings of the same connection are replaced; the last step lists the new one.
ReplacePrevious(t, todo, list) ==
  IF \E b \in Same(t, todo) : Closable(b)
  THEN /\ \E b \in Same(t, todo) : Closable(b) /\ Closes(t, "replacing", todo, b)
       /\ listed' = list /\ UNCHANGED <<creating, opening>>
  ELSE /\ listed' = (list \ Same(t, todo)) \union {t} /\ Frees(t, TRUE)
       /\ create' = [create EXCEPT ![t].at = "done", ![t].todo = {}, ![t].waits = NoCreate]
       /\ binding' = [binding EXCEPT ![t].life = "live"]

\* The authority is read again, which may refuse now.
Rechecked(t) ==
  /\ create[t].at = "rechecking" /\ ~create[t].cancelled
  /\ \/ ReplacePrevious(t, listed, listed) /\ UNCHANGED upsets
     \/ Upset /\ GoesTo(t, "letting go") /\ UNCHANGED <<binding, listed, creating, opening>>
  /\ UNCHANGED <<negotiated, ended>>

\* The close it waited for has ended: the binding leaves the list.
Swept(t) ==
  /\ create[t].at \in {"sweeping", "replacing"} /\ ~create[t].cancelled
  /\ binding[create[t].waits].closer = "none"
  /\ LET list == listed \ {create[t].waits}
     IN  IF create[t].at = "sweeping" THEN Sweep(t, create[t].todo, list) ELSE ReplacePrevious(t, create[t].todo, list)
  /\ UNCHANGED <<negotiated, ended, upsets>>

\* Variant: the session of a create that failed is left to itself.
LetsGoNot(t) == UNCHANGED negotiated
LetsGo(t) == IF negotiated[t] = "open" THEN \E how \in {"closed", "cut"} : negotiated' = [negotiated EXCEPT ![t] = how]
                                       ELSE UNCHANGED negotiated

LetGo(t) ==
  /\ create[t].at = "letting go" /\ ~create[t].cancelled
  /\ LetsGo(t) /\ GoesTo(t, "failed") /\ Frees(t, FALSE)
  /\ UNCHANGED <<binding, listed, ended, upsets>>

------------------------------------------------------------------------------
(* close_all, at the end of the router *)

CloseAll ==
  /\ ended = "no" /\ ended' = "ending"
  /\ create' = [t \in Creates |-> [create[t] EXCEPT !.cancelled = t \in opening, !.gathered = t \in opening]]
  /\ binding' = [b \in Creates |-> IF b \in listed /\ Closable(b) THEN BeginsClosing(b, "end", NoCreate)[b] ELSE binding[b]]
  /\ UNCHANGED <<negotiated, listed, creating, opening, upsets>>

\* A create is cancelled where it waits: the close it was in stays half done, and
\* what it has negotiated is let go, unless that was what it waited for.
CreateCancelled(t) ==
  /\ create[t].cancelled
  /\ binding' = (IF create[t].at = "replacing" /\ binding[create[t].waits].by = t /\ binding[create[t].waits].closer # "none"
                 THEN [binding EXCEPT ![create[t].waits].closer = "gone"] ELSE binding)
  /\ IF create[t].at \in {"dialling", "rechecking", "replacing"}
     THEN /\ create' = [create EXCEPT ![t].at = "letting go", ![t].cancelled = FALSE, ![t].waits = NoCreate, ![t].todo = {}]
          /\ UNCHANGED <<creating, opening>>
     ELSE create' = [create EXCEPT ![t].at = "failed", ![t].cancelled = FALSE] /\ Frees(t, FALSE)
  /\ UNCHANGED <<negotiated, listed, ended, upsets>>

CloseAllEnds ==
  /\ ended = "ending" /\ \A t \in Creates : create[t].gathered => ~InFlight(t)
  /\ \A b \in Creates : binding[b].closer # "end"
  /\ ended' = "ended" /\ listed' = {}
  /\ UNCHANGED <<create, binding, negotiated, creating, opening, upsets>>

RegistryNext ==
  \/ CloseAll \/ CloseAllEnds
  \/ \E t \in Creates : \/ \E c \in Connections : AskFor(t, c)
                        \/ Admitted(t) \/ NotAdmitted(t) \/ Swept(t) \/ Negotiated(t) \/ SidebandOpens(t) \/ Rechecked(t) \/ Unlist(t)
                        \/ LetGo(t) \/ CreateCancelled(t) \/ CloseFlushes(t) \/ CloseEnds(t) \/ Lapse(t)
                        \/ CloseAsked(t, "itself") \/ CloseAsked(t, "request")

RegistrySpec == RegistryInit /\ [][RegistryNext]_registryVars

------------------------------------------------------------------------------
RegistryTypeOK ==
  /\ listed \subseteq Creates /\ opening \subseteq Creates /\ creating \subseteq Connections
  /\ \A t \in Creates : create[t].todo \subseteq Creates /\ (binding[t].life = "live" => create[t].at = "done")

(* A session that is open at the provider has an owner who will close it:    *)
(* the create that negotiated it, the list, or the close at work.  Only what *)
(* the end cancels in the middle of a close has none.  What a deadline cut   *)
(* short has none either, and is not listed as live: it was asked to close   *)
(* by an owner who gave it up.                                               *)
SessionsAreOwned ==
  \A t \in Creates :
    /\ negotiated[t] = "open" =>
         \/ InFlight(t)
         \/ t \in listed /\ binding[t].life = "live"
         \/ binding[t].closer \notin {"none", "gone"}
         \/ RegistryClosed /\ (binding[t].closer = "gone" \/ create[t].at = "failed")
    /\ negotiated[t] = "cut" => binding[t].life = "closed" \/ create[t].at = "failed"

(* A connection is never refused as busy when no create is at work for it.   *)
NeverLockedOut == \A c \in creating : \E t \in Creates : InFlight(t) /\ create[t].conn = c

\* What every state of the registry keeps: every open session is owned, and no connection is
\* locked out.
RegistrySafe == RegistryTypeOK /\ SessionsAreOwned /\ NeverLockedOut

(* Once the registry is closed no create lists a session any more, wherever  *)
(* it was when the end came.                                                 *)
NothingOpensAfterTheEnd == [][RegistryClosed => listed' \subseteq listed]_registryVars

(* (Refuted: a create looks whether its connection is taken before it waits  *)
(* for the closes of its sweep, and takes it after: two go on, and each      *)
(* replaces what it saw listed before the other was.  Needs four creates.)   *)
(* A connection has one live session.                                        *)
OneSessionEach ==
  \A s, t \in listed : binding[s].life = "live" /\ binding[t].life = "live" /\ create[s].conn = create[t].conn => s = t

(* (Refuted: the deadline of the browser's close cuts the session's own wait  *)
(* short, before its cleanup; and what is called without a sideband is never  *)
(* closed.)                                                                   *)
(* A session whose owner is through with it is closed.                        *)
OwnersRelease ==
  \A t \in Creates : create[t].at = "failed" \/ (binding[t].life = "closed" /\ binding[t].closer = "none") =>
    negotiated[t] \in {"none", "closed"}

(* (Refuted: the close of the end finds a close begun and returns at once,    *)
(* without waiting for it, and one whose create was cancelled never ends.)   *)
(* Once close_all is through, every session that was listed is closed.       *)
EndClosesAll == ended = "ended" => \A b \in Creates : binding[b].life # "none" => negotiated[b] = "closed"

-----------------------------------------------------------------------------
(* The wire of one session.                                                *)

CONSTANTS LiveSenders, \* tasks that send
          QueueSize,   \* MAX_EVENT_QUEUE
          MaxWire      \* bound: events of the wire

ASSUME QueueSizeIsTwo == QueueSize \in Nat /\ QueueSize >= 2

VARIABLES life,      \* self.state
          joins,     \* connect: where its task is
          reader,    \* _pump
          flags,     \* _ready, session_id, _finished, finalized
          line,      \* the transport
          events,    \* the queue, and whether the consumer had the terminal event
          sender,    \* LiveSenders -> where it is
          leaves,    \* close: where its task is
          wired,     \* events of the wire
          broke      \* ghost: a send has failed

wireLiveVars == <<life, joins, reader, flags, line, events, sender, leaves, wired, broke>>

WireLiveInit ==
  /\ life = "new" /\ joins = "none" /\ reader = "none" /\ line = "none"
  /\ flags = [ready |-> FALSE, named |-> FALSE, finished |-> FALSE, final |-> FALSE]
  /\ events = [queue |-> <<>>, ended |-> FALSE]
  /\ sender = [s \in LiveSenders |-> "idle"] /\ leaves = "none" /\ wired = 0 /\ broke = FALSE

Terminal == {"failed", "closed"}

\* _emit: an overflow empties the queue and is raised.
Overflows == Len(events.queue) = QueueSize
Put(e) == events' = [events EXCEPT !.queue = Append(@, e)]

\* _fail: the oldest events make room for the two that are told.
FailTold(queue) ==
  LET kept == IF Len(queue) > QueueSize - 2 THEN SubSeq(queue, Len(queue) - QueueSize + 3, Len(queue)) ELSE queue
  IN  events' = [events EXCEPT !.queue = kept \o <<"failure", "end">>]

FailWith(queue) ==
  /\ life' = "failed" /\ FailTold(queue)
  /\ flags' = [flags EXCEPT !.ready = TRUE, !.finished = TRUE]

\* _cleanup: the reader is cancelled and the transport closed.
Cleanup == /\ reader' = (IF reader = "reads" THEN "cancelled" ELSE reader)
           /\ line' = (IF line = "open" THEN "closed" ELSE line)

------------------------------------------------------------------------------
(* connect and attach_transport *)

Join ==
  /\ life = "new" /\ leaves = "none" /\ life' = "connecting" /\ joins' = "dials"
  /\ UNCHANGED <<reader, flags, line, events, sender, leaves, wired, broke>>

Dialled ==
  /\ joins = "dials" /\ leaves # "cancels" /\ line' = "open" /\ reader' = "reads" /\ joins' = "waits"
  /\ UNCHANGED <<life, flags, events, sender, leaves, wired, broke>>

\* Variant: readiness is enough.
ReadyIsEnough == TRUE
StillThere == life \notin Terminal /\ flags.named

Joined ==
  /\ joins = "waits" /\ leaves # "cancels" /\ flags.ready /\ StillThere
  /\ life' = "connected" /\ joins' = "done"
  /\ UNCHANGED <<reader, flags, line, events, sender, leaves, wired, broke>>

\* The dial fails, the session is over before it is ready, or time runs out.
JoinFails ==
  /\ leaves # "cancels" /\ \/ joins = "dials"
                           \/ joins = "waits" /\ (~flags.ready \/ ~StillThere)
  /\ life' = "failed" /\ joins' = "raised" /\ Cleanup
  /\ UNCHANGED <<flags, events, sender, leaves, wired, broke>>

\* The browser's session: its sideband is open already.
Attach ==
  /\ life = "new" /\ leaves = "none" /\ life' = "connected" /\ line' = "open" /\ reader' = "reads"
  /\ flags' = [flags EXCEPT !.ready = TRUE, !.named = TRUE] /\ Put("ready")
  /\ UNCHANGED <<joins, sender, leaves, wired, broke>>

------------------------------------------------------------------------------
(* _pump *)

Reads == reader = "reads" /\ wired < MaxWire /\ wired' = wired + 1

\* A failure in the pump: told, and the transport closed.
PumpFails(queue) == FailWith(queue) /\ reader' = "ended" /\ line' = "closed"

SessionStarted ==
  /\ Reads
  /\ CASE flags.ready -> UNCHANGED <<life, flags, events, reader, line>>
       [] ~flags.ready /\ Overflows ->
            /\ life' = "failed" /\ FailTold(<<>>) /\ reader' = "ended" /\ line' = "closed"
            /\ flags' = [flags EXCEPT !.ready = TRUE, !.named = TRUE, !.finished = TRUE]
       [] OTHER -> /\ flags' = [flags EXCEPT !.ready = TRUE, !.named = TRUE]
                   /\ Put("ready") /\ UNCHANGED <<life, reader, line>>
  /\ UNCHANGED <<joins, sender, leaves, broke>>

OnItem ==
  /\ Reads
  /\ IF Overflows THEN PumpFails(<<>>) ELSE Put("item") /\ UNCHANGED <<life, flags, reader, line>>
  /\ UNCHANGED <<joins, sender, leaves, broke>>

\* session.closed: the transport is left to close.
OnFinal ==
  /\ Reads
  /\ IF Overflows
     THEN /\ life' = "failed" /\ FailTold(<<>>) /\ reader' = "ended" /\ line' = "closed"
          /\ flags' = [flags EXCEPT !.ready = TRUE, !.finished = TRUE, !.final = TRUE]
     ELSE /\ life' = "closed" /\ Put("end") /\ reader' = "ended" /\ UNCHANGED line
          /\ flags' = [flags EXCEPT !.ready = TRUE, !.finished = TRUE, !.final = TRUE]
  /\ UNCHANGED <<joins, sender, leaves, broke>>

\* The provider fails for good, or the line is lost.
OnLost ==
  /\ Reads /\ PumpFails(events.queue) /\ UNCHANGED <<joins, sender, leaves, broke>>

Consume ==
  /\ ~events.ended /\ events.queue # <<>>
  /\ events' = [queue |-> Tail(events.queue), ended |-> Head(events.queue) = "end"]
  /\ UNCHANGED <<life, joins, reader, flags, line, sender, leaves, wired, broke>>

------------------------------------------------------------------------------
(* send and close *)

WireSend(s) ==
  /\ sender[s] = "idle" /\ life = "connected" /\ leaves = "none" /\ sender' = [sender EXCEPT ![s] = "sends"]
  /\ UNCHANGED <<life, joins, reader, flags, line, events, leaves, wired, broke>>

SendEnds(s) ==
  /\ sender[s] = "sends" /\ sender' = [sender EXCEPT ![s] = "done"]
  /\ \/ UNCHANGED <<life, broke>>
     \/ life' = "failed" /\ broke' = TRUE
  /\ UNCHANGED <<joins, reader, flags, line, events, leaves, wired>>

\* Variant: a connect that is under way is left alone.
JoiningNot == FALSE
Joining == joins \in {"dials", "waits"}

Leave ==
  /\ leaves = "none" /\ leaves' = (IF Joining THEN "cancels" ELSE "looks")
  /\ UNCHANGED <<life, joins, reader, flags, line, events, sender, wired, broke>>

JoinCancelled ==
  /\ leaves = "cancels" /\ Cleanup /\ life' = "closed" /\ joins' = "raised" /\ leaves' = "looks"
  /\ UNCHANGED <<flags, events, sender, wired, broke>>

\* A session that is up is asked to close, and its end waited for.
AsksToClose ==
  /\ leaves = "looks" /\ life = "connected" /\ ~flags.final /\ leaves' = "waits"
  /\ UNCHANGED <<life, joins, reader, flags, line, events, sender, wired, broke>>

\* The close cannot be sent, or its end does not come in time: told, and cleaned up.
Unconfirmed ==
  /\ \/ leaves = "looks" /\ life = "connected" /\ ~flags.final
     \/ leaves = "waits" /\ ~flags.finished
  /\ leaves' = "done" /\ FailWith(events.queue) /\ Cleanup
  /\ UNCHANGED <<joins, sender, wired, broke>>

\* The caller's deadline cancels the close while it sends or waits: its cleanup is
\* skipped, and since it has begun no later close does it.
CutShort ==
  /\ leaves = "waits" /\ leaves' = "cut"
  /\ UNCHANGED <<life, joins, reader, flags, line, events, sender, wired, broke>>

\* Variant: the end is told whether it was told or not.
TellsAlways == TRUE
Tells == life \notin Terminal

PeerLeft ==
  /\ \/ leaves = "waits" /\ flags.finished
     \/ leaves = "looks" /\ (life # "connected" \/ flags.final)
  /\ leaves' = "done" /\ Cleanup
  /\ IF Tells THEN life' = "closed" /\ Put("end") ELSE UNCHANGED <<life, events>>
  /\ UNCHANGED <<joins, flags, sender, wired, broke>>

WireLiveNext ==
  \/ Join \/ Dialled \/ Joined \/ JoinFails \/ Attach \/ SessionStarted \/ OnItem \/ OnFinal \/ OnLost \/ Consume
  \/ \E s \in LiveSenders : WireSend(s) \/ SendEnds(s)
  \/ Leave \/ JoinCancelled \/ AsksToClose \/ Unconfirmed \/ CutShort \/ PeerLeft

WireLiveSpec == WireLiveInit /\ [][WireLiveNext]_wireLiveVars

------------------------------------------------------------------------------
WireLiveTypeOK ==
  /\ life \in {"new", "connecting", "connected"} \union Terminal
  /\ Len(events.queue) <= QueueSize /\ wired \in 0..MaxWire

EndsTold == Len(SelectSeq(events.queue, LAMBDA e : e = "end")) + (IF events.ended THEN 1 ELSE 0)

(* A session that calls itself connected has a reader at work: its end will  *)
(* be noticed.                                                               *)
ConnectedIsRead == life = "connected" => reader = "reads" /\ line = "open"

(* A close that is through has released all there was, whatever it met; one  *)
(* that its caller's deadline cut short is not through.                      *)
LeftIsReleased == leaves = "done" => ~(joins \in {"dials", "waits"}) /\ reader # "reads" /\ line # "open"

(* The consumer is told the end once, and of a session that was up and is    *)
(* over it is told, unless a send failed first.                              *)
EndIsToldOnce ==
  /\ EndsTold <= 1
  /\ reader \in {"ended", "cancelled"} /\ joins \in {"none", "done"} /\ leaves \in {"none", "done"} /\ ~broke => EndsTold = 1

\* What every state of a wire keeps: a joined peer is read, one that left is released, and
\* the end is told once.
LiveWireSafe == WireLiveTypeOK /\ ConnectedIsRead /\ LeftIsReleased /\ EndIsToldOnce

(* (Refuted: a deadline that cuts the wait for the provider's answer skips   *)
(* the cleanup; the socket stays open, and a further close returns at once.) *)
(* Whoever closes a session leaves no open socket.                           *)
ClosersRelease == leaves \in {"done", "cut"} => line # "open"

(* (Refuted: a failed send marks the session failed without telling it; the  *)
(* close then finds nothing to do, and the consumer waits for ever.)         *)
(* A session that was up and is closed has told its consumer so.             *)
EndIsAlwaysTold == leaves = "done" /\ reader # "none" /\ joins \in {"none", "done"} => EndsTold = 1

(* (Refuted: a send in flight fails after the session was closed in order.)  *)
(* A session that ended in order does not become a failed one.               *)
ClosedIsNotFailed == [][life = "closed" => life' = "closed"]_wireLiveVars
=============================================================================
