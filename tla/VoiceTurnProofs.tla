------------------------- MODULE VoiceTurnProofs -------------------------
(***************************************************************************)
(* Proofs about VoiceTurn: TurnSafe and AnnouncementsWait hold for every   *)
(* number of responses, calls, operator turns, announcements and unread    *)
(* events, and for any choice of the responses that go unnamed.            *)
(*                                                                         *)
(* The argument is about what the receiver can know.  Events of a response *)
(* are read in the order they were sent, so from its start to its last     *)
(* event a response is either the one the ledger holds or one that a       *)
(* second barge-in released (LedgerInv); all that is queued, answered,     *)
(* played or announced follows from which responses are in progress.       *)
(***************************************************************************)
EXTENDS VoiceTurn, TLAPS

InLine == 1 .. Len(line)
Unread == 1 .. Len(inbox)

\* The receiver has read that response r started.
Begun(r) == r <= started /\ \A i \in Unread : ~(inbox[i].type = "started" /\ inbox[i].id = r)

\* The provider is done with r, and the receiver has read all of it.
Over(r) == open # r /\ \A i \in Unread : inbox[i].id # r

InProgress(r) == Begun(r) /\ ~Over(r)

\* Events are unread in the order of the responses, each from its start to its end; a
\* response that lost no event ends with its terminal.
OpenIsLatest == open \in {0, started}

EventsKnown ==
  \A i \in Unread :
    /\ inbox[i].id <= started
    /\ inbox[i].type \in {"started", "audio", "call", "done"} => inbox[i].id # 0
    /\ inbox[i].type = "call" => inbox[i].nth # 0
    /\ inbox[i].type = "done" => inbox[i].id # open

EventsSorted ==
  \A i, j \in Unread : i < j /\ inbox[i].id # 0 /\ inbox[j].id # 0 =>
    /\ inbox[i].id <= inbox[j].id
    /\ inbox[i].type = "done" \/ inbox[j].type = "started" => inbox[i].id < inbox[j].id

BegunFirst ==
  \A r \in Responses : Begun(r) => \A i \in Unread : inbox[i].id # 0 => r <= inbox[i].id

EndsCome == used.lost = 0 =>
  \A i \in Unread : inbox[i].id # 0 /\ inbox[i].id # open =>
    \E j \in Unread : j >= i /\ inbox[j].type = "done" /\ inbox[j].id = inbox[i].id

OrderInv == OpenIsLatest /\ EventsKnown /\ EventsSorted /\ BegunFirst /\ EndsCome

\* What the ledger knows: a response in progress is the one it holds, unless it gave it up.
LedgerInv ==
  /\ active # None => Begun(active)
  /\ speaker # 0 => Begun(speaker)
  /\ \A r \in settled \union cutOff : Begun(r)
  /\ released \subseteq settled \union Unnamed
  /\ \A r \in Responses : InProgress(r) =>
       r \in released \/ (inFlight /\ (r \notin Unnamed => active = r))

\* A named response that was spoken over is settled or over; so is one that is still heard,
\* unless the ledger holds it.
SilenceInv ==
  /\ \A r \in cutOff \ Unnamed : r \in settled \/ Over(r)
  /\ speaker # 0 /\ speaker \notin Unnamed =>
       speaker \in settled \/ Over(speaker) \/ (inFlight /\ active = speaker)

\* The tasks that wait for the socket are those with a batch at the lock.
Queued ==
  \A t \in Tasks : awaiting[t] = "socket" <=>
    \/ writing # None /\ writing.by = t
    \/ \E i \in InLine : line[i].by = t

\* A task has one batch there.
OneEach ==
  /\ \A i, j \in InLine : line[i].by = line[j].by => i = j
  /\ writing # None => \A i \in InLine : line[i].by # writing.by

\* What each task may wait for; the worker sends nothing while it executes a call.
Waits ==
  /\ \A t \in {"worker", "microphone"} : awaiting[t] \in {"nothing", "socket"}
  /\ awaiting["pump"] # "flush" /\ awaiting["receiver"] # "opening"
  /\ running # 0 => awaiting["worker"] = "nothing"

LineInv == Queued /\ OneEach /\ Waits

\* One batch of results is sent at a time: the one in the making, complete and closed.
IsFlush(b) ==
  /\ b.kind = "results" =>
      /\ b.by \in {"receiver", "worker"}
      /\ b.calls = [i \in 1 .. Len(outputs) |-> outputs[i].call]
      /\ Flushable(outputs, closed)
  /\ b.kind = "announcement" => b.by = "pump"

OneFlush ==
  /\ writing # None => IsFlush(writing)
  /\ \A i \in InLine : IsFlush(line[i])
  /\ writing # None /\ writing.kind = "results" => \A i \in InLine : line[i].kind # "results"
  /\ \A i, j \in InLine : line[i].kind = "results" /\ line[j].kind = "results" => i = j

\* A call that is queued or executed has no output yet, and is so once.
Pending ==
  /\ \A i \in 1 .. Len(tools) : tools[i] # running /\ ~outputs[tools[i]].ready
  /\ \A i, j \in 1 .. Len(tools) : tools[i] = tools[j] => i = j
  /\ running # 0 => ~outputs[running].ready
  /\ closed => outputs # <<>>

FlushInv == OneFlush /\ Pending

\* The calls read are those answered and those of the batch in the making, in order.
InWireOrder ==
  /\ Len(wired) = Len(answered) + Len(outputs)
  /\ \A i \in 1 .. Len(answered) : wired[i] = answered[i].call
  /\ \A i \in 1 .. Len(outputs) : wired[Len(answered) + i] = outputs[i].call

\* The batch in the making is of one response, which is over when it is closed; the
\* responses answered are over, in one batch each, and no call of them is left.
WholeInv == used.lost = 0 =>
  /\ \A i, j \in 1 .. Len(outputs) : outputs[i].call[1] = outputs[j].call[1]
  /\ \A i \in 1 .. Len(outputs) :
       Begun(outputs[i].call[1]) /\ (closed <=> Over(outputs[i].call[1]))
  /\ \A k \in 1 .. Len(answered) :
       Begun(answered[k].call[1]) /\ Over(answered[k].call[1]) /\ answered[k].batch < k
  /\ \A i \in 1 .. Len(outputs) : \A k \in 1 .. Len(answered) :
       outputs[i].call[1] # answered[k].call[1]
  /\ \A i, j \in 1 .. Len(answered) :
       answered[i].batch = answered[j].batch <=> answered[i].call[1] = answered[j].call[1]

\* While an announcement is in line, what calls tools was released, or waits behind it.
WaitInv ==
  \A i \in InLine : line[i].kind = "announcement" =>
    /\ \A k \in 1 .. Len(outputs) : outputs[k].call[1] \in released
    /\ \A r \in Responses : InProgress(r) =>
         r \in released \/ \E j \in InLine : j > i /\ line[j].by = "receiver"

\* Counters, and the slots of a batch in the making.
Counts == [calls: 0 .. MaxCalls, audio: 0 .. MaxAudio, speech: 0 .. MaxSpeech,
           lost: 0 .. MaxLost, announcements: 0 .. MaxAnnouncements]
Slots == [call: Calls, ready: BOOLEAN]
Answered == [call: Calls, batch: Nat]

ServerOK ==
  /\ open \in Responses \union {0} /\ muted \in BOOLEAN /\ started \in 0 .. MaxResponses
  /\ inbox \in Seq(Events)
  /\ used \in Counts

LedgerOK ==
  /\ inFlight \in BOOLEAN /\ unnamedCut \in BOOLEAN
  /\ active \in Responses \union {None} /\ settled \subseteq Responses
  /\ speaker \in Responses \union {0}
  /\ cutOff \subseteq Responses /\ released \subseteq Responses

BatchOK ==
  /\ outputs \in Seq(Slots) /\ closed \in BOOLEAN
  /\ tools \in Seq(Nat) /\ Len(tools) <= ToolQueueSize
  /\ \A i \in 1 .. Len(tools) : tools[i] \in 1 .. Len(outputs)
  /\ running \in 0 .. Len(outputs)
  /\ wired \in Seq(Calls) /\ answered \in Seq(Answered)

LineTyped ==
  /\ writing \in Batches \union {None} /\ line \in Seq(Batches)
  /\ awaiting \in [Tasks -> {"nothing", "socket", "flush", "opening"}]
  /\ restart \in BOOLEAN

SocketOK == LineTyped /\ dead \in BOOLEAN

TurnInv ==
  /\ ServerOK /\ LedgerOK /\ BatchOK /\ SocketOK /\ OrderInv /\ LedgerInv /\ SilenceInv
  /\ LineInv /\ FlushInv /\ InWireOrder /\ WholeInv /\ WaitInv
  /\ SpokenOverStaysSilent

-----------------------------------------------------------------------------
(* Sequences.                                                              *)

\* A queue that gains an element at its end.
LEMMA Appended ==
  ASSUME NEW T, NEW s \in Seq(T), NEW e \in T
  PROVE  /\ Append(s, e) \in Seq(T) /\ Len(Append(s, e)) = Len(s) + 1
         /\ \A i \in 1 .. Len(s) : Append(s, e)[i] = s[i]
         /\ Append(s, e)[Len(s) + 1] = e
         /\ \A i \in 1 .. Len(Append(s, e)) : i \in 1 .. Len(s) \/ i = Len(s) + 1
OBVIOUS

\* A queue that loses its head.
LEMMA HeadTaken ==
  ASSUME NEW T, NEW s \in Seq(T), s # <<>>
  PROVE  /\ Head(s) \in T /\ Head(s) = s[1] /\ 1 \in 1 .. Len(s)
         /\ Tail(s) \in Seq(T) /\ Len(Tail(s)) = Len(s) - 1
         /\ \A i \in 1 .. Len(Tail(s)) : i + 1 \in 1 .. Len(s) /\ Tail(s)[i] = s[i + 1]
         /\ \A i \in 1 .. Len(s) : i = 1 \/ (i - 1 \in 1 .. Len(Tail(s)) /\ s[i] = Tail(s)[i - 1])
OBVIOUS

-----------------------------------------------------------------------------
(* Types.                                                                  *)

\* An element of a sequence.
LEMMA Element ==
  ASSUME NEW T, NEW s \in Seq(T)
  PROVE  Len(s) \in Nat /\ \A i \in 1 .. Len(s) : s[i] \in T
OBVIOUS

\* A sequence with one element replaced.
LEMMA Replaced ==
  ASSUME NEW T, NEW s \in Seq(T), NEW k \in 1 .. Len(s), NEW e \in T
  PROVE  [s EXCEPT ![k] = e] \in Seq(T) /\ Len([s EXCEPT ![k] = e]) = Len(s)
OBVIOUS

\* A counter below its bound counts one more.
LEMMA Counted ==
  ASSUME used \in Counts
  PROVE  /\ used.lost \in Nat
         /\ used.calls < MaxCalls => [used EXCEPT !.calls = used.calls + 1] \in Counts
         /\ used.audio < MaxAudio => [used EXCEPT !.audio = used.audio + 1] \in Counts
         /\ used.speech < MaxSpeech => [used EXCEPT !.speech = used.speech + 1] \in Counts
         /\ used.lost < MaxLost => [used EXCEPT !.lost = used.lost + 1] \in Counts
         /\ used.announcements < MaxAnnouncements =>
              [used EXCEPT !.announcements = used.announcements + 1] \in Counts
BY VoiceTurnAssumption DEF Counts

\* The batches the tasks send are batches.
LEMMA BatchTyped ==
  ASSUME NEW t \in Tasks, NEW kind \in {"input", "reply", "cancel", "results", "announcement"}
  PROVE  Batch(t, kind) \in Batches /\ Batch(t, kind).by = t /\ Batch(t, kind).kind = kind
         /\ Batch(t, kind) # None
<1>1. <<>> \in Seq(Calls)
  OBVIOUS
<1>2. Batch(t, kind) = [by |-> t, kind |-> kind, calls |-> <<>>]
  BY DEF Batch
<1>3. Batch(t, kind) \in Batches
  BY <1>1, <1>2 DEF Batches
<1> QED
  BY <1>2, <1>3, NoneAssumption

\* So is the batch of results, and it answers the calls it was made from.
LEMMA ResultsTyped ==
  ASSUME NEW t \in Tasks, NEW outs \in Seq(Slots)
  PROVE  Results(t, outs) \in Batches /\ Results(t, outs).by = t /\ Results(t, outs).kind = "results"
         /\ Results(t, outs).calls = [i \in 1 .. Len(outs) |-> outs[i].call]
         /\ Results(t, outs) # None
<1> DEFINE calls == [i \in 1 .. Len(outs) |-> outs[i].call]
<1>0. Len(outs) \in Nat
  BY Element
<1>a. \A i \in 1 .. Len(outs) : outs[i] \in Slots
  BY Element
<1>1. \A i \in 1 .. Len(outs) : outs[i].call \in Calls
  BY <1>a DEF Slots
<1>2. calls \in Seq(Calls)
  BY <1>0, <1>1
<1>b. Results(t, outs) = [Batch(t, "results") EXCEPT !.calls = calls]
  BY DEF Results
<1> HIDE DEF calls
<1>3. Results(t, outs) = [by |-> t, calls |-> calls, kind |-> "results"]
  BY <1>b DEF Batch
<1>4. Results(t, outs) \in Batches
  BY <1>2, <1>3 DEF Batches
<1>5. Results(t, outs).calls = calls /\ Results(t, outs).by = t /\ Results(t, outs).kind = "results"
  BY <1>3
<1>6. Results(t, outs) # None
  BY <1>4, NoneAssumption
<1> QED
  BY <1>4, <1>5, <1>6 DEF calls

-----------------------------------------------------------------------------
(* The provider and its events.                                            *)

\* The provider sends event e: a response starts, goes on or ends, or e is of none.
Sends(e) ==
  /\ inbox' = Append(inbox, e) /\ used'.lost = used.lost
  /\ \/ /\ e.type = "started" /\ e.id = started + 1
        /\ open = 0 /\ open' = e.id /\ started' = e.id
     \/ /\ e.type \in {"audio", "call"} /\ e.id = open /\ (e.type = "call" => e.nth # 0)
        /\ open # 0 /\ UNCHANGED <<open, started>>
     \/ /\ e.type = "done" /\ e.id = open
        /\ open # 0 /\ open' = 0 /\ UNCHANGED started
     \/ /\ e.type \in {"speech", "error"} /\ e.id = 0
        /\ UNCHANGED <<open, started>>

Loses == open # 0 /\ open' = 0 /\ UNCHANGED <<started, inbox>> /\ used'.lost = used.lost + 1

ReadsNext == inbox # <<>> /\ inbox' = Tail(inbox) /\ UNCHANGED <<open, started>> /\ used'.lost = used.lost

Quiet == UNCHANGED <<open, started, inbox>> /\ used'.lost = used.lost

Sent == (\E e \in Events : Sends(e)) \/ Loses \/ Quiet

Moves == Sent \/ ReadsNext

Reading == ReadStarted \/ ReadAudio \/ ReadSpeech \/ ReadCall \/ ReadDone \/ ReadError

\* How a step moves the responses through their course.
Course ==
  /\ used'.lost = 0 => used.lost = 0
  /\ \A r \in Responses :
       /\ Begun(r) => Begun(r)'
       /\ Over(r) /\ r <= started => Over(r)'
       /\ InProgress(r)' => InProgress(r) \/ (ReadStarted /\ Head(inbox).id = r)
       /\ used'.lost = 0 /\ ~Over(r) /\ Over(r)' => ReadDone
  /\ ReadStarted =>
       /\ Head(inbox).id \in Responses /\ ~Begun(Head(inbox).id)
       /\ \A r \in Responses :
            (r = Head(inbox).id => Begun(r)') /\ (InProgress(r)' => r = Head(inbox).id)
  /\ ReadAudio \/ ReadCall \/ ReadDone =>
       Head(inbox).id \in Responses /\ InProgress(Head(inbox).id)
  /\ ReadDone => \A r \in Responses : ~InProgress(r)'

\* Every step is one of these, and keeps the provider typed.
LEMMA ServerMoves ==
  ServerOK /\ [Next]_vars => ServerOK' /\ (Sent \/ (ReadsNext /\ Reading))
<1> SUFFICES ASSUME ServerOK, [Next]_vars
             PROVE  ServerOK' /\ (Sent \/ (ReadsNext /\ Reading))
  OBVIOUS
<1> USE DEF ServerOK
<1>1. CASE ProviderStarts
  <2>1. started + 1 \in Responses /\ 0 \in 0 .. MaxCalls
    BY <1>1, VoiceTurnAssumption DEF ProviderStarts, Responses
  <2>2. PICK e \in Events : e = Event("started", started + 1, 0)
    BY <2>1 DEF Event, Events
  <2>3. inbox' = Append(inbox, e) /\ UNCHANGED used
    BY <1>1, <2>2 DEF ProviderStarts, Emit
  <2>4. e.type = "started" /\ e.id = started + 1
    BY <2>2 DEF Event
  <2>a. open = 0 /\ open' = started + 1 /\ started' = started + 1 /\ muted' =
     FALSE
    BY <1>1 DEF ProviderStarts
  <2>5. /\ open = 0 /\ open' = started + 1 /\ started' = started + 1
        /\ started' \in 0 .. MaxResponses
    BY <2>a, <2>1 DEF Responses
  <2>b. muted' \in BOOLEAN
    BY <2>a
  <2>6. Sends(e)
    BY <2>3, <2>4, <2>5 DEF Sends
  <2>7. inbox' \in Seq(Events)
    BY <2>3
  <2> QED
    BY <2>1, <2>3, <2>5, <2>6, <2>7, <2>b DEF Sent
<1>2. CASE ProviderCalls
  <2>1. used.calls < MaxCalls /\ used' = [used EXCEPT !.calls = used.calls +
     1]
    BY <1>2 DEF ProviderCalls, Use
  <2>2. used' \in Counts /\ used'.lost = used.lost
    BY <2>1, Counted DEF Counts
  <2>3. used'.calls \in 0 .. MaxCalls /\ used'.calls # 0
    BY <2>1, VoiceTurnAssumption DEF Counts
  <2>4. PICK n \in 0 .. MaxCalls : n = used'.calls /\ n # 0
    BY <2>3
  <2>5. PICK e \in Events : e = Event("call", open, n)
    BY DEF Event, Events
  <2>6. e.type = "call" /\ e.id = open /\ e.nth # 0
    BY <2>5, <2>4 DEF Event
  <2>7. open # 0 /\ UNCHANGED <<open, muted, started>> /\ inbox' =
     Append(inbox, e)
    BY <1>2, <2>5, <2>4 DEF ProviderCalls, Emit
  <2>8. Sends(e)
    BY <2>2, <2>6, <2>7 DEF Sends
  <2>9. inbox' \in Seq(Events)
    BY <2>7
  <2> QED
    BY <2>2, <2>7, <2>8, <2>9 DEF Sent
<1>3. CASE ProviderSpeaks
  <2>1. used.audio < MaxAudio /\ used' = [used EXCEPT !.audio = used.audio +
     1]
    BY <1>3 DEF ProviderSpeaks, Use
  <2>2. used' \in Counts /\ used'.lost = used.lost
    BY <2>1, Counted DEF Counts
  <2>3. 0 \in 0 .. MaxCalls
    BY VoiceTurnAssumption
  <2>5. PICK e \in Events : e = Event("audio", open, 0)
    BY <2>3 DEF Event, Events
  <2>6. e.type = "audio" /\ e.id = open
    BY <2>5 DEF Event
  <2>7. open # 0 /\ UNCHANGED <<open, muted, started>> /\ inbox' =
     Append(inbox, e)
    BY <1>3, <2>5 DEF ProviderSpeaks, Emit
  <2>8. Sends(e)
    BY <2>2, <2>6, <2>7 DEF Sends
  <2>9. inbox' \in Seq(Events)
    BY <2>7
  <2> QED
    BY <2>2, <2>7, <2>8, <2>9 DEF Sent
<1>4. CASE ProviderFinishes
  <2>2. CASE Emit(Event("done", open, 0)) /\ UNCHANGED used
    <3>0. 0 \in 0 .. MaxCalls
      BY VoiceTurnAssumption
    <3>1. PICK e \in Events : e = Event("done", open, 0)
      BY <3>0 DEF Event, Events
    <3>2. e.type = "done" /\ e.id = open
      BY <3>1 DEF Event
    <3>3. open # 0 /\ open' = 0 /\ UNCHANGED <<started, muted>> /\ inbox' =
       Append(inbox, e)
      BY <1>4, <2>2, <3>1 DEF ProviderFinishes, Emit
    <3>4. Sends(e)
      BY <2>2, <3>2, <3>3 DEF Sends
    <3>5. inbox' \in Seq(Events)
      BY <3>3
    <3> QED
      BY <2>2, <3>3, <3>4, <3>5 DEF Sent
  <2>3. CASE Use("lost", MaxLost) /\ UNCHANGED inbox
    <3>1. used' \in Counts
      <4>1. used.lost < MaxLost /\ used' = [used EXCEPT !.lost = used.lost +
         1]
        BY <2>3 DEF Use
      <4>2. [used EXCEPT !.lost = used.lost + 1] \in Counts
        BY <4>1, Counted
      <4> QED
        BY <4>1, <4>2
    <3>2. Loses
      <4>1. used' = [used EXCEPT !.lost = used.lost + 1]
        BY <2>3 DEF Use
      <4>2. used'.lost = used.lost + 1
        BY <4>1 DEF Counts
      <4> QED
        BY <1>4, <2>3, <4>2 DEF ProviderFinishes, Loses
    <3> QED
      BY <1>4, <3>1, <3>2, <2>3 DEF ProviderFinishes, Sent
  <2> QED
    BY <1>4, <2>2, <2>3 DEF ProviderFinishes
<1>5. CASE OperatorSpeaks
  <2>1. used.speech < MaxSpeech /\ used' = [used EXCEPT !.speech = used.speech
     + 1]
    BY <1>5 DEF OperatorSpeaks, Use
  <2>2. used' \in Counts /\ used'.lost = used.lost
    BY <2>1, Counted DEF Counts
  <2>3. 0 \in 0 .. MaxCalls
    BY VoiceTurnAssumption
  <2>5. PICK e \in Events : e = Event("speech", 0, 0)
    BY <2>3 DEF Event, Events
  <2>6. e.type = "speech" /\ e.id = 0
    BY <2>5 DEF Event
  <2>7. UNCHANGED <<open, muted, started>> /\ inbox' = Append(inbox, e)
    BY <1>5, <2>5 DEF OperatorSpeaks, Emit
  <2>8. Sends(e)
    BY <2>2, <2>6, <2>7 DEF Sends
  <2>9. inbox' \in Seq(Events)
    BY <2>7
  <2> QED
    BY <2>2, <2>7, <2>8, <2>9 DEF Sent
<1>6. CASE SpeakerDrains
  BY <1>6 DEF SpeakerDrains, server, Sent, Quiet
<1>7. CASE Grant
  BY <1>7 DEF Grant, server, Sent, Quiet
<1>8. CASE SendReturns
  <2>0. Received(writing) /\ UNCHANGED used
    BY <1>8 DEF SendReturns
  <2>a. CASE UNCHANGED <<open, muted, started, inbox>>
    BY <2>0, <2>a DEF Sent, Quiet
  <2>b. CASE /\ open = 0 /\ started < MaxResponses /\ UNCHANGED used
             /\ open' = started + 1 /\ started' = started + 1
             /\ muted' = (writing.kind = "announcement")
             /\ Emit(Event("started", open', 0))
    <3>1. started + 1 \in Responses /\ 0 \in 0 .. MaxCalls
      BY <2>b, VoiceTurnAssumption DEF Responses
    <3>2. PICK e \in Events : e = Event("started", started + 1, 0)
      BY <3>1 DEF Event, Events
    <3>3. inbox' = Append(inbox, e) /\ UNCHANGED used
      BY <2>b, <3>2 DEF Emit
    <3>4. e.type = "started" /\ e.id = started + 1
      BY <3>2 DEF Event
    <3>5. /\ open = 0 /\ open' = started + 1 /\ started' = started + 1
          /\ muted' \in BOOLEAN /\ started' \in 0 .. MaxResponses
      BY <2>b, <3>1 DEF Responses
    <3>6. Sends(e)
      BY <3>3, <3>4, <3>5 DEF Sends
    <3>7. inbox' \in Seq(Events)
      BY <3>3
    <3> QED
      BY <3>1, <3>3, <3>5, <3>6, <3>7 DEF Sent
  <2>c. CASE Emit(Event("error", 0, 0)) /\ UNCHANGED <<open, muted, started>>
    <3>0. 0 \in 0 .. MaxCalls
      BY VoiceTurnAssumption
    <3>1. PICK e \in Events : e = Event("error", 0, 0)
      BY <3>0 DEF Event, Events
    <3>2. e.type = "error" /\ e.id = 0
      BY <3>1 DEF Event
    <3>3. inbox' = Append(inbox, e)
      BY <2>c, <3>1 DEF Emit
    <3>4. Sends(e)
      BY <2>0, <2>c, <3>2, <3>3 DEF Sends
    <3>5. inbox' \in Seq(Events)
      BY <3>3
    <3> QED
      BY <2>0, <2>c, <3>4, <3>5 DEF Sent
  <2> QED
    BY <2>0, <2>a, <2>b, <2>c DEF Received
<1>9. CASE MicrophoneSends
  BY <1>9 DEF MicrophoneSends, server, Sent, Quiet
<1>10. CASE ReadStarted
  <2>1. ReadsNext /\ UNCHANGED <<muted, used>>
    BY <1>10 DEF ReadStarted, Reads, ReadsNext
  <2>2. inbox' \in Seq(Events)
    BY <2>1 DEF ReadsNext
  <2> QED
    BY <1>10, <2>1, <2>2 DEF ReadsNext, Reading
<1>11. CASE ReadAudio
  <2>1. ReadsNext /\ UNCHANGED <<muted, used>>
    BY <1>11 DEF ReadAudio, Reads, ReadsNext
  <2>2. inbox' \in Seq(Events)
    BY <2>1 DEF ReadsNext
  <2> QED
    BY <1>11, <2>1, <2>2 DEF ReadsNext, Reading
<1>12. CASE ReadSpeech
  <2>1. ReadsNext /\ UNCHANGED <<muted, used>>
    BY <1>12 DEF ReadSpeech, Reads, ReadsNext
  <2>2. inbox' \in Seq(Events)
    BY <2>1 DEF ReadsNext
  <2> QED
    BY <1>12, <2>1, <2>2 DEF ReadsNext, Reading
<1>13. CASE ReadCall
  <2>1. ReadsNext /\ UNCHANGED <<muted, used>>
    BY <1>13 DEF ReadCall, Reads, ReadsNext
  <2>2. inbox' \in Seq(Events)
    BY <2>1 DEF ReadsNext
  <2> QED
    BY <1>13, <2>1, <2>2 DEF ReadsNext, Reading
<1>14. CASE ReadDone
  <2>1. ReadsNext /\ UNCHANGED <<muted, used>>
    BY <1>14 DEF ReadDone, Reads, ReadsNext
  <2>2. inbox' \in Seq(Events)
    BY <2>1 DEF ReadsNext
  <2> QED
    BY <1>14, <2>1, <2>2 DEF ReadsNext, Reading
<1>15. CASE ReadError
  <2>1. ReadsNext /\ UNCHANGED <<muted, used>>
    BY <1>15 DEF ReadError, Reads, ReadsNext
  <2>2. inbox' \in Seq(Events)
    BY <2>1 DEF ReadsNext
  <2> QED
    BY <1>15, <2>1, <2>2 DEF ReadsNext, Reading
<1>16. CASE FlushWaited
  BY <1>16 DEF FlushWaited, server, Sent, Quiet
<1>17. CASE WorkerTakes
  BY <1>17 DEF WorkerTakes, server, Sent, Quiet
<1>18. CASE ToolEnds
  BY <1>18 DEF ToolEnds, server, Sent, Quiet
<1>19. CASE Announce
  <2>1. used' \in Counts /\ used'.lost = used.lost
    <3>1. /\ used.announcements < MaxAnnouncements
          /\ used' = [used EXCEPT !.announcements = used.announcements + 1]
      BY <1>19 DEF Announce, Use
    <3> QED
      BY <3>1, Counted
  <2> QED
    BY <1>19, <2>1 DEF Announce, Sent, Quiet
<1>20. CASE PumpSends
  BY <1>20 DEF PumpSends, server, Sent, Quiet
<1>21. CASE UNCHANGED vars
  BY <1>21 DEF vars, server, Sent, Quiet
<1> QED
  BY <1>1, <1>2, <1>3, <1>4, <1>5, <1>6, <1>7, <1>8, <1>9, <1>10, <1>11,
     <1>12, <1>13, <1>14, <1>15, <1>16, <1>17, <1>18, <1>19, <1>20, <1>21 DEF
        Next

\* An unread event keeps its place, or moves up by one when the head is read.
LEMMA OrderStep == ServerOK /\ ServerOK' /\ OrderInv /\ Moves => OrderInv'
<1> SUFFICES ASSUME ServerOK, ServerOK', OrderInv, Moves PROVE OrderInv'
  OBVIOUS
<1> USE DEF Unread
<1>0. /\ inbox \in Seq(Events) /\ inbox' \in Seq(Events) /\ started \in Nat /\ started' \in Nat
      /\ used.lost \in Nat /\ used'.lost \in Nat
  BY VoiceTurnAssumption DEF ServerOK, Counts
<1>t. /\ \A i \in 1 .. Len(inbox) : inbox[i].id \in Nat
      /\ \A i \in 1 .. Len(inbox') : inbox'[i].id \in Nat
  <2>1. \A e \in Events : e.id \in Nat
    BY DEF Events, Responses
  <2>2. /\ \A i \in 1 .. Len(inbox) : inbox[i] \in Events
        /\ \A i \in 1 .. Len(inbox') : inbox'[i] \in Events
    BY <1>0, Element
  <2> QED
    BY <2>1, <2>2
<1>o. OpenIsLatest /\ EventsKnown /\ EventsSorted /\ BegunFirst /\ EndsCome
  BY DEF OrderInv
<1>1. ASSUME NEW e \in Events, Sends(e) PROVE OrderInv'
  <2>1. /\ Len(inbox') = Len(inbox) + 1 /\ inbox'[Len(inbox) + 1] = e
        /\ \A i \in 1 .. Len(inbox) : inbox'[i] = inbox[i]
        /\ \A i \in 1 .. Len(inbox') : i \in 1 .. Len(inbox) \/ i = Len(inbox) + 1
    BY <1>0, <1>1, Appended DEF Sends
  <2>n. Len(inbox) \in Nat /\ e.id \in Nat
    BY <1>0 DEF Events, Responses
  <2>2. OpenIsLatest'
    BY <1>1, <1>o DEF Sends, OpenIsLatest
  <2>s. /\ started <= started' /\ (e.id # 0 => e.id = started')
        /\ (open' = open \/ open' = 0 \/ (open' = started' /\ started' = started + 1))
        /\ (e.type = "started" => started' = started + 1)
    BY <1>1, <1>0, <1>o DEF Sends, OpenIsLatest
  <2>3. EventsKnown'
    BY <1>0, <1>1, <1>t, <1>o, <2>1, <2>n, <2>s DEF Sends, EventsKnown
  <2>4. EventsSorted'
    BY <1>0, <1>1, <1>t, <1>o, <2>1, <2>n, <2>s DEF Sends, EventsSorted, EventsKnown
  <2>5. BegunFirst'
    BY <1>0, <1>1, <1>t, <1>o, <2>1, <2>n, <2>s DEF Sends, BegunFirst, Begun, Responses
  <2>6. EndsCome'
    BY <1>0, <1>1, <1>t, <1>o, <2>1, <2>n, <2>s DEF Sends, EndsCome
  <2> QED
    BY <2>2, <2>3, <2>4, <2>5, <2>6 DEF OrderInv
<1>2. CASE Loses
  <2>1. inbox' = inbox /\ started' = started /\ open' = 0 /\ used'.lost # 0
    BY <1>2, <1>0 DEF Loses
  <2>2. EventsKnown' /\ EventsSorted' /\ OpenIsLatest'
    BY <1>o, <2>1 DEF EventsKnown, EventsSorted, OpenIsLatest
  <2>3. BegunFirst' /\ EndsCome'
    BY <1>o, <2>1 DEF BegunFirst, Begun, EndsCome
  <2> QED
    BY <2>2, <2>3 DEF OrderInv
<1>3. CASE ReadsNext
  <2>1. /\ Len(inbox') = Len(inbox) - 1 /\ 1 \in 1 .. Len(inbox)
        /\ \A i \in 1 .. Len(inbox') : i + 1 \in 1 .. Len(inbox) /\ inbox'[i] = inbox[i + 1]
        /\ \A i \in 1 .. Len(inbox) : i = 1 \/ (i - 1 \in 1 .. Len(inbox') /\ inbox[i] = inbox'[i - 1])
    BY <1>0, <1>3, HeadTaken DEF ReadsNext
  <2>s. UNCHANGED <<open, started>> /\ used'.lost = used.lost /\ Len(inbox) \in Nat
    BY <1>0, <1>3 DEF ReadsNext
  <2>2. EventsKnown' /\ OpenIsLatest'
    BY <1>o, <2>1, <2>s DEF EventsKnown, OpenIsLatest
  <2>4. EventsSorted'
    <3> SUFFICES ASSUME NEW i \in 1 .. Len(inbox'), NEW j \in 1 .. Len(inbox'), i < j,
                        inbox'[i].id # 0, inbox'[j].id # 0
                 PROVE  /\ inbox'[i].id <= inbox'[j].id
                        /\ inbox'[i].type = "done" \/ inbox'[j].type = "started" =>
                             inbox'[i].id < inbox'[j].id
      BY DEF EventsSorted
    <3>1. i + 1 \in 1 .. Len(inbox) /\ j + 1 \in 1 .. Len(inbox) /\ i + 1 < j + 1
      BY <2>1, <2>s
    <3> QED
      BY <1>o, <2>1, <3>1 DEF EventsSorted
  <2>5. BegunFirst'
    <3> SUFFICES ASSUME NEW r \in Responses, Begun(r)', NEW i \in 1 .. Len(inbox'), inbox'[i].id # 0
                 PROVE  r <= inbox'[i].id
      BY DEF BegunFirst
    <3>1. i + 1 \in 1 .. Len(inbox) /\ inbox[i + 1] = inbox'[i] /\ 1 < i + 1
      BY <2>1, <2>s
    <3>2. CASE Begun(r)
      BY <1>o, <3>1, <3>2 DEF BegunFirst
    <3>3. CASE ~Begun(r)
      <4>1. r <= started
        BY <2>s DEF Begun
      <4>2. PICK k \in 1 .. Len(inbox) : inbox[k].type = "started" /\ inbox[k].id = r
        BY <3>3, <4>1 DEF Begun
      <4>3. k = 1
        BY <2>1, <4>2 DEF Begun
      <4>4. inbox[1].id = r /\ r # 0
        BY <4>2, <4>3 DEF Responses
      <4> QED
        BY <1>o, <2>1, <3>1, <4>4 DEF EventsSorted
    <3> QED
      BY <3>2, <3>3
  <2>6. EndsCome'
    <3> SUFFICES ASSUME used'.lost = 0, NEW i \in 1 .. Len(inbox'), inbox'[i].id # 0, inbox'[i].id # open'
                 PROVE  \E j \in 1 .. Len(inbox') : j >= i /\ inbox'[j].type = "done" /\ inbox'[j].id = inbox'[i].id
      BY DEF EndsCome
    <3>1. i + 1 \in 1 .. Len(inbox) /\ inbox[i + 1] = inbox'[i]
      BY <2>1
    <3>2. PICK j \in 1 .. Len(inbox) : j >= i + 1 /\ inbox[j].type = "done" /\ inbox[j].id = inbox[i + 1].id
      BY <1>o, <2>s, <3>1 DEF EndsCome
    <3>3. j - 1 \in 1 .. Len(inbox') /\ inbox'[j - 1] = inbox[j] /\ j - 1 >= i
      BY <2>1, <2>s, <3>2
    <3> QED
      BY <3>1, <3>2, <3>3
  <2> QED
    BY <2>2, <2>4, <2>5, <2>6 DEF OrderInv
<1>4. CASE Quiet
  <2>1. inbox' = inbox /\ started' = started /\ open' = open /\ used'.lost = used.lost
    BY <1>4 DEF Quiet
  <2>2. EventsKnown' /\ EventsSorted' /\ OpenIsLatest'
    BY <1>o, <2>1 DEF EventsKnown, EventsSorted, OpenIsLatest
  <2>3. BegunFirst' /\ EndsCome'
    BY <1>o, <2>1 DEF BegunFirst, Begun, EndsCome
  <2> QED
    BY <2>2, <2>3 DEF OrderInv
<1> QED
  BY <1>1, <1>2, <1>3, <1>4 DEF Moves, Sent

\* One response is in progress at a time; what is read of one is read while it is.
LEMMA InOrder ==
  ServerOK /\ OrderInv =>
    /\ \A q, r \in Responses : InProgress(q) /\ InProgress(r) => q = r
    /\ inbox # <<>> /\ Head(inbox).type \in {"audio", "call", "done"} =>
         Head(inbox).id \in Responses /\ InProgress(Head(inbox).id)
    /\ inbox # <<>> /\ Head(inbox).type = "started" =>
         Head(inbox).id \in Responses /\ ~Begun(Head(inbox).id)
<1> SUFFICES ASSUME ServerOK, OrderInv
             PROVE  /\ \A q, r \in Responses : InProgress(q) /\ InProgress(r) => q = r
                    /\ inbox # <<>> /\ Head(inbox).type \in {"audio", "call", "done"} =>
                         Head(inbox).id \in Responses /\ InProgress(Head(inbox).id)
                    /\ inbox # <<>> /\ Head(inbox).type = "started" =>
                         Head(inbox).id \in Responses /\ ~Begun(Head(inbox).id)
  OBVIOUS
<1> USE DEF Unread
<1>0. inbox \in Seq(Events) /\ started \in Nat
  BY VoiceTurnAssumption DEF ServerOK
<1>o. OpenIsLatest /\ EventsKnown /\ EventsSorted /\ BegunFirst
  BY DEF OrderInv
<1>1. ASSUME NEW q \in Responses, NEW r \in Responses, InProgress(q), InProgress(r), q < r PROVE FALSE
  <2>1. Begun(q) /\ Begun(r) /\ ~Over(q) /\ q # 0
    BY <1>1 DEF InProgress, Responses
  <2>2. open = q \/ \E i \in 1 .. Len(inbox) : inbox[i].id = q
    BY <2>1 DEF Over
  <2>3. open = q
    BY <1>1, <1>o, <2>1, <2>2 DEF BegunFirst, Responses
  <2>4. q = started /\ r <= started
    BY <1>o, <2>1, <2>3 DEF OpenIsLatest, Begun
  <2> QED
    BY <1>0, <1>1, <2>4 DEF Responses
<1>2. \A q, r \in Responses : InProgress(q) /\ InProgress(r) => q = r
  BY <1>1 DEF Responses
<1>3. ASSUME inbox # <<>> PROVE Head(inbox) = inbox[1] /\ 1 \in 1 .. Len(inbox) /\ inbox[1] \in Events
  BY <1>0, <1>3, HeadTaken
<1>4. \A e \in Events : e.id # 0 => e.id \in Responses
  BY DEF Events
<1>5. ASSUME inbox # <<>>, Head(inbox).type \in {"audio", "call", "done"}
      PROVE  Head(inbox).id \in Responses /\ InProgress(Head(inbox).id)
  <2>1. PICK r \in Responses : r = inbox[1].id /\ r <= started
    BY <1>o, <1>3, <1>4, <1>5 DEF EventsKnown
  <2>2. \A i \in 1 .. Len(inbox) : ~(inbox[i].type = "started" /\ inbox[i].id = r)
    <3> SUFFICES ASSUME NEW i \in 1 .. Len(inbox), inbox[i].type = "started", inbox[i].id = r PROVE FALSE
      OBVIOUS
    <3>1. i # 1 /\ 1 < i /\ r # 0
      BY <1>3, <1>5 DEF Responses
    <3>2. inbox[1].id < inbox[i].id
      BY <1>o, <1>3, <1>5, <2>1, <3>1 DEF EventsSorted
    <3> QED
      BY <2>1, <3>2 DEF Responses
  <2>3. Begun(r) /\ ~Over(r)
    BY <1>3, <1>5, <2>1, <2>2 DEF Begun, Over
  <2> QED
    BY <1>3, <1>5, <2>1, <2>3 DEF InProgress
<1>6. ASSUME inbox # <<>>, Head(inbox).type = "started"
      PROVE  Head(inbox).id \in Responses /\ ~Begun(Head(inbox).id)
  <2>1. inbox[1].type = "started" /\ inbox[1].id # 0 /\ Head(inbox).id = inbox[1].id
    BY <1>o, <1>3, <1>6 DEF EventsKnown
  <2> QED
    BY <1>3, <1>4, <1>6, <2>1 DEF Begun
<1> QED
  BY <1>2, <1>5, <1>6

\* What was begun stays so, what is over stays over; only a start begins a response.
LEMMA Stays ==
  ServerOK /\ ServerOK' /\ OrderInv /\ Moves =>
    \A r \in Responses :
      /\ Begun(r) => Begun(r)'
      /\ Over(r) /\ r <= started => Over(r)'
      /\ InProgress(r)' => \/ InProgress(r)
                           \/ ReadsNext /\ Head(inbox).type = "started" /\ Head(inbox).id = r
<1> SUFFICES ASSUME ServerOK, ServerOK', OrderInv, Moves, NEW r \in Responses
             PROVE  /\ Begun(r) => Begun(r)'
                    /\ Over(r) /\ r <= started => Over(r)'
                    /\ InProgress(r)' =>
                         \/ InProgress(r)
                         \/ ReadsNext /\ Head(inbox).type = "started" /\ Head(inbox).id = r
  OBVIOUS
<1> USE DEF Unread
<1>0. /\ inbox \in Seq(Events) /\ inbox' \in Seq(Events) /\ started \in Nat /\ started' \in Nat
      /\ r \in Nat /\ r # 0
  BY VoiceTurnAssumption DEF ServerOK, Responses
<1>1. ASSUME NEW e \in Events, Sends(e)
      PROVE  (Begun(r) => Begun(r)') /\ (Over(r) /\ r <= started => Over(r)') /\ (Begun(r)' => Begun(r))
  <2>1. /\ Len(inbox') = Len(inbox) + 1 /\ inbox'[Len(inbox) + 1] = e
        /\ \A i \in 1 .. Len(inbox) : inbox'[i] = inbox[i]
        /\ \A i \in 1 .. Len(inbox') : i \in 1 .. Len(inbox) \/ i = Len(inbox) + 1
    BY <1>0, <1>1, Appended DEF Sends
  <2>2. \A i \in 1 .. Len(inbox) : i \in 1 .. Len(inbox')
    BY <1>0, <2>1
  <2>3. Len(inbox) + 1 \in 1 .. Len(inbox')
    BY <1>0, <2>1
  <2>4. Begun(r) => Begun(r)'
    BY <1>0, <1>1, <2>1 DEF Sends, Begun
  <2>5. Over(r) /\ r <= started => Over(r)'
    BY <1>0, <1>1, <2>1 DEF Sends, Over
  <2>6. Begun(r)' => Begun(r)
    BY <1>0, <1>1, <2>1, <2>2, <2>3 DEF Sends, Begun
  <2> QED
    BY <2>4, <2>5, <2>6
<1>2. CASE Loses \/ Quiet
  <2>1. inbox' = inbox /\ started' = started /\ (open' = open \/ open' = 0)
    BY <1>2 DEF Loses, Quiet
  <2> QED
    BY <1>0, <2>1 DEF InProgress, Begun, Over
<1>3. CASE ReadsNext
  <2>1. /\ Head(inbox) = inbox[1] /\ UNCHANGED <<open, started>>
        /\ \A i \in 1 .. Len(inbox') : i + 1 \in 1 .. Len(inbox) /\ inbox'[i] = inbox[i + 1]
        /\ \A i \in 1 .. Len(inbox) : i = 1 \/ (i - 1 \in 1 .. Len(inbox') /\ inbox[i] = inbox'[i - 1])
    BY <1>0, <1>3, HeadTaken DEF ReadsNext
  <2>2. (Begun(r) => Begun(r)') /\ (Over(r) => Over(r)')
    BY <2>1 DEF Begun, Over
  <2>3. Begun(r)' /\ ~Begun(r) => Head(inbox).type = "started" /\ Head(inbox).id = r
    BY <2>1 DEF Begun
  <2> QED
    BY <1>3, <2>1, <2>2, <2>3 DEF InProgress, Begun
<1>4. (\E e \in Events : Sends(e)) =>
        (Begun(r) => Begun(r)') /\ (Over(r) /\ r <= started => Over(r)') /\ (Begun(r)' => Begun(r))
  BY <1>1
<1>5. CASE \E e \in Events : Sends(e)
  <2>1. Begun(r) => r <= started
    BY DEF Begun
  <2> QED
    BY <1>4, <1>5, <2>1 DEF InProgress
<1> QED
  BY <1>2, <1>3, <1>5 DEF Moves, Sent

\* A response that is read to start is then the one in progress; none is after a terminal.
LEMMA Turnover ==
  ServerOK /\ ServerOK' /\ OrderInv /\ OrderInv' /\ ReadsNext =>
    /\ Head(inbox).type = "started" => \A r \in Responses :
         /\ r = Head(inbox).id => Begun(r)'
         /\ InProgress(r)' => r = Head(inbox).id
    /\ Head(inbox).type = "done" => \A q \in Responses : ~InProgress(q)'
<1> SUFFICES ASSUME ServerOK, ServerOK', OrderInv, OrderInv', ReadsNext
             PROVE  /\ Head(inbox).type = "started" => \A r \in Responses :
                         /\ r = Head(inbox).id => Begun(r)'
                         /\ InProgress(r)' => r = Head(inbox).id
                    /\ Head(inbox).type = "done" => \A q \in Responses : ~InProgress(q)'
  OBVIOUS
<1> USE DEF Unread
<1>0. inbox \in Seq(Events) /\ started \in Nat
  BY VoiceTurnAssumption DEF ServerOK
<1>o. OpenIsLatest /\ EventsKnown /\ EventsSorted /\ BegunFirst
  BY DEF OrderInv
<1>1. /\ Head(inbox) = inbox[1] /\ 1 \in 1 .. Len(inbox) /\ UNCHANGED <<open, started>>
      /\ \A i \in 1 .. Len(inbox') : i + 1 \in 1 .. Len(inbox) /\ inbox'[i] = inbox[i + 1]
      /\ inbox[1] \in Events /\ Len(inbox) \in Nat
  BY <1>0, HeadTaken DEF ReadsNext
<1>2. Moves
  BY DEF Moves
<1>3. ASSUME Head(inbox).type \in {"started", "done"}, NEW q \in Responses, InProgress(q)', q # Head(inbox).id
      PROVE  FALSE
  <2>1. Begun(q) /\ ~Over(q)
    <3>1. InProgress(q) \/ Head(inbox).id = q
      BY <1>2, <1>3, Stays
    <3> QED
      BY <1>3, <3>1 DEF InProgress
  <2>2. PICK r \in Responses : r = inbox[1].id /\ r <= started
    BY <1>o, <1>1, <1>3 DEF EventsKnown, Events
  <2>3. q < r
    <3>1. q <= r
      BY <1>o, <1>1, <2>1, <2>2 DEF BegunFirst, Responses
    <3> QED
      BY <1>1, <1>3, <2>2, <3>1 DEF Responses
  <2>4. open # q
    BY <1>0, <1>o, <2>2, <2>3 DEF OpenIsLatest, Responses
  <2>5. PICK i \in 1 .. Len(inbox) : inbox[i].id = q
    BY <2>1, <2>4 DEF Over
  <2>6. 1 < i /\ inbox[i].id # 0 /\ inbox[1].id # 0
    BY <2>2, <2>3, <2>5 DEF Responses
  <2>7. inbox[1].id <= inbox[i].id
    BY <1>o, <1>1, <2>6 DEF EventsSorted
  <2> QED
    BY <2>2, <2>3, <2>5, <2>7 DEF Responses
<1>4. ASSUME Head(inbox).type = "started", NEW r \in Responses, r = Head(inbox).id PROVE Begun(r)'
  <2>1. r = inbox[1].id /\ r <= started
    BY <1>o, <1>1, <1>4 DEF EventsKnown
  <2>2. ASSUME NEW i \in 1 .. Len(inbox'), inbox'[i].type = "started", inbox'[i].id = r PROVE FALSE
    <3>1. i + 1 \in 1 .. Len(inbox) /\ 1 < i + 1 /\ inbox[i + 1] = inbox'[i] /\ r # 0
      BY <1>1 DEF Responses
    <3>2. inbox[1].id < inbox[i + 1].id
      BY <1>o, <1>1, <2>1, <2>2, <3>1 DEF EventsSorted
    <3> QED
      BY <2>1, <2>2, <3>1, <3>2 DEF Responses
  <2> QED
    BY <1>1, <2>1, <2>2 DEF Begun
<1>5. ASSUME Head(inbox).type = "done" PROVE \A q \in Responses : ~InProgress(q)'
  <2> SUFFICES ASSUME NEW q \in Responses, InProgress(q)' PROVE FALSE
    OBVIOUS
  <2>1. q = inbox[1].id /\ q # 0 /\ inbox[1].type = "done"
    BY <1>1, <1>3, <1>5 DEF Responses
  <2>2. open # q
    BY <1>o, <1>1, <2>1 DEF EventsKnown
  <2>3. PICK i \in 1 .. Len(inbox') : inbox'[i].id = q
    BY <1>1, <2>2 DEF InProgress, Over
  <2>4. i + 1 \in 1 .. Len(inbox) /\ 1 < i + 1 /\ inbox[i + 1].id = q
    BY <1>1, <2>3
  <2>5. inbox[1].id < inbox[i + 1].id
    BY <1>o, <1>1, <2>1, <2>4 DEF EventsSorted
  <2> QED
    BY <2>1, <2>4, <2>5 DEF Responses
<1> QED
  BY <1>3, <1>4, <1>5

\* Without a loss a response is over when its terminal is read.
LEMMA Ended ==
  ServerOK /\ ServerOK' /\ OrderInv /\ Moves /\ used'.lost = 0 =>
    /\ used.lost = 0
    /\ \A r \in Responses : ~Over(r) /\ Over(r)' => ReadsNext /\ Head(inbox).type = "done"
<1> SUFFICES ASSUME ServerOK, ServerOK', OrderInv, Moves, used'.lost = 0
             PROVE  /\ used.lost = 0
                    /\ \A r \in Responses : ~Over(r) /\ Over(r)' => ReadsNext /\ Head(inbox).type = "done"
  OBVIOUS
<1> USE DEF Unread
<1>0. inbox \in Seq(Events) /\ used.lost \in Nat
  BY VoiceTurnAssumption DEF ServerOK, Counts
<1>1. used.lost = 0 /\ ~Loses
  BY <1>0 DEF Moves, Sent, Loses, Quiet, Sends, ReadsNext
<1>2. ASSUME NEW r \in Responses, ~Over(r), Over(r)' PROVE ReadsNext /\ Head(inbox).type = "done"
  <2>1. ASSUME NEW e \in Events, Sends(e) PROVE FALSE
    <3>1. /\ Len(inbox') = Len(inbox) + 1 /\ inbox'[Len(inbox) + 1] = e /\ Len(inbox) \in Nat
          /\ \A i \in 1 .. Len(inbox) : inbox'[i] = inbox[i]
      BY <1>0, <2>1, Appended DEF Sends
    <3>2. Len(inbox) + 1 \in 1 .. Len(inbox') /\ \A i \in 1 .. Len(inbox) : i \in 1 .. Len(inbox')
      BY <3>1
    <3>3. open = r
      BY <1>2, <3>1, <3>2 DEF Over
    <3>4. r # 0
      BY DEF Responses
    <3> QED
      BY <1>2, <2>1, <3>1, <3>2, <3>3, <3>4 DEF Over, Sends
  <2>2. ~Quiet
    BY <1>2 DEF Quiet, Over
  <2>3. ReadsNext
    BY <1>1, <2>1, <2>2 DEF Moves, Sent
  <2>4. /\ Head(inbox) = inbox[1] /\ open' = open
        /\ \A i \in 1 .. Len(inbox) : i = 1 \/ (i - 1 \in 1 .. Len(inbox') /\ inbox[i] = inbox'[i - 1])
    BY <1>0, <2>3, HeadTaken DEF ReadsNext
  <2>5. PICK i \in 1 .. Len(inbox) : inbox[i].id = r
    BY <1>2, <2>4 DEF Over
  <2>6. inbox[i].id # 0 /\ inbox[i].id # open
    BY <1>2, <2>4, <2>5 DEF Over, Responses
  <2>7. PICK j \in 1 .. Len(inbox) : j >= i /\ inbox[j].type = "done" /\ inbox[j].id = r
    BY <1>1, <2>5, <2>6 DEF OrderInv, EndsCome
  <2>8. j = 1
    BY <1>2, <2>4, <2>7 DEF Over
  <2> QED
    BY <2>3, <2>4, <2>7, <2>8
<1> QED
  BY <1>1, <1>2

\* Of a response the receiver learns in order: its start, what is in it, its end.
LEMMA CourseHolds == ServerOK /\ OrderInv /\ [Next]_vars => ServerOK' /\ OrderInv' /\ Course
<1> SUFFICES ASSUME ServerOK, OrderInv, [Next]_vars PROVE ServerOK' /\ OrderInv' /\ Course
  OBVIOUS
<1>1. ServerOK' /\ (Sent \/ (ReadsNext /\ Reading))
  BY ServerMoves
<1>2. Moves
  BY <1>1 DEF Moves
<1>3. OrderInv'
  BY <1>1, <1>2, OrderStep
<1>4. ReadsNext => ~Sent
  <2> SUFFICES ASSUME ReadsNext, Sent PROVE FALSE
    OBVIOUS
  <2>1. inbox \in Seq(Events) /\ Len(inbox) \in Nat
    BY Element DEF ServerOK
  <2>2. Len(inbox') = Len(inbox) - 1
    BY <2>1, HeadTaken DEF ReadsNext
  <2>3. inbox' = inbox \/ \E e \in Events : inbox' = Append(inbox, e)
    BY DEF Sent, Sends, Loses, Quiet
  <2> QED
    BY <2>1, <2>2, <2>3, Appended
<1>5. ReadsNext => Reading
  BY <1>1, <1>4
<1>6. /\ ReadStarted => Head(inbox).type = "started" /\ ReadsNext
      /\ ReadAudio => Head(inbox).type = "audio" /\ ReadsNext
      /\ ReadSpeech => Head(inbox).type = "speech" /\ ReadsNext
      /\ ReadCall => Head(inbox).type = "call" /\ ReadsNext
      /\ ReadDone => Head(inbox).type = "done" /\ ReadsNext
      /\ ReadError => Head(inbox).type = "error" /\ ReadsNext
  BY DEF ReadStarted, ReadAudio, ReadSpeech, ReadCall, ReadDone, ReadError, Reads, ReadsNext
<1>7. /\ ReadsNext /\ Head(inbox).type = "started" => ReadStarted
      /\ ReadsNext /\ Head(inbox).type = "done" => ReadDone
  BY <1>5, <1>6 DEF Reading
<1>8. \A r \in Responses :
        /\ Begun(r) => Begun(r)'
        /\ Over(r) /\ r <= started => Over(r)'
        /\ InProgress(r)' => InProgress(r) \/ (ReadStarted /\ Head(inbox).id = r)
  BY <1>1, <1>2, <1>7, Stays
<1>9. used'.lost = 0 =>
        used.lost = 0 /\ \A r \in Responses : ~Over(r) /\ Over(r)' => ReadDone
  BY <1>1, <1>2, <1>7, Ended
<1>10. ReadStarted =>
         /\ Head(inbox).id \in Responses /\ ~Begun(Head(inbox).id)
         /\ \A r \in Responses :
              (r = Head(inbox).id => Begun(r)') /\ (InProgress(r)' => r = Head(inbox).id)
  BY <1>1, <1>3, <1>6, Turnover, InOrder DEF ReadsNext
<1>11. ReadAudio \/ ReadCall \/ ReadDone =>
         Head(inbox).id \in Responses /\ InProgress(Head(inbox).id)
  BY <1>6, InOrder DEF ReadsNext
<1>12. ReadDone => \A r \in Responses : ~InProgress(r)'
  BY <1>1, <1>3, <1>6, Turnover
<1>13. \A r \in Responses : used'.lost = 0 /\ ~Over(r) /\ Over(r)' => ReadDone
  BY <1>9
<1>14. used'.lost = 0 => used.lost = 0
  BY <1>9
<1> QED
  BY <1>1, <1>3, <1>8, <1>10, <1>11, <1>12, <1>13, <1>14 DEF Course

-----------------------------------------------------------------------------
(* The ledger.                                                             *)

LedgerKept == UNCHANGED <<ledger, cutOff, released>>

\* The ledger changes where the receiver reads, and where the speaker drains.
LEMMA LedgerMoves ==
  LedgerOK /\ [Next]_vars => LedgerKept \/ SpeakerDrains \/ ReadStarted \/ ReadAudio \/
    ReadSpeech \/ ReadDone
<1> SUFFICES ASSUME LedgerOK, [Next]_vars
             PROVE  LedgerKept \/ SpeakerDrains \/ ReadStarted \/ ReadAudio \/
                      ReadSpeech \/ ReadDone
  OBVIOUS
<1>1. CASE ProviderStarts
  BY <1>1 DEF ProviderStarts, LedgerKept, history
<1>2. CASE ProviderCalls
  BY <1>2 DEF ProviderCalls, LedgerKept, history
<1>3. CASE ProviderSpeaks
  BY <1>3 DEF ProviderSpeaks, LedgerKept, history
<1>4. CASE ProviderFinishes
  BY <1>4 DEF ProviderFinishes, LedgerKept, history
<1>5. CASE OperatorSpeaks
  BY <1>5 DEF OperatorSpeaks, LedgerKept, history
<1>6. CASE SpeakerDrains
  BY <1>6
<1>7. CASE Grant
  BY <1>7 DEF Grant, LedgerKept, history
<1>8. CASE SendReturns
  BY <1>8 DEF SendReturns, LedgerKept, history
<1>9. CASE MicrophoneSends
  BY <1>9 DEF MicrophoneSends, LedgerKept, history
<1>10. CASE ReadStarted
  BY <1>10
<1>11. CASE ReadAudio
  BY <1>11
<1>12. CASE ReadSpeech
  BY <1>12
<1>13. CASE ReadCall
  BY <1>13 DEF ReadCall, LedgerKept, history
<1>14. CASE ReadDone
  BY <1>14
<1>15. CASE ReadError
  BY <1>15 DEF ReadError, LedgerKept, history
<1>16. CASE FlushWaited
  BY <1>16 DEF FlushWaited, LedgerKept, history
<1>17. CASE WorkerTakes
  BY <1>17 DEF WorkerTakes, LedgerKept, history
<1>18. CASE ToolEnds
  BY <1>18 DEF ToolEnds, LedgerKept, history
<1>19. CASE Announce
  BY <1>19 DEF Announce, LedgerKept, history
<1>20. CASE PumpSends
  BY <1>20 DEF PumpSends, LedgerKept, history
<1>21. CASE UNCHANGED vars
  BY <1>21 DEF vars, history, LedgerKept
<1> QED
  BY <1>1, <1>2, <1>3, <1>4, <1>5, <1>6, <1>7, <1>8, <1>9, <1>10, <1>11,
     <1>12, <1>13, <1>14, <1>15, <1>16, <1>17, <1>18, <1>19, <1>20, <1>21 DEF
        Next

\* What the receiver knows of the responses stays true.
LEMMA LedgerStep ==
  ServerOK /\ OrderInv /\ LedgerOK /\ LedgerInv /\ [Next]_vars => LedgerOK' /\
    LedgerInv'
<1> SUFFICES ASSUME ServerOK, OrderInv, LedgerOK, LedgerInv, [Next]_vars PROVE LedgerOK' /\ LedgerInv'
  OBVIOUS
<1> DEFINE Held(r) == r \in released \/ (inFlight /\ (r \notin Unnamed => active = r))
<1>c. Course
  BY CourseHolds
<1>b. \A r \in Responses : Begun(r) => Begun(r)'
  BY <1>c DEF Course
<1>p. \A r \in Responses : InProgress(r)' => InProgress(r) \/ (ReadStarted /\ Head(inbox).id = r)
  BY <1>c DEF Course
<1>l. /\ active # None => Begun(active)
      /\ speaker # 0 => Begun(speaker)
      /\ \A r \in settled \union cutOff : Begun(r)
      /\ released \subseteq settled \union Unnamed
      /\ \A r \in Responses : InProgress(r) => Held(r)
  BY DEF LedgerInv
<1>n. None \notin Responses /\ 0 \notin Responses /\ Unnamed \subseteq Responses
  BY NoneAssumption, VoiceTurnAssumption DEF Responses
<1>t. /\ inFlight \in BOOLEAN /\ unnamedCut \in BOOLEAN
      /\ active \in Responses \union {None} /\ settled \subseteq Responses
      /\ speaker \in Responses \union {0}
      /\ cutOff \subseteq Responses /\ released \subseteq Responses
  BY DEF LedgerOK
<1>1. CASE LedgerKept \/ SpeakerDrains
  <2>1. /\ UNCHANGED <<inFlight, active, settled, unnamedCut, cutOff, released>>
        /\ speaker' = speaker \/ speaker' = 0
    BY <1>1 DEF LedgerKept, ledger, SpeakerDrains, history
  <2>2. LedgerOK'
    BY <1>t, <2>1 DEF LedgerOK
  <2>3. ~ReadStarted => \A r \in Responses : InProgress(r)' => Held(r)'
    BY <1>p, <1>l, <2>1
  <2>4. ReadStarted => \A r \in Responses : InProgress(r)' => Held(r)'
    <3> SUFFICES ASSUME ReadStarted, NEW r \in Responses, InProgress(r)', ~InProgress(r) PROVE Held(r)'
      BY <1>l, <2>1
    <3>1. r = Head(inbox).id /\ ~Begun(r)
      BY <1>c DEF Course
    <3>2. IF r \in Unnamed THEN inFlight' ELSE inFlight' /\ active' = r
      BY <1>n, <1>l, <1>t, <2>1, <3>1 DEF ReadStarted, Label
    <3> QED
      BY <3>2
  <2>5. LedgerInv'
    BY <1>b, <1>l, <1>t, <2>1, <2>3, <2>4 DEF LedgerInv
  <2> QED
    BY <2>2, <2>5
<1>2. CASE ReadStarted
  <2>1. PICK s \in Responses : s = Head(inbox).id
    BY <1>2, <1>c DEF Course
  <2>2. ~Begun(s) /\ Begun(s)' /\ \A r \in Responses : InProgress(r)' => r = s
    BY <1>2, <1>c, <2>1 DEF Course
  <2>3. /\ \/ /\ s \in Unnamed /\ inFlight /\ active # None
              /\ UNCHANGED <<inFlight, active, unnamedCut>>
           \/ /\ inFlight' = TRUE /\ active' = Label(s) /\ unnamedCut' = FALSE
        /\ UNCHANGED <<settled, speaker, cutOff, released>>
    BY <1>2, <1>l, <1>n, <2>1, <2>2 DEF ReadStarted, history, Label
  <2>4. Label(s) \in {s, None} /\ (s \notin Unnamed => Label(s) = s)
    BY DEF Label
  <2>5. LedgerOK'
    BY <1>t, <2>3, <2>4 DEF LedgerOK
  <2>6. Held(s)'
    BY <2>3, <2>4
  <2>7. active' # None => Begun(active)'
    <3> SUFFICES ASSUME active' # None PROVE Begun(active)'
      OBVIOUS
    <3>1. PICK r \in Responses : r = active'
      BY <1>t, <2>3, <2>4
    <3>2. Begun(r)'
      BY <1>b, <1>l, <2>2, <2>3, <2>4, <3>1
    <3> QED
      BY <3>1, <3>2
  <2>8. (speaker # 0 => Begun(speaker))' /\ (\A r \in settled \union cutOff : Begun(r))'
    BY <1>b, <1>l, <1>t, <2>3
  <2> QED
    BY <1>l, <2>2, <2>3, <2>5, <2>6, <2>7, <2>8 DEF LedgerInv
<1>3. CASE ReadAudio
  <2>1. PICK s \in Responses : s = Head(inbox).id /\ InProgress(s)
    BY <1>3, <1>c DEF Course
  <2>2. /\ UNCHANGED <<inFlight, active, settled, unnamedCut, cutOff, released>>
        /\ speaker' = speaker \/ speaker' = s
    BY <1>3, <2>1 DEF ReadAudio, history
  <2>3. LedgerOK'
    BY <1>t, <2>2 DEF LedgerOK
  <2>4. ~ReadStarted
    BY <1>3 DEF ReadAudio, ReadStarted, Reads
  <2>5. \A r \in Responses : InProgress(r)' => Held(r)'
    BY <1>p, <1>l, <2>2, <2>4
  <2>6. Begun(s)'
    BY <1>b, <2>1 DEF InProgress
  <2>7. speaker' # 0 => Begun(speaker)'
    BY <1>b, <1>l, <1>t, <2>2, <2>6
  <2>8. (active # None => Begun(active))' /\ (\A r \in settled \union cutOff : Begun(r))'
    BY <1>b, <1>l, <1>t, <2>2
  <2> QED
    BY <1>l, <2>2, <2>3, <2>5, <2>7, <2>8 DEF LedgerInv
<1>4. CASE ReadSpeech
  <2>0. ~ReadStarted
    BY <1>4 DEF ReadSpeech, ReadStarted, Reads
  <2>1. /\ speaker' = 0
        /\ cutOff' = cutOff \union ({speaker} \ {0})
                            \union (IF inFlight /\ active # None THEN {active} ELSE {})
    BY <1>4 DEF ReadSpeech
  <2>2. \/ UNCHANGED <<inFlight, active, settled, unnamedCut, released>>
        \/ /\ inFlight /\ (active # None => active \in settled)
           /\ inFlight' = FALSE /\ active' = None /\ unnamedCut' = FALSE
           /\ released' = released \union Unnamed \union ({active} \ {None}) /\ UNCHANGED settled
        \/ /\ UNCHANGED <<inFlight, active, released>> /\ unnamedCut' \in BOOLEAN
           /\ settled' = settled \/ (active # None /\ settled' = settled \union {active})
    BY <1>4, <1>t DEF ReadSpeech
  <2>3. LedgerOK'
    BY <1>n, <1>t, <2>1, <2>2 DEF LedgerOK
  <2>4. \A r \in Responses : Held(r) => Held(r)'
    BY <1>n, <2>2
  <2>5. \A r \in Responses : InProgress(r)' => Held(r)'
    BY <1>p, <1>l, <2>0, <2>4
  <2>6. released' \subseteq settled' \union Unnamed
    BY <1>l, <2>2
  <2>7. \A r \in cutOff' \union settled' : Begun(r)
    BY <1>l, <2>1, <2>2
  <2>8. (\A r \in settled \union cutOff : Begun(r))'
    BY <1>b, <2>3, <2>7 DEF LedgerOK
  <2>9. (active # None => Begun(active))' /\ (speaker # 0 => Begun(speaker))'
    BY <1>b, <1>l, <1>t, <2>1, <2>2
  <2> QED
    BY <2>3, <2>5, <2>6, <2>8, <2>9 DEF LedgerInv
<1>5. CASE ReadDone
  <2>1. PICK s \in Responses : s = Head(inbox).id /\ InProgress(s)
    BY <1>5, <1>c DEF Course
  <2>2. \A r \in Responses : ~InProgress(r)'
    BY <1>5, <1>c DEF Course
  <2>3. /\ settled' = settled \union ({Label(s)} \ {None}) /\ UNCHANGED <<speaker, cutOff, released>>
        /\ inFlight' \in {inFlight, FALSE} /\ active' \in {active, None} /\ unnamedCut' \in {unnamedCut, FALSE}
    BY <1>5, <2>1 DEF ReadDone, history
  <2>4. {Label(s)} \ {None} \subseteq {s}
    BY DEF Label
  <2>5. LedgerOK'
    BY <1>t, <2>3, <2>4 DEF LedgerOK
  <2>6. \A r \in cutOff' \union settled' : Begun(r)
    BY <1>l, <2>1, <2>3, <2>4 DEF InProgress
  <2>7. (\A r \in settled \union cutOff : Begun(r))'
    BY <1>b, <2>5, <2>6 DEF LedgerOK
  <2>8. (active # None => Begun(active))' /\ (speaker # 0 => Begun(speaker))'
    BY <1>b, <1>l, <1>t, <2>3
  <2>9. released' \subseteq settled' \union Unnamed
    BY <1>l, <2>3
  <2> QED
    BY <2>2, <2>5, <2>7, <2>8, <2>9 DEF LedgerInv
<1> QED
  BY LedgerMoves, <1>1, <1>2, <1>3, <1>4, <1>5

\* What was spoken over is settled or over, and is not heard.
LEMMA SilenceStep ==
  /\ ServerOK /\ OrderInv /\ LedgerOK /\ LedgerInv /\ SilenceInv /\ SpokenOverStaysSilent
  /\ [Next]_vars
  => SilenceInv' /\ SpokenOverStaysSilent'
<1> SUFFICES ASSUME ServerOK, OrderInv, LedgerOK, LedgerInv, SilenceInv, SpokenOverStaysSilent,
                    [Next]_vars
             PROVE  SilenceInv' /\ SpokenOverStaysSilent'
  OBVIOUS
<1>c. Course
  BY CourseHolds
<1>t. /\ active \in Responses \union {None} /\ settled \subseteq Responses
      /\ speaker \in Responses \union {0} /\ cutOff \subseteq Responses
      /\ inFlight \in BOOLEAN
  BY DEF LedgerOK
<1>u. LedgerOK'
  BY LedgerStep
<1>l. /\ active # None => Begun(active)
      /\ speaker # 0 => Begun(speaker)
      /\ \A r \in settled \union cutOff : Begun(r)
      /\ released \subseteq settled \union Unnamed
      /\ \A r \in Responses :
           InProgress(r) => r \in released \/ (inFlight /\ (r \notin Unnamed => active = r))
  BY DEF LedgerInv
<1>s. /\ \A r \in cutOff \ Unnamed : r \in settled \/ Over(r)
      /\ speaker # 0 /\ speaker \notin Unnamed =>
           speaker \in settled \/ Over(speaker) \/ (inFlight /\ active = speaker)
      /\ speaker \in cutOff => speaker \in Unnamed
  BY DEF SilenceInv, SpokenOverStaysSilent
<1>n. None \notin Responses /\ 0 \notin Responses
  BY NoneAssumption DEF Responses
<1>o. \A r \in Responses : Begun(r) /\ Over(r) => Over(r)'
  BY <1>c DEF Course, Begun
<1>e. \A r \in Responses : Begun(r) /\ ~InProgress(r)' => Over(r)'
  BY <1>c DEF Course, InProgress
<1> DEFINE Quieted(r) == r \in settled \/ Over(r)
<1>q. ASSUME settled \subseteq settled' PROVE \A r \in Responses : Begun(r) /\ Quieted(r) => Quieted(r)'
  BY <1>o, <1>q
<1>d. SilenceInv' <=>
        /\ \A r \in cutOff' \ Unnamed : Quieted(r)'
        /\ \A r \in Responses \ Unnamed : speaker' = r => Quieted(r)' \/ (inFlight' /\ active' = r)
  BY <1>n, <1>u DEF SilenceInv, LedgerOK
<1>1. CASE LedgerKept \/ SpeakerDrains
  <2>1. /\ UNCHANGED <<inFlight, active, settled, cutOff>> /\ (speaker' = speaker \/ speaker' = 0)
    BY <1>1 DEF LedgerKept, ledger, SpeakerDrains, history
  <2>2. SpokenOverStaysSilent'
    BY <1>n, <1>s, <1>t, <2>1 DEF SpokenOverStaysSilent
  <2>3. \A r \in cutOff' \ Unnamed : Quieted(r)'
    BY <1>l, <1>q, <1>s, <1>t, <2>1
  <2>4. ASSUME NEW r \in Responses \ Unnamed, speaker' = r PROVE Quieted(r)' \/ (inFlight' /\ active' = r)
    <3>1. speaker = r /\ Begun(r)
      BY <1>l, <1>n, <2>1, <2>4
    <3>2. Quieted(r) \/ (inFlight /\ active = r)
      BY <1>n, <1>s, <3>1
    <3> QED
      BY <1>q, <2>1, <3>1, <3>2
  <2> QED
    BY <1>d, <2>2, <2>3, <2>4
<1>2. CASE ReadStarted
  <2>1. PICK p \in Responses : p = Head(inbox).id
    BY <1>2, <1>c DEF Course
  <2>2. ~Begun(p) /\ \A r \in Responses : InProgress(r)' => r = p
    BY <1>2, <1>c, <2>1 DEF Course
  <2>3. UNCHANGED <<settled, speaker, cutOff, released>>
    BY <1>2 DEF ReadStarted, history
  <2>4. SpokenOverStaysSilent'
    BY <1>s, <2>3 DEF SpokenOverStaysSilent
  <2>5. \A r \in cutOff' \ Unnamed : Quieted(r)'
    BY <1>l, <1>q, <1>s, <1>t, <2>3
  <2>6. ASSUME NEW r \in Responses \ Unnamed, speaker' = r PROVE Over(r)'
    <3>1. Begun(r)
      BY <1>l, <1>n, <2>3, <2>6
    <3> QED
      BY <1>e, <2>2, <3>1
  <2> QED
    BY <1>d, <2>4, <2>5, <2>6
<1>3. CASE ReadAudio
  <2>1. PICK p \in Responses : p = Head(inbox).id /\ InProgress(p)
    BY <1>3, <1>c DEF Course
  <2>2. /\ UNCHANGED <<inFlight, active, settled, cutOff>>
        /\ speaker' = IF Belongs(Label(p)) THEN p ELSE speaker
    BY <1>3, <2>1 DEF ReadAudio, history
  <2>3. \A r \in cutOff' \ Unnamed : Quieted(r)'
    BY <1>l, <1>q, <1>s, <1>t, <2>2
  <2>4. CASE speaker' = speaker
    <3>1. SpokenOverStaysSilent'
      BY <1>s, <2>2, <2>4 DEF SpokenOverStaysSilent
    <3>2. ASSUME NEW r \in Responses \ Unnamed, speaker' = r PROVE Quieted(r)' \/ (inFlight' /\ active' = r)
      <4>1. speaker = r /\ Begun(r)
        BY <1>l, <1>n, <2>4, <3>2
      <4>2. Quieted(r) \/ (inFlight /\ active = r)
        BY <1>n, <1>s, <4>1
      <4> QED
        BY <1>q, <2>2, <4>1, <4>2
    <3> QED
      BY <1>d, <2>3, <3>1, <3>2
  <2>5. CASE speaker' = p /\ Belongs(Label(p))
    <3>1. ASSUME p \notin Unnamed PROVE p \notin settled /\ inFlight /\ active = p /\ p \notin cutOff
      <4>1. p \notin settled
        BY <1>n, <2>5, <3>1 DEF Belongs, Label
      <4>2. p \notin released
        BY <1>l, <3>1, <4>1
      <4>3. p \notin cutOff
        BY <1>s, <2>1, <3>1, <4>1 DEF InProgress
      <4> QED
        BY <1>l, <2>1, <3>1, <4>1, <4>2, <4>3
    <3>2. SpokenOverStaysSilent'
      BY <2>2, <2>5, <3>1 DEF SpokenOverStaysSilent
    <3> QED
      BY <1>d, <2>2, <2>3, <2>5, <3>1, <3>2
  <2> QED
    BY <2>2, <2>4, <2>5
<1>4. CASE ReadSpeech
  <2>1. /\ speaker' = 0
        /\ cutOff' = cutOff \union ({speaker} \ {0})
                            \union (IF inFlight /\ active # None THEN {active} ELSE {})
    BY <1>4 DEF ReadSpeech
  <2>2. /\ settled \subseteq settled'
        /\ inFlight /\ active # None => active \in settled'
    BY <1>4, <1>t DEF ReadSpeech
  <2>3. SpokenOverStaysSilent'
    BY <1>n, <1>u, <2>1 DEF SpokenOverStaysSilent, LedgerOK
  <2>4. ASSUME NEW r \in cutOff' \ Unnamed PROVE Quieted(r)'
    <3>1. r \in cutOff \/ (r = speaker /\ r # 0) \/ (inFlight /\ active # None /\ r = active)
      BY <2>1, <2>4
    <3>2. r \in Responses /\ Begun(r)
      BY <1>l, <1>t, <3>1
    <3>3. Quieted(r) \/ (inFlight /\ active # None /\ r = active)
      BY <1>n, <1>s, <2>4, <3>1, <3>2
    <3> QED
      BY <1>q, <2>2, <3>2, <3>3
  <2>5. ASSUME NEW r \in Responses \ Unnamed, speaker' = r PROVE FALSE
    BY <1>n, <2>1, <2>5
  <2> QED
    BY <1>d, <2>3, <2>4, <2>5
<1>5. CASE ReadDone
  <2>1. \A r \in Responses : ~InProgress(r)'
    BY <1>5, <1>c DEF Course
  <2>2. settled \subseteq settled' /\ UNCHANGED <<speaker, cutOff>>
    BY <1>5 DEF ReadDone, history
  <2>3. SpokenOverStaysSilent'
    BY <1>s, <2>2 DEF SpokenOverStaysSilent
  <2>4. \A r \in cutOff' \ Unnamed : Quieted(r)'
    BY <1>l, <1>q, <1>s, <1>t, <2>2
  <2>5. ASSUME NEW r \in Responses \ Unnamed, speaker' = r PROVE Over(r)'
    <3>1. Begun(r)
      BY <1>l, <1>n, <2>2, <2>5
    <3> QED
      BY <1>e, <2>1, <3>1
  <2> QED
    BY <1>d, <2>3, <2>4, <2>5
<1> QED
  BY LedgerMoves, <1>1, <1>2, <1>3, <1>4, <1>5

-----------------------------------------------------------------------------
(* The socket.                                                             *)

\* A batch that joins comes last; its task had none there.
LEMMA JoinKeeps ==
  ASSUME LineTyped, Queued, OneEach, NEW b \in Batches, NEW c, awaiting[b.by] # "socket", Join(b, c)
  PROVE  /\ LineTyped' /\ Queued' /\ OneEach'
         /\ \A t \in Tasks : t # b.by => awaiting'[t] = awaiting[t]
<1> USE DEF InLine
<1>0. b.by \in Tasks /\ b # None
  BY NoneAssumption DEF Batches
<1>1. /\ awaiting' = [awaiting EXCEPT ![b.by] = "socket"]
      /\ awaiting \in [Tasks -> {"nothing", "socket", "flush", "opening"}]
  BY DEF Join, LineTyped
<1>2. awaiting' \in [Tasks -> {"nothing", "socket", "flush", "opening"}]
  BY <1>1
<1>3. awaiting'[b.by] = "socket" /\ \A t \in Tasks : t # b.by => awaiting'[t] = awaiting[t]
  BY <1>0, <1>1
<1>4. restart' \in BOOLEAN
  BY DEF Join
<1>5. /\ line \in Seq(Batches) /\ Len(line) \in Nat /\ Len(<<>>) = 0
      /\ \A i \in 1 .. Len(line) : line[i] \in Batches
  BY Element DEF LineTyped
<1>6. CASE writing = None /\ line = <<>> /\ writing' = b /\ line' = line
  <2>1. LineTyped'
    BY <1>2, <1>4, <1>5, <1>6 DEF LineTyped
  <2>2. 1 .. Len(line') = {}
    BY <1>5, <1>6
  <2>3. Queued'
    BY <1>0, <1>3, <1>5, <1>6, <2>2 DEF Queued
  <2>4. OneEach'
    BY <2>2 DEF OneEach
  <2> QED
    BY <1>3, <2>1, <2>3, <2>4
<1>7. CASE line' = Append(line, b) /\ writing' = writing
  <2>1. /\ line' \in Seq(Batches) /\ Len(line') = Len(line) + 1 /\ line'[Len(line) + 1] = b
        /\ \A i \in 1 .. Len(line) : line'[i] = line[i]
        /\ \A i \in 1 .. Len(line') : i \in 1 .. Len(line) \/ i = Len(line) + 1
    BY <1>5, <1>7, Appended
  <2>2. Len(line) + 1 \in 1 .. Len(line') /\ \A i \in 1 .. Len(line) : i \in 1 .. Len(line')
    BY <1>5, <2>1
  <2>3. LineTyped'
    BY <1>2, <1>4, <1>7, <2>1 DEF LineTyped
  <2>4. Queued'
    <3> SUFFICES ASSUME NEW t \in Tasks
                 PROVE  awaiting'[t] = "socket" <=>
                          \/ writing' # None /\ writing'.by = t
                          \/ \E i \in 1 .. Len(line') : line'[i].by = t
      BY DEF Queued
    <3>1. CASE t = b.by
      BY <1>3, <2>1, <2>2, <3>1
    <3>2. CASE t # b.by
      <4>1. (\E i \in 1 .. Len(line') : line'[i].by = t) <=> (\E i \in 1 .. Len(line) : line[i].by = t)
        BY <2>1, <2>2, <3>2
      <4> QED
        BY <1>3, <1>7, <3>2, <4>1 DEF Queued
    <3> QED
      BY <3>1, <3>2
  <2>5. (writing # None => writing.by # b.by) /\ \A i \in 1 .. Len(line) : line[i].by # b.by
    BY <1>0 DEF Queued
  <2>6. OneEach'
    BY <1>7, <2>1, <2>5 DEF OneEach
  <2> QED
    BY <1>3, <2>3, <2>4, <2>6
<1> QED
  BY <1>6, <1>7 DEF Join

\* A call that ends has its output.
LEMMA ToolOutput ==
  ASSUME BatchOK, ToolEnds
  PROVE  /\ outputs' \in Seq(Slots) /\ Len(outputs') = Len(outputs) /\ running \in 1 .. Len(outputs)
         /\ \A i \in 1 .. Len(outputs) :
              /\ outputs'[i].call = outputs[i].call
              /\ (outputs'[i].ready <=> i = running \/ outputs[i].ready)
<1>1. /\ running \in 0 .. Len(outputs) /\ running # 0 /\ outputs \in Seq(Slots)
      /\ outputs' = [outputs EXCEPT ![running].ready = TRUE]
  BY DEF BatchOK, ToolEnds
<1>a. outputs \in Seq(Slots)
  BY <1>1
<1>2. Len(outputs) \in Nat /\ \A i \in 1 .. Len(outputs) : outputs[i] \in Slots
  BY <1>1, Element
<1>3. running \in 1 .. Len(outputs)
  BY <1>1, <1>2
<1>4. DOMAIN outputs = 1 .. Len(outputs)
  BY <1>1
<1> DEFINE s == [outputs[running] EXCEPT !.ready = TRUE]
<1>5. s \in Slots
  BY <1>2, <1>3 DEF Slots
<1>6. s.call = outputs[running].call /\ s.ready = TRUE
  BY <1>2, <1>3 DEF Slots
<1>7. outputs' = [outputs EXCEPT ![running] = s]
  BY <1>1
<1> HIDE DEF s
<1>8. outputs' \in Seq(Slots) /\ Len(outputs') = Len(outputs)
  <2>1. PICK x \in Slots : x = s
    BY <1>5
  <2>2. outputs' = [outputs EXCEPT ![running] = x]
    BY <1>7, <2>1
  <2>3. [outputs EXCEPT ![running] = x] \in Seq(Slots) /\ Len([outputs EXCEPT ![running] = x]) = Len(outputs)
    BY <1>a, <1>3, Replaced
  <2> QED
    BY <2>2, <2>3
<1>9. outputs'[running] = s /\ \A i \in 1 .. Len(outputs) : i # running => outputs'[i] = outputs[i]
  BY <1>3, <1>4, <1>7
<1>10. \A i \in 1 .. Len(outputs) : outputs[i].ready \in BOOLEAN
  BY <1>2 DEF Slots
<1> QED
  BY <1>3, <1>6, <1>8, <1>9, <1>10

\* Who waits for the socket is known after every step.
LEMMA LineStep ==
  SocketOK /\ LineInv /\ FlushInv /\ BatchOK /\ [Next]_vars => LineTyped' /\ Queued' /\
    OneEach' /\ Waits' /\ dead' \in BOOLEAN
<1> SUFFICES ASSUME SocketOK /\ LineInv /\ FlushInv /\ BatchOK, [Next]_vars
   PROVE LineTyped' /\ Queued' /\ OneEach' /\ Waits' /\ dead' \in BOOLEAN
  OBVIOUS
<1>l. LineTyped /\ Queued /\ OneEach /\ Waits /\ dead \in BOOLEAN
  BY DEF SocketOK, LineInv
<1>a. awaiting \in [Tasks -> {"nothing", "socket", "flush", "opening"}] /\
   line \in Seq(Batches)
  BY <1>l DEF LineTyped
<1>t. /\ "receiver" \in Tasks /\ "worker" \in Tasks /\ "pump" \in Tasks /\
         "microphone" \in Tasks
      /\ \A t \in Tasks : t \in {"receiver", "worker", "pump", "microphone"}
  BY DEF Tasks
<1> DEFINE Kept == LineTyped' /\ Queued' /\ OneEach'
<1>s. ASSUME UNCHANGED <<writing, line, awaiting, restart>> PROVE Kept
  BY <1>l, <1>s DEF LineTyped, Queued, OneEach, InLine
<1>j. ASSUME NEW t \in Tasks, NEW kind \in {"input", "reply", "cancel",
   "announcement"}, NEW c,
             awaiting[t] # "socket", Join(Batch(t, kind), c)
      PROVE  Kept /\ awaiting'[t] = "socket" /\ \A u \in Tasks : u # t =>
         awaiting'[u] = awaiting[u]
  <2>1. PICK b \in Batches : b = Batch(t, kind) /\ b.by = t
    BY BatchTyped
  <2>2. Join(b, c) /\ awaiting[b.by] # "socket"
    BY <1>j, <2>1
  <2>3. Kept /\ \A u \in Tasks : u # b.by => awaiting'[u] = awaiting[u]
    BY <1>l, <2>2, JoinKeeps
  <2>4. awaiting'[t] = "socket"
    BY <1>a, <2>1, <2>2 DEF Join
  <2> QED
    BY <2>1, <2>3, <2>4
<1>f. ASSUME NEW t \in Tasks, NEW outs \in Seq(Slots), awaiting[t] # "socket",
   Join(Results(t, outs), FALSE)
      PROVE  Kept /\ awaiting'[t] = "socket" /\ \A u \in Tasks : u # t =>
         awaiting'[u] = awaiting[u]
  <2>1. PICK b \in Batches : b = Results(t, outs) /\ b.by = t
    BY ResultsTyped
  <2>2. Join(b, FALSE) /\ awaiting[b.by] # "socket"
    BY <1>f, <2>1
  <2>3. Kept /\ \A u \in Tasks : u # b.by => awaiting'[u] = awaiting[u]
    BY <1>l, <2>2, JoinKeeps
  <2>4. awaiting'[t] = "socket"
    BY <1>a, <2>1, <2>2 DEF Join
  <2> QED
    BY <2>1, <2>3, <2>4
<1>u. ASSUME NEW t \in Tasks, NEW w \in {"nothing", "flush", "opening"},
   awaiting[t] # "socket",
             awaiting' = [awaiting EXCEPT ![t] = w], UNCHANGED <<writing,
                line, restart>>
      PROVE  Kept /\ awaiting'[t] = w /\ \A u \in Tasks : u # t =>
         awaiting'[u] = awaiting[u]
  <2>1. awaiting'[t] = w /\ \A u \in Tasks : u # t => awaiting'[u] =
     awaiting[u]
    BY <1>a, <1>u
  <2>2. awaiting' \in [Tasks -> {"nothing", "socket", "flush", "opening"}]
    BY <1>a, <1>u
  <2>3. LineTyped'
    BY <1>l, <1>u, <2>2 DEF LineTyped
  <2>4. Queued'
    BY <1>l, <1>u, <2>1 DEF Queued, InLine
  <2> QED
    BY <1>l, <1>u, <2>1, <2>3, <2>4 DEF OneEach, InLine
<1>r. ASSUME NEW kind \in {"reply", "cancel"}, NEW c, Reply(kind, c),
             awaiting["receiver"] # "socket", UNCHANGED <<running, dead>>
      PROVE  Kept /\ Waits' /\ dead' \in BOOLEAN
  BY <1>l, <1>t, <1>j, <1>r DEF Reply, Waits
<1>1. CASE ProviderStarts
  BY <1>1, <1>s, <1>l DEF ProviderStarts, batch, socket, Waits
<1>2. CASE ProviderCalls
  BY <1>2, <1>s, <1>l DEF ProviderCalls, batch, socket, Waits
<1>3. CASE ProviderSpeaks
  BY <1>3, <1>s, <1>l DEF ProviderSpeaks, batch, socket, Waits
<1>4. CASE ProviderFinishes
  BY <1>4, <1>s, <1>l DEF ProviderFinishes, batch, socket, Waits
<1>5. CASE OperatorSpeaks
  BY <1>5, <1>s, <1>l DEF OperatorSpeaks, batch, socket, Waits
<1>6. CASE SpeakerDrains
  BY <1>6, <1>s, <1>l DEF SpeakerDrains, batch, socket, Waits
<1>7. CASE Grant
  <2>0. UNCHANGED <<running, dead>> /\ writing = None /\ line # <<>> /\ line'
     = Tail(line)
    BY <1>7 DEF Grant, batch
  <2>1. /\ Head(line) = line[1] /\ 1 \in 1 .. Len(line) /\ line' \in
           Seq(Batches) /\ line[1] \in Batches
        /\ Len(line') = Len(line) - 1 /\ Len(line) \in Nat
        /\ \A i \in 1 .. Len(line') : i + 1 \in 1 .. Len(line) /\ line'[i] =
           line[i + 1]
        /\ \A i \in 1 .. Len(line) : i = 1 \/ (i - 1 \in 1 .. Len(line') /\
           line[i] = line'[i - 1])
    BY <1>a, <2>0, HeadTaken
  <2>2. \A i, j \in 1 .. Len(line') : line'[i].by = line'[j].by => i = j
    <3> SUFFICES ASSUME NEW i \in 1 .. Len(line'), NEW j \in 1 .. Len(line'),
                        line'[i].by = line'[j].by
                 PROVE  i = j
      OBVIOUS
    <3>1. i + 1 = j + 1
      BY <1>l, <2>1 DEF OneEach, InLine
    <3> QED
      BY <2>1, <3>1
  <2>3. \A i \in 1 .. Len(line') : line'[i].by # line[1].by
    <3> SUFFICES ASSUME NEW i \in 1 .. Len(line'), line'[i].by = line[1].by
       PROVE FALSE
      OBVIOUS
    <3>1. i + 1 = 1
      BY <1>l, <2>1 DEF OneEach, InLine
    <3> QED
      BY <2>1, <3>1
  <2>4. \A t \in Tasks : (\E i \in 1 .. Len(line) : line[i].by = t) <=>
          (line[1].by = t \/ \E i \in 1 .. Len(line') : line'[i].by = t)
    BY <2>1
  <2>5. CASE awaiting' = [awaiting EXCEPT !["pump"] = "opening"] /\ UNCHANGED
     <<writing, restart>> /\ line[1].kind = "announcement"
    <3>1. line[1].by = "pump"
      BY <2>1, <2>5 DEF FlushInv, OneFlush, IsFlush, InLine
    <3>2. awaiting'["pump"] = "opening" /\ \A u \in Tasks : u # "pump" =>
       awaiting'[u] = awaiting[u]
      BY <1>a, <1>t, <2>5
    <3>3. awaiting' \in [Tasks -> {"nothing", "socket", "flush", "opening"}]
      BY <1>a, <2>5
    <3>4. LineTyped'
      BY <1>l, <2>1, <2>5, <3>3 DEF LineTyped
    <3>5. Queued'
      BY <1>l, <2>0, <2>3, <2>4, <2>5, <3>1, <3>2 DEF Queued, InLine
    <3>6. OneEach'
      BY <2>0, <2>2, <2>5 DEF OneEach, InLine
    <3> QED
      BY <1>l, <1>t, <2>0, <3>2, <3>4, <3>5, <3>6 DEF Waits
  <2>6. CASE writing' = line[1] /\ restart' = (restart \/ Starts(line[1])) /\
     UNCHANGED awaiting
    <3>1. line[1] # None
      BY <2>1, NoneAssumption
    <3>r. restart' \in BOOLEAN
      BY <2>6
    <3>4. LineTyped'
      BY <1>a, <2>1, <2>6, <3>r DEF LineTyped
    <3>5. Queued'
      BY <1>l, <2>0, <2>4, <2>6, <3>1 DEF Queued, InLine
    <3>6. OneEach'
      BY <2>2, <2>3, <2>6 DEF OneEach, InLine
    <3> QED
      BY <1>l, <2>0, <2>6, <3>4, <3>5, <3>6 DEF Waits
  <2> QED
    BY <1>7, <2>1, <2>5, <2>6 DEF Grant
<1>8. CASE SendReturns
  <2>0. writing # None /\ writing \in Batches /\ writing.by \in Tasks /\
     UNCHANGED <<running, dead, restart>>
    BY <1>8, <1>l DEF SendReturns, LineTyped, Batches
  <2>1. \A i \in 1 .. Len(line) : line[i].by # writing.by
    BY <1>l, <2>0 DEF OneEach, InLine
  <2>2. CASE writing' = None /\ awaiting' = [awaiting EXCEPT ![writing.by] =
     "nothing"] /\ UNCHANGED line
    <3>1. awaiting'[writing.by] = "nothing" /\ \A u \in Tasks : u # writing.by
       => awaiting'[u] = awaiting[u]
      BY <1>a, <2>0, <2>2
    <3>2. awaiting' \in [Tasks -> {"nothing", "socket", "flush", "opening"}]
      BY <1>a, <2>2
    <3>3. LineTyped'
      BY <1>l, <2>0, <2>2, <3>2 DEF LineTyped
    <3>4. Queued'
      BY <1>l, <2>0, <2>1, <2>2, <3>1 DEF Queued, InLine
    <3>5. OneEach'
      BY <1>l, <2>2 DEF OneEach, InLine
    <3> QED
      BY <1>l, <1>t, <2>0, <3>1, <3>3, <3>4, <3>5 DEF Waits
  <2>3. CASE /\ writing.by = "receiver" /\ UNCHANGED awaiting
             /\ IF line = <<>> THEN writing' = Batch("receiver", "reply") /\
                UNCHANGED line
                ELSE writing' = None /\ line' = Append(line, Batch("receiver",
                   "reply"))
    <3>1. PICK b \in Batches : b = Batch("receiver", "reply") /\ b.by =
       "receiver" /\ b # None
      BY <1>t, BatchTyped
    <3>2. CASE writing' = b /\ line' = line
      <4>1. LineTyped'
        BY <1>l, <2>0, <2>3, <3>2 DEF LineTyped
      <4>2. Queued' /\ OneEach'
        BY <1>l, <2>0, <2>3, <3>1, <3>2 DEF Queued, OneEach, InLine
      <4> QED
        BY <1>l, <2>0, <2>3, <4>1, <4>2 DEF Waits
    <3>3. CASE writing' = None /\ line' = Append(line, b)
      <4>1. /\ line' \in Seq(Batches) /\ Len(line') = Len(line) + 1 /\
               line'[Len(line) + 1] = b
            /\ \A i \in 1 .. Len(line) : line'[i] = line[i]
            /\ \A i \in 1 .. Len(line') : i \in 1 .. Len(line) \/ i =
               Len(line) + 1
        BY <1>a, <3>3, Appended
      <4>2. Len(line) + 1 \in 1 .. Len(line') /\ \A i \in 1 .. Len(line) : i
         \in 1 .. Len(line')
        BY <1>a, <4>1, Element
      <4>3. LineTyped'
        BY <1>l, <2>0, <2>3, <3>3, <4>1 DEF LineTyped
      <4>4. ASSUME NEW t \in Tasks
            PROVE  (\E i \in 1 .. Len(line') : line'[i].by = t) <=>
                     (t = "receiver" \/ \E i \in 1 .. Len(line) : line[i].by =
                        t)
        BY <3>1, <4>1, <4>2
      <4>5. Queued'
        BY <1>l, <2>0, <2>3, <3>3, <4>4 DEF Queued, InLine
      <4>6. OneEach'
        BY <1>l, <2>0, <2>1, <2>3, <3>1, <3>3, <4>1 DEF OneEach, InLine
      <4> QED
        BY <1>l, <2>0, <2>3, <4>3, <4>5, <4>6 DEF Waits
    <3> QED
      BY <2>3, <3>1, <3>2, <3>3
  <2> QED
    BY <1>8, <2>2, <2>3 DEF SendReturns
<1>9. CASE MicrophoneSends
  <2>1. awaiting["microphone"] = "nothing" /\ Join(Batch("microphone",
     "input"), FALSE) /\ UNCHANGED <<running, dead>>
    BY <1>9 DEF MicrophoneSends, batch
  <2>2. Kept /\ awaiting'["microphone"] = "socket" /\ \A u \in Tasks : u #
     "microphone" => awaiting'[u] = awaiting[u]
    BY <1>t, <1>j, <2>1
  <2> QED
    BY <1>l, <1>t, <2>1, <2>2 DEF Waits
<1>10. CASE ReadStarted
  <2>1. Reply("reply", TRUE) /\ awaiting["receiver"] # "socket" /\ UNCHANGED
     <<running, dead>>
    BY <1>10 DEF ReadStarted, Reads, batch
  <2> QED
    BY <1>r, <2>1
<1>11. CASE ReadAudio
  <2>1. Reply("reply", FALSE) /\ awaiting["receiver"] # "socket" /\ UNCHANGED
     <<running, dead>>
    BY <1>11 DEF ReadAudio, Reads, batch
  <2> QED
    BY <1>r, <2>1
<1>12. CASE ReadSpeech
  <2>1. /\ Reply("reply", FALSE) \/ Reply("cancel", FALSE)
        /\ awaiting["receiver"] # "socket" /\ UNCHANGED <<running, dead>>
    BY <1>12 DEF ReadSpeech, Reads, batch
  <2> QED
    BY <1>r, <2>1
<1>13. CASE ReadCall
  BY <1>13, <1>s, <1>l DEF ReadCall, Waits
<1>14. CASE ReadDone
  <2>1. awaiting["receiver"] = "nothing" /\ UNCHANGED <<running, dead>>
    BY <1>14 DEF ReadDone, Reads
  <2>2. CASE Reply("reply", FALSE)
    BY <1>r, <2>1, <2>2
  <2>3. CASE Join(Results("receiver", outputs), FALSE)
    <3>1. Kept /\ awaiting'["receiver"] = "socket" /\ \A u \in Tasks : u #
       "receiver" => awaiting'[u] = awaiting[u]
      BY <1>t, <1>f, <2>1, <2>3 DEF BatchOK
    <3> QED
      BY <1>l, <1>t, <2>1, <3>1 DEF Waits
  <2>4. CASE awaiting' = [awaiting EXCEPT !["receiver"] = "flush"] /\
     UNCHANGED <<writing, line, restart>>
    <3>1. Kept /\ awaiting'["receiver"] = "flush" /\ \A u \in Tasks : u #
       "receiver" => awaiting'[u] = awaiting[u]
      BY <1>t, <1>u, <2>1, <2>4
    <3> QED
      BY <1>l, <1>t, <2>1, <3>1 DEF Waits
  <2> QED
    BY <1>14, <2>2, <2>3, <2>4 DEF ReadDone
<1>15. CASE ReadError
  <2>1. Reply("reply", FALSE) /\ awaiting["receiver"] # "socket" /\ UNCHANGED
     <<running, dead>>
    BY <1>15 DEF ReadError, Reads, batch
  <2> QED
    BY <1>r, <2>1
<1>16. CASE FlushWaited
  <2>1. Reply("reply", FALSE) /\ awaiting["receiver"] # "socket" /\ UNCHANGED
     <<running, dead>>
    BY <1>16 DEF FlushWaited, batch
  <2> QED
    BY <1>r, <2>1
<1>17. CASE WorkerTakes
  BY <1>17, <1>s, <1>l DEF WorkerTakes, socket, Waits
<1>18. CASE ToolEnds
  <2>1. awaiting["worker"] = "nothing" /\ running' = 0 /\ dead' = dead
    BY <1>18, <1>l DEF ToolEnds, Waits
  <2>2. CASE Join(Results("worker", outputs'), FALSE)
    <3>1. outputs' \in Seq(Slots)
      BY <1>18, ToolOutput
    <3>2. PICK outs \in Seq(Slots) : outs = outputs'
      BY <3>1
    <3>3. Join(Results("worker", outs), FALSE)
      BY <2>2, <3>2
    <3>4. Kept /\ awaiting'["worker"] = "socket" /\ \A u \in Tasks : u #
       "worker" => awaiting'[u] = awaiting[u]
      BY <1>t, <1>f, <2>1, <3>3
    <3> QED
      BY <1>l, <1>t, <2>1, <3>4 DEF Waits
  <2>3. CASE UNCHANGED <<writing, line, awaiting, restart>>
    BY <1>l, <1>s, <2>1, <2>3 DEF Waits
  <2> QED
    BY <1>18, <2>2, <2>3 DEF ToolEnds
<1>19. CASE Announce
  <2>1. /\ awaiting["pump"] = "nothing" /\ awaiting' = [awaiting EXCEPT
           !["pump"] = "opening"]
        /\ UNCHANGED <<writing, line, restart, running, dead>>
    BY <1>19 DEF Announce, batch
  <2>2. Kept /\ awaiting'["pump"] = "opening" /\ \A u \in Tasks : u # "pump"
     => awaiting'[u] = awaiting[u]
    BY <1>t, <1>u, <2>1
  <2> QED
    BY <1>l, <1>t, <2>1, <2>2 DEF Waits
<1>20. CASE PumpSends
  <2>1. awaiting["pump"] = "opening" /\ Join(Batch("pump", "announcement"),
     FALSE) /\ UNCHANGED <<running, dead>>
    BY <1>20 DEF PumpSends, batch
  <2>2. Kept /\ awaiting'["pump"] = "socket" /\ \A u \in Tasks : u # "pump" =>
     awaiting'[u] = awaiting[u]
    BY <1>t, <1>j, <2>1
  <2> QED
    BY <1>l, <1>t, <2>1, <2>2 DEF Waits
<1>21. CASE UNCHANGED vars
  BY <1>21, <1>s, <1>l DEF vars, socket, batch, Waits
<1> QED
  BY <1>1, <1>2, <1>3, <1>4, <1>5, <1>6, <1>7, <1>8, <1>9, <1>10, <1>11,
     <1>12, <1>13, <1>14, <1>15, <1>16, <1>17, <1>18, <1>19, <1>20, <1>21 DEF
        Next

-----------------------------------------------------------------------------
(* The batch.                                                              *)

\* A batch of results exists only while the batch in the making may be flushed.
LEMMA FlushesWhole ==
  ASSUME SocketOK, OneFlush, Flushing PROVE Flushable(outputs, closed)
BY DEF OneFlush, IsFlush, Flushing, InLine

\* What was in line stays a flush of the batch, or is none.
Lasting ==
  \A b \in Batches : IsFlush(b) /\ (b.kind = "results" => Flushing) => IsFlush(b)'

\* With a batch added to the line, the line still holds one flush.
LEMMA LineFlush ==
  ASSUME SocketOK, OneFlush, Lasting, UNCHANGED <<writing, line>> PROVE OneFlush'
<1> USE DEF InLine
<1>0. /\ writing # None => writing \in Batches
      /\ \A i \in 1 .. Len(line) : line[i] \in Batches
  BY Element DEF SocketOK, LineTyped
<1>1. writing # None => IsFlush(writing)'
  <2> SUFFICES ASSUME writing # None PROVE IsFlush(writing)'
    OBVIOUS
  <2>1. PICK b \in Batches : b = writing
    BY <1>0
  <2>2. IsFlush(b) /\ (b.kind = "results" => Flushing)
    BY <2>1 DEF OneFlush, Flushing
  <2>3. IsFlush(b)' /\ b = writing'
    BY <2>1, <2>2 DEF Lasting
  <2> QED
    BY <2>3
<1>2. ASSUME NEW i \in 1 .. Len(line) PROVE IsFlush(line[i])'
  <2>1. PICK b \in Batches : b = line[i]
    BY <1>0
  <2>2. IsFlush(b) /\ (b.kind = "results" => Flushing)
    BY <2>1 DEF OneFlush, Flushing
  <2>3. IsFlush(b)' /\ b = line'[i]
    BY <2>1, <2>2 DEF Lasting
  <2> QED
    BY <2>3
<1> QED
  BY <1>1, <1>2 DEF OneFlush

\* A batch that joins is a flush only when none is under way.
LEMMA JoinFlush ==
  ASSUME SocketOK, OneFlush, Lasting, NEW b \in Batches, NEW c, Join(b, c),
         IsFlush(b)', b.kind = "results" => ~Flushing
  PROVE  OneFlush'
<1> USE DEF InLine
<1>0. line \in Seq(Batches) /\ Len(line) \in Nat /\ b # None /\ Len(<<>>) = 0
  BY Element, NoneAssumption DEF SocketOK, LineTyped
<1>t. /\ writing # None => writing \in Batches
      /\ \A i \in 1 .. Len(line) : line[i] \in Batches
  BY Element DEF SocketOK, LineTyped
<1>k. /\ b.kind = "results" => ~(writing # None /\ writing.kind = "results")
      /\ b.kind = "results" => \A i \in 1 .. Len(line) : line[i].kind # "results"
  BY DEF Flushing
<1>1. CASE line = <<>> /\ writing' = b /\ line' = line
  <2>1. 1 .. Len(line') = {}
    BY <1>0, <1>1
  <2>2. IsFlush(writing)'
    BY <1>1
  <2> QED
    BY <2>1, <2>2 DEF OneFlush
<1>2. CASE line' = Append(line, b) /\ writing' = writing
  <2>1. /\ Len(line') = Len(line) + 1 /\ line'[Len(line) + 1] = b
        /\ \A i \in 1 .. Len(line) : line'[i] = line[i]
        /\ \A i \in 1 .. Len(line') : i \in 1 .. Len(line) \/ i = Len(line) + 1
    BY <1>0, <1>2, Appended
  <2>2. writing' # None => IsFlush(writing)'
    <3> SUFFICES ASSUME writing # None PROVE IsFlush(writing)'
      BY <1>2
    <3>1. PICK x \in Batches : x = writing
      BY <1>t
    <3>2. IsFlush(x) /\ (x.kind = "results" => Flushing)
      BY <3>1 DEF OneFlush, Flushing
    <3>3. IsFlush(x)' /\ x = writing'
      BY <1>2, <3>1, <3>2 DEF Lasting
    <3> QED
      BY <3>3
  <2>3. ASSUME NEW i \in 1 .. Len(line') PROVE IsFlush(line[i])'
    <3>1. CASE i \in 1 .. Len(line)
      <4>1. PICK x \in Batches : x = line[i]
        BY <1>t, <3>1
      <4>2. IsFlush(x) /\ (x.kind = "results" => Flushing)
        BY <3>1, <4>1 DEF OneFlush, Flushing
      <4>3. IsFlush(x)' /\ x = line'[i]
        BY <2>1, <3>1, <4>1, <4>2 DEF Lasting
      <4> QED
        BY <4>3
    <3>2. CASE i = Len(line) + 1
      <4>1. b = line'[i]
        BY <2>1, <3>2
      <4> QED
        BY <4>1
    <3> QED
      BY <2>1, <3>1, <3>2
  <2>4. \A i, j \in 1 .. Len(line') : line'[i].kind = "results" /\ line'[j].kind = "results" => i = j
    BY <1>k, <2>1 DEF OneFlush
  <2>5. writing' # None /\ writing'.kind = "results" => \A i \in 1 .. Len(line') : line'[i].kind # "results"
    BY <1>2, <1>k, <2>1 DEF OneFlush
  <2> QED
    BY <2>2, <2>3, <2>4, <2>5 DEF OneFlush
<1> QED
  BY <1>1, <1>2 DEF Join

\* What a flush adds to the calls answered.
LEMMA AnswersTyped ==
  ASSUME NEW s \in Seq(Calls), answered \in Seq(Answered)
  PROVE  /\ Len(answered) \in Nat /\ Len(s) \in Nat
         /\ answered \o Answers(s) \in Seq(Answered)
         /\ Len(answered \o Answers(s)) = Len(answered) + Len(s)
         /\ \A i \in 1 .. Len(answered) : (answered \o Answers(s))[i] = answered[i]
         /\ \A i \in 1 .. Len(s) :
              /\ (answered \o Answers(s))[Len(answered) + i].call = s[i]
              /\ (answered \o Answers(s))[Len(answered) + i].batch = Len(answered)
         /\ \A i \in 1 .. Len(answered \o Answers(s)) :
              i \in 1 .. Len(answered) \/ (i - Len(answered) \in 1 .. Len(s))
<1>1. Len(answered) \in Nat /\ Len(s) \in Nat /\ \A i \in 1 .. Len(s) : s[i] \in Calls
  BY Element
<1>2. \A i \in 1 .. Len(s) : [call |-> s[i], batch |-> Len(answered)] \in Answered
  BY <1>1 DEF Answered
<1>3. Answers(s) \in Seq(Answered)
  BY <1>1, <1>2 DEF Answers
<1>4. Len(Answers(s)) = Len(s)
  BY <1>1 DEF Answers
<1>6. ASSUME NEW i \in 1 .. Len(s)
      PROVE  Answers(s)[i].call = s[i] /\ Answers(s)[i].batch = Len(answered)
  BY DEF Answers
<1>7. /\ answered \o Answers(s) \in Seq(Answered) /\ Len(answered \o Answers(s)) = Len(answered) + Len(s)
      /\ \A i \in 1 .. Len(answered) : (answered \o Answers(s))[i] = answered[i]
      /\ \A i \in 1 .. Len(s) : (answered \o Answers(s))[Len(answered) + i] = Answers(s)[i]
      /\ \A i \in 1 .. Len(answered \o Answers(s)) : i \in 1 .. Len(answered) \/ (i - Len(answered) \in 1 .. Len(s))
  BY <1>3, <1>4
<1> QED
  BY <1>1, <1>6, <1>7

\* The batch in the making is flushed whole, and by one task.
LEMMA BatchStep ==
  ServerOK /\ OrderInv /\ BatchOK /\ SocketOK /\ LineInv /\ FlushInv /\ [Next]_vars =>
    BatchOK' /\ Pending' /\ OneFlush'
<1> SUFFICES ASSUME ServerOK /\ OrderInv /\ BatchOK /\ SocketOK /\ LineInv /\ FlushInv,
                    [Next]_vars
             PROVE  BatchOK' /\ Pending' /\ OneFlush'
  OBVIOUS
<1> USE DEF InLine
<1>l. LineTyped /\ OneEach /\ Waits
  BY DEF SocketOK, LineInv
<1>a. line \in Seq(Batches) /\ Len(line) \in Nat /\ \A i \in 1 .. Len(line) :
   line[i] \in Batches
  BY <1>l, Element DEF LineTyped
<1>b. /\ outputs \in Seq(Slots) /\ closed \in BOOLEAN /\ Len(outputs) \in Nat
      /\ tools \in Seq(Nat) /\ Len(tools) \in Nat /\ Len(tools) <=
         ToolQueueSize
      /\ running \in 0 .. Len(outputs)
      /\ wired \in Seq(Calls) /\ answered \in Seq(Answered) /\ Len(answered)
         \in Nat
      /\ \A i \in 1 .. Len(tools) : tools[i] \in 1 .. Len(outputs)
  BY Element DEF BatchOK
<1>p. OneFlush /\ Pending
  BY DEF FlushInv
<1>t. "receiver" \in Tasks /\ "worker" \in Tasks /\ "pump" \in Tasks /\
   "microphone" \in Tasks
  BY DEF Tasks
<1>k. ASSUME UNCHANGED <<outputs, closed, tools, running, wired, answered>>
   PROVE BatchOK' /\ Pending'
  BY <1>k, <1>p DEF BatchOK, Pending
<1>m. ASSUME UNCHANGED <<outputs, closed>> PROVE Lasting
  BY <1>m DEF Lasting, IsFlush
<1>w. ASSUME UNCHANGED <<outputs, closed, writing, line>> PROVE OneFlush'
  BY <1>w, <1>m, <1>p, LineFlush
<1>j. ASSUME Lasting, NEW s \in Tasks, NEW kind \in {"input", "reply",
   "cancel", "announcement"}, NEW c,
             kind = "announcement" => s = "pump", Join(Batch(s, kind), c)
      PROVE  OneFlush'
  <2>1. PICK x \in Batches : x = Batch(s, kind) /\ x.kind = kind /\ x.by = s
    BY BatchTyped
  <2>2. IsFlush(x)' /\ x.kind # "results"
    BY <1>j, <2>1 DEF IsFlush
  <2> QED
    BY <1>j, <1>p, <2>1, <2>2, JoinFlush
<1>1. CASE ProviderStarts
  BY <1>1, <1>w, <1>k DEF ProviderStarts, batch, socket, history
<1>2. CASE ProviderCalls
  BY <1>2, <1>w, <1>k DEF ProviderCalls, batch, socket, history
<1>3. CASE ProviderSpeaks
  BY <1>3, <1>w, <1>k DEF ProviderSpeaks, batch, socket, history
<1>4. CASE ProviderFinishes
  BY <1>4, <1>w, <1>k DEF ProviderFinishes, batch, socket, history
<1>5. CASE OperatorSpeaks
  BY <1>5, <1>w, <1>k DEF OperatorSpeaks, batch, socket, history
<1>6. CASE SpeakerDrains
  BY <1>6, <1>w, <1>k DEF SpeakerDrains, batch, socket, history
<1>7. CASE Grant
  <2>0. /\ UNCHANGED <<outputs, closed, tools, running, wired, answered>>
        /\ line # <<>> /\ line' = Tail(line) /\ writing = None /\ writing' \in
           {None, Head(line)}
    BY <1>7 DEF Grant, batch, history
  <2>1. /\ Head(line) = line[1] /\ 1 \in 1 .. Len(line)
        /\ \A i \in 1 .. Len(line') : i + 1 \in 1 .. Len(line) /\ line'[i] =
           line[i + 1]
        /\ Len(line') = Len(line) - 1
    BY <1>a, <2>0, HeadTaken
  <2>2. \A x \in Batches : IsFlush(x) => IsFlush(x)'
    BY <2>0 DEF IsFlush
  <2>3. ASSUME NEW i \in 1 .. Len(line') PROVE IsFlush(line[i])'
    <3>1. PICK x \in Batches : x = line[i + 1] /\ IsFlush(x)
      BY <1>a, <1>p, <2>1 DEF OneFlush
    <3>2. x = line'[i] /\ IsFlush(x)'
      BY <2>1, <2>2, <3>1
    <3> QED
      BY <3>2
  <2>4. writing' # None => IsFlush(writing)'
    <3> SUFFICES ASSUME writing' # None PROVE IsFlush(writing)'
      OBVIOUS
    <3>1. PICK x \in Batches : x = line[1] /\ IsFlush(x)
      BY <1>a, <1>p, <2>1 DEF OneFlush
    <3>2. x = writing' /\ IsFlush(x)'
      BY <2>0, <2>1, <2>2, <3>1
    <3> QED
      BY <3>2
  <2>5. \A i, j \in 1 .. Len(line') : line'[i].kind = "results" /\
     line'[j].kind = "results" => i = j
    <3> SUFFICES ASSUME NEW i \in 1 .. Len(line'), NEW j \in 1 .. Len(line'),
                        line'[i].kind = "results", line'[j].kind = "results"
                 PROVE  i = j
      OBVIOUS
    <3>1. i + 1 = j + 1
      BY <1>p, <2>1 DEF OneFlush
    <3> QED
      BY <1>a, <2>1, <3>1
  <2>6. writing' # None /\ writing'.kind = "results" => \A i \in 1 ..
     Len(line') : line'[i].kind # "results"
    <3> SUFFICES ASSUME writing' # None, writing'.kind = "results", NEW i \in
       1 .. Len(line'), line'[i].kind = "results"
                 PROVE  FALSE
      OBVIOUS
    <3>1. i + 1 = 1
      BY <1>p, <2>0, <2>1 DEF OneFlush
    <3> QED
      BY <1>a, <2>1, <3>1
  <2>7. OneFlush'
    BY <2>3, <2>4, <2>5, <2>6 DEF OneFlush
  <2> QED
    BY <1>k, <2>0, <2>7
<1>8. CASE SendReturns
  <2>0. writing # None /\ writing \in Batches /\ UNCHANGED <<tools, running,
     wired>> /\ IsFlush(writing)
    BY <1>8, <1>l, <1>p DEF SendReturns, LineTyped, OneFlush
  <2>1. CASE /\ writing.kind # "results" /\ writing' = None
             /\ UNCHANGED <<line, outputs, closed, answered>>
    <3>1. \A x \in Batches : IsFlush(x) => IsFlush(x)'
      BY <2>1 DEF IsFlush
    <3>2. ASSUME NEW i \in 1 .. Len(line) PROVE IsFlush(line[i])'
      <4>1. PICK x \in Batches : x = line[i] /\ IsFlush(x)
        BY <1>a, <1>p DEF OneFlush
      <4>2. x = line'[i] /\ IsFlush(x)'
        BY <2>1, <3>1, <4>1
      <4> QED
        BY <4>2
    <3>3. OneFlush'
      BY <1>p, <2>1, <3>2 DEF OneFlush
    <3> QED
      BY <1>k, <2>0, <2>1, <3>3
  <2>2. CASE /\ writing.kind = "results" /\ answered' = answered \o
                Answers(writing.calls)
             /\ outputs' = <<>> /\ closed' = FALSE
    <3>1. /\ Flushable(outputs, closed) /\ writing.calls \in Seq(Calls)
          /\ \A i \in 1 .. Len(line) : line[i].kind # "results"
      BY <1>p, <2>0, <2>2 DEF IsFlush, OneFlush, Batches
    <3>2. Len(tools) = 0 /\ running = 0
      <4>1. \A i \in 1 .. Len(outputs) : outputs[i].ready
        BY <3>1 DEF Flushable
      <4>2. running = 0
        BY <1>b, <1>p, <4>1 DEF Pending
      <4>3. 1 .. Len(tools) = {}
        BY <1>b, <1>p, <4>1 DEF Pending
      <4>4. Len(tools) = 0
        <5>1. Len(tools) \in Nat /\ (Len(tools) # 0 => 1 \in 1 .. Len(tools))
          BY <1>b
        <5> QED
          BY <4>3, <5>1
      <4> QED
        BY <4>2, <4>4
    <3>3. answered' \in Seq(Answered)
      BY <1>b, <2>2, <3>1, AnswersTyped
    <3>4. tools = <<>> /\ Len(<<>>) = 0 /\ <<>> \in Seq(Slots)
      BY <1>b, <3>2
    <3>a. 1 .. Len(tools') = {} /\ Len(tools') = 0 /\ tools' \in Seq(Nat)
      BY <1>b, <2>0, <3>4
    <3>b. running' \in 0 .. Len(outputs') /\ Len(tools') <= ToolQueueSize
      BY <2>0, <2>2, <3>2, <3>4, <3>a, VoiceTurnAssumption
    <3>5. BatchOK'
      BY <1>b, <2>0, <2>2, <3>3, <3>4, <3>a, <3>b DEF BatchOK
    <3>6. 1 .. Len(tools') = {}
      BY <2>0, <3>4
    <3>7. Pending'
      BY <2>0, <2>2, <3>2, <3>6 DEF Pending
    <3>8. \A x \in Batches : IsFlush(x) /\ x.kind # "results" => IsFlush(x)'
      BY DEF IsFlush
    <3>9. ASSUME NEW i \in 1 .. Len(line) PROVE \E x \in Batches : x = line[i]
       /\ IsFlush(x)' /\ x.kind # "results"
      <4>1. PICK x \in Batches : x = line[i] /\ IsFlush(x)
        BY <1>a, <1>p DEF OneFlush
      <4> QED
        BY <3>1, <3>8, <4>1
    <3>10. PICK x \in Batches : x = Batch("receiver", "reply") /\ x.kind =
       "reply"
      BY <1>t, BatchTyped
    <3>11. IsFlush(x)'
      BY <3>10 DEF IsFlush
    <3>12. CASE line' = line /\ writing' \in {None, x}
      <4>1. ASSUME NEW i \in 1 .. Len(line')
            PROVE  IsFlush(line[i])' /\ line'[i].kind # "results"
        <5>1. PICK y \in Batches : y = line[i] /\ IsFlush(y)' /\ y.kind #
           "results"
          BY <3>9, <3>12
        <5>2. y = line'[i]
          BY <3>12, <5>1
        <5> QED
          BY <5>1, <5>2
      <4>2. writing' # None => IsFlush(writing)' /\ writing'.kind # "results"
        <5> SUFFICES ASSUME writing' = x
                     PROVE  IsFlush(writing)' /\ writing'.kind # "results"
          BY <3>12
        <5> QED
          BY <3>10, <3>11
      <4> QED
        BY <3>5, <3>7, <4>1, <4>2 DEF OneFlush
    <3>13. CASE line' = Append(line, x) /\ writing' = None
      <4>0. /\ Len(line') = Len(line) + 1 /\ line'[Len(line) + 1] = x
            /\ \A i \in 1 .. Len(line) : line'[i] = line[i]
            /\ \A i \in 1 .. Len(line') : i \in 1 .. Len(line) \/ i =
               Len(line) + 1
        BY <1>a, <3>13, Appended
      <4>1. ASSUME NEW i \in 1 .. Len(line')
            PROVE  IsFlush(line[i])' /\ line'[i].kind # "results"
        <5>1. PICK y \in Batches : y = line'[i] /\ IsFlush(y)' /\ y.kind #
           "results"
          BY <3>9, <3>10, <3>11, <4>0
        <5> QED
          BY <5>1
      <4> QED
        BY <3>5, <3>7, <3>13, <4>1 DEF OneFlush
    <3> QED
      BY <1>8, <2>2, <3>10, <3>12, <3>13 DEF SendReturns
  <2> QED
    BY <1>8, <2>1, <2>2 DEF SendReturns
<1>9. CASE MicrophoneSends
  <2>1. UNCHANGED <<outputs, closed, tools, running, wired, answered>>
    BY <1>9 DEF MicrophoneSends, batch, history
  <2>2. Lasting
    BY <1>m, <2>1
  <2>3. Join(Batch("microphone", "input"), FALSE)
    BY <1>9 DEF MicrophoneSends
  <2> QED
    BY <1>t, <1>k, <1>j, <2>1, <2>2, <2>3
<1>10. CASE ReadStarted
  <2>1. UNCHANGED <<outputs, closed, tools, running, wired, answered>>
    BY <1>10 DEF ReadStarted, batch, history
  <2>2. Lasting
    BY <1>m, <2>1
  <2>3. Join(Batch("receiver", "reply"), TRUE)
    BY <1>10 DEF ReadStarted, Reply
  <2> QED
    BY <1>t, <1>k, <1>j, <2>1, <2>2, <2>3
<1>11. CASE ReadAudio
  <2>1. UNCHANGED <<outputs, closed, tools, running, wired, answered>>
    BY <1>11 DEF ReadAudio, batch, history
  <2>2. Lasting
    BY <1>m, <2>1
  <2>3. Join(Batch("receiver", "reply"), FALSE)
    BY <1>11 DEF ReadAudio, Reply
  <2> QED
    BY <1>t, <1>k, <1>j, <2>1, <2>2, <2>3
<1>12. CASE ReadSpeech
  <2>1. UNCHANGED <<outputs, closed, tools, running, wired, answered>>
    BY <1>12 DEF ReadSpeech, batch, history
  <2>2. Lasting
    BY <1>m, <2>1
  <2>3. Join(Batch("receiver", "reply"), FALSE) \/ Join(Batch("receiver",
     "cancel"), FALSE)
    BY <1>12 DEF ReadSpeech, Reply
  <2> QED
    BY <1>t, <1>k, <1>j, <2>1, <2>2, <2>3
<1>13. CASE ReadCall
  <2>0. CASE closed
    <3>1. UNCHANGED <<outputs, closed, tools, running, wired, answered,
       writing, line>>
      BY <1>13, <2>0 DEF ReadCall
    <3> QED
      BY <1>k, <1>w, <3>1
  <2>a. CASE ~closed
    <3>1. PICK e \in Events : e = Head(inbox) /\ e.type = "call" /\ e.id \in
       Responses /\ e.nth # 0
      <4>1. /\ inbox # <<>> /\ Head(inbox).type = "call" /\ inbox \in
               Seq(Events)
        BY <1>13 DEF ReadCall, Reads, ServerOK
      <4>2. Head(inbox) = inbox[1] /\ 1 \in Unread /\ inbox[1] \in Events
        BY <4>1, HeadTaken DEF Unread
      <4>3. inbox[1].id # 0 /\ inbox[1].nth # 0
        BY <4>1, <4>2 DEF OrderInv, EventsKnown
      <4>4. inbox[1].id \in Responses
        BY <4>2, <4>3 DEF Events
      <4> QED
        BY <4>1, <4>2, <4>3, <4>4
    <3>n. e.nth \in 1 .. MaxCalls
      BY <3>1, VoiceTurnAssumption DEF Events
    <3>2. PICK call \in Calls : call = <<e.id, e.nth>>
      BY <3>1, <3>n DEF Calls
    <3>3. PICK slot \in Slots : slot = [call |-> call, ready |-> Full] /\
       slot.call = call /\ slot.ready = Full
      <4>1. PICK full \in BOOLEAN : full = Full
        BY DEF Full
      <4>2. [call |-> call, ready |-> full] \in Slots
        BY DEF Slots
      <4> QED
        BY <4>1, <4>2
    <3>4. /\ outputs' = Append(outputs, slot) /\ wired' = Append(wired, call)
          /\ tools' = (IF Full THEN tools ELSE Append(tools, Len(outputs')))
          /\ UNCHANGED <<closed, running, writing, line, answered>>
      BY <1>13, <2>a, <3>1, <3>2, <3>3 DEF ReadCall
    <3>5. /\ outputs' \in Seq(Slots) /\ Len(outputs') = Len(outputs) + 1
          /\ outputs'[Len(outputs) + 1] = slot
          /\ \A i \in 1 .. Len(outputs) : outputs'[i] = outputs[i]
      BY <1>b, <3>4, Appended
    <3>6. wired' \in Seq(Calls)
      BY <1>b, <3>4
    <3>8. /\ tools' \in Seq(Nat) /\ Len(tools') <= ToolQueueSize
          /\ \A i \in 1 .. Len(tools') :
               \/ i \in 1 .. Len(tools) /\ tools'[i] = tools[i]
               \/ i = Len(tools) + 1 /\ ~Full /\ tools'[i] = Len(outputs) + 1
      <4>1. CASE Full
        BY <1>b, <3>4, <4>1
      <4>2. CASE ~Full
        <5>1. Len(outputs') \in Nat /\ Len(outputs') = Len(outputs) + 1
          BY <1>b, <3>5
        <5>2. tools' = Append(tools, Len(outputs'))
          BY <3>4, <4>2
        <5>3. /\ tools' \in Seq(Nat) /\ Len(tools') = Len(tools) + 1
              /\ \A i \in 1 .. Len(tools) : tools'[i] = tools[i]
              /\ tools'[Len(tools) + 1] = Len(outputs')
              /\ \A i \in 1 .. Len(tools') : i \in 1 .. Len(tools) \/ i =
                 Len(tools) + 1
          BY <1>b, <5>1, <5>2, Appended
        <5>4. Len(tools) < ToolQueueSize
          BY <1>b, <4>2, VoiceTurnAssumption DEF Full
        <5>5. Len(tools') <= ToolQueueSize
          BY <1>b, <5>3, <5>4, VoiceTurnAssumption
        <5> QED
          BY <4>2, <5>1, <5>3, <5>5
      <4> QED
        BY <4>1, <4>2
    <3>7. \A i \in 1 .. Len(tools') : tools'[i] \in 1 .. Len(outputs')
      <4> SUFFICES ASSUME NEW i \in 1 .. Len(tools')
                   PROVE  tools'[i] \in 1 .. Len(outputs')
        OBVIOUS
      <4>1. CASE i \in 1 .. Len(tools) /\ tools'[i] = tools[i]
        BY <1>b, <3>5, <4>1
      <4>2. CASE tools'[i] = Len(outputs) + 1
        BY <1>b, <3>5, <4>2
      <4> QED
        BY <3>8, <4>1, <4>2
    <3>9. BatchOK'
      BY <1>b, <3>4, <3>5, <3>6, <3>7, <3>8 DEF BatchOK
    <3>10. \A i \in 1 .. Len(tools') : tools'[i] # running' /\
       ~outputs'[tools'[i]].ready
      <4> SUFFICES ASSUME NEW i \in 1 .. Len(tools')
                   PROVE  tools'[i] # running' /\ ~outputs'[tools'[i]].ready
        OBVIOUS
      <4>1. CASE i \in 1 .. Len(tools) /\ tools'[i] = tools[i]
        BY <1>b, <1>p, <3>4, <3>5, <4>1 DEF Pending
      <4>2. CASE ~Full /\ tools'[i] = Len(outputs) + 1
        BY <1>b, <3>3, <3>4, <3>5, <4>2
      <4> QED
        BY <3>8, <4>1, <4>2
    <3>11. \A i, j \in 1 .. Len(tools') : tools'[i] = tools'[j] => i = j
      <4> SUFFICES ASSUME NEW i \in 1 .. Len(tools'), NEW j \in 1 .. Len(tools'),
                          tools'[i] = tools'[j]
                   PROVE  i = j
        OBVIOUS
      <4>1. CASE i \in 1 .. Len(tools) /\ tools'[i] = tools[i]
        <5>1. tools'[j] \in 1 .. Len(outputs)
          BY <1>b, <4>1
        <5>2. j \in 1 .. Len(tools) /\ tools'[j] = tools[j]
          BY <1>b, <3>8, <5>1
        <5> QED
          BY <1>p, <4>1, <5>2 DEF Pending
      <4>2. CASE i = Len(tools) + 1 /\ tools'[i] = Len(outputs) + 1
        <5>1. tools'[j] \notin 1 .. Len(outputs)
          BY <1>b, <4>2
        <5> QED
          BY <1>b, <3>8, <4>2, <5>1
      <4> QED
        BY <3>8, <4>1, <4>2
    <3>12. running' # 0 => ~outputs'[running'].ready
      BY <1>b, <1>p, <3>4, <3>5 DEF Pending
    <3>13. Pending'
      BY <2>a, <3>4, <3>10, <3>11, <3>12 DEF Pending
    <3>14. ~Flushing
      BY <1>p, <2>a, FlushesWhole DEF Flushable
    <3>15. Lasting
      BY <3>14 DEF Lasting, IsFlush
    <3> QED
      BY <1>p, <3>4, <3>9, <3>13, <3>15, LineFlush
  <2> QED
    BY <2>0, <2>a
<1>14. CASE ReadDone
  <2>1. UNCHANGED <<outputs, tools, running, wired, answered>> /\ closed' =
     (closed \/ outputs # <<>>)
    BY <1>14 DEF ReadDone, history
  <2>b. closed' \in BOOLEAN
    BY <2>1
  <2>2. BatchOK'
    BY <1>b, <2>1, <2>b DEF BatchOK
  <2>3. Pending'
    BY <1>p, <2>1 DEF Pending
  <2>4. Flushable(outputs, closed) => Flushable(outputs, closed')
    BY <2>1 DEF Flushable
  <2>5. Lasting
    BY <2>1, <2>4 DEF Lasting, IsFlush
  <2>6. CASE Reply("reply", FALSE)
    BY <1>t, <1>j, <2>2, <2>3, <2>5, <2>6 DEF Reply
  <2>7. CASE /\ Flushable(outputs, closed') /\ ~Flushing
             /\ Join(Results("receiver", outputs), FALSE)
    <3>1. PICK x \in Batches :
               /\ x = Results("receiver", outputs)
               /\ x.by = "receiver" /\ x.kind = "results"
               /\ x.calls = [i \in 1 .. Len(outputs) |-> outputs[i].call]
      BY <1>b, <1>t, ResultsTyped
    <3>2. IsFlush(x)'
      BY <2>1, <2>7, <3>1 DEF IsFlush
    <3>3. OneFlush'
      BY <1>p, <2>5, <2>7, <3>1, <3>2, JoinFlush
    <3> QED
      BY <2>2, <2>3, <3>3
  <2>8. CASE UNCHANGED <<writing, line>>
    BY <1>p, <2>2, <2>3, <2>5, <2>8, LineFlush
  <2> QED
    BY <1>14, <2>6, <2>7, <2>8 DEF ReadDone
<1>15. CASE ReadError
  <2>1. UNCHANGED <<outputs, closed, tools, running, wired, answered>>
    BY <1>15 DEF ReadError, batch, history
  <2>2. Lasting
    BY <1>m, <2>1
  <2>3. Join(Batch("receiver", "reply"), FALSE)
    BY <1>15 DEF ReadError, Reply
  <2> QED
    BY <1>t, <1>k, <1>j, <2>1, <2>2, <2>3
<1>16. CASE FlushWaited
  <2>1. UNCHANGED <<outputs, closed, tools, running, wired, answered>>
    BY <1>16 DEF FlushWaited, batch, history
  <2>2. Lasting
    BY <1>m, <2>1
  <2>3. Join(Batch("receiver", "reply"), FALSE)
    BY <1>16 DEF FlushWaited, Reply
  <2> QED
    BY <1>t, <1>k, <1>j, <2>1, <2>2, <2>3
<1>17. CASE WorkerTakes
  <2>1. /\ UNCHANGED <<outputs, closed, wired, answered, writing, line>>
        /\ running' = Head(tools) /\ tools' = Tail(tools) /\ tools # <<>> /\
           running = 0
    BY <1>17 DEF WorkerTakes, socket, history
  <2>2. /\ Head(tools) = tools[1] /\ 1 \in 1 .. Len(tools) /\ tools' \in
           Seq(Nat)
        /\ tools[1] \in 1 .. Len(outputs) /\ Len(tools') = Len(tools) - 1
        /\ \A i \in 1 .. Len(tools') : i + 1 \in 1 .. Len(tools) /\ tools'[i]
           = tools[i + 1]
    BY <1>b, <2>1, HeadTaken
  <2>a. \A i \in 1 .. Len(tools') : tools'[i] \in 1 .. Len(outputs)
    BY <1>b, <2>2
  <2>b. Len(tools') <= ToolQueueSize /\ running' \in 0 .. Len(outputs)
    BY <1>b, <2>1, <2>2, VoiceTurnAssumption
  <2>3. BatchOK'
    BY <1>b, <2>1, <2>2, <2>a, <2>b DEF BatchOK
  <2>4. \A i \in 1 .. Len(tools') : tools'[i] # running' /\
     ~outputs'[tools'[i]].ready
    <3> SUFFICES ASSUME NEW i \in 1 .. Len(tools') PROVE tools'[i] # running'
       /\ ~outputs'[tools'[i]].ready
      OBVIOUS
    <3>1. i + 1 \in 1 .. Len(tools) /\ i + 1 # 1 /\ tools'[i] = tools[i + 1]
      BY <1>b, <2>2
    <3> QED
      BY <1>p, <2>1, <2>2, <3>1 DEF Pending
  <2>5. \A i, j \in 1 .. Len(tools') : tools'[i] = tools'[j] => i = j
    <3> SUFFICES ASSUME NEW i \in 1 .. Len(tools'), NEW j \in 1 .. Len(tools'),
                        tools'[i] = tools'[j]
                 PROVE  i = j
      OBVIOUS
    <3>0. i + 1 \in 1 .. Len(tools) /\ j + 1 \in 1 .. Len(tools) /\ tools[i +
       1] = tools[j + 1]
      BY <2>2
    <3>1. i + 1 = j + 1
      BY <1>p, <3>0 DEF Pending
    <3> QED
      BY <1>b, <2>2, <3>1
  <2>6. running' # 0 => ~outputs'[running'].ready
    BY <1>p, <2>1, <2>2 DEF Pending
  <2>7. Pending'
    BY <1>p, <2>1, <2>4, <2>5, <2>6 DEF Pending
  <2> QED
    BY <1>w, <2>1, <2>3, <2>7
<1>18. CASE ToolEnds
  <2>1. /\ outputs' \in Seq(Slots) /\ Len(outputs') = Len(outputs) /\ running
           \in 1 .. Len(outputs)
        /\ \A i \in 1 .. Len(outputs) :
             outputs'[i].call = outputs[i].call /\ (outputs'[i].ready <=> i =
                running \/ outputs[i].ready)
    BY <1>18, ToolOutput
  <2>2. running' = 0 /\ running # 0 /\ UNCHANGED <<closed, tools, wired,
     answered>>
    BY <1>18 DEF ToolEnds, history
  <2>3. BatchOK'
    BY <1>b, <2>1, <2>2 DEF BatchOK
  <2>4. \A i \in 1 .. Len(tools') : tools'[i] # running' /\
     ~outputs'[tools'[i]].ready
    <3> SUFFICES ASSUME NEW i \in 1 .. Len(tools)
                 PROVE  tools[i] # 0 /\ ~outputs'[tools[i]].ready
      BY <2>2
    <3>1. tools[i] \in 1 .. Len(outputs) /\ tools[i] # running /\
       ~outputs[tools[i]].ready
      BY <1>b, <1>p DEF Pending
    <3> QED
      BY <1>b, <2>1, <3>1
  <2>5. closed' => outputs' # <<>>
    BY <1>b, <2>1, <2>2
  <2>6. Pending'
    BY <1>p, <2>2, <2>4, <2>5 DEF Pending
  <2>7. ~Flushable(outputs, closed)
    BY <1>p, <2>1, <2>2 DEF Pending, Flushable
  <2>8. ~Flushing
    BY <1>p, <2>7, FlushesWhole
  <2>9. Lasting
    BY <2>8 DEF Lasting, IsFlush
  <2>10. CASE Flushable(outputs', closed) /\ Join(Results("worker", outputs'),
     FALSE)
    <3>1. PICK outs \in Seq(Slots) : outs = outputs'
      BY <2>1
    <3>2. PICK x \in Batches :
               /\ x = Results("worker", outs) /\ x.by = "worker" /\ x.kind =
                  "results"
               /\ x.calls = [i \in 1 .. Len(outs) |-> outs[i].call]
      BY <1>t, ResultsTyped
    <3>3. IsFlush(x)'
      BY <2>2, <2>10, <3>1, <3>2 DEF IsFlush
    <3>4. OneFlush'
      BY <1>p, <2>8, <2>9, <2>10, <3>1, <3>2, <3>3, JoinFlush
    <3> QED
      BY <2>3, <2>6, <3>4
  <2>11. CASE UNCHANGED <<writing, line>>
    BY <1>p, <2>3, <2>6, <2>9, <2>11, LineFlush
  <2> QED
    BY <1>18, <2>10, <2>11 DEF ToolEnds
<1>19. CASE Announce
  BY <1>19, <1>w, <1>k DEF Announce, batch, history
<1>20. CASE PumpSends
  <2>1. UNCHANGED <<outputs, closed, tools, running, wired, answered>>
    BY <1>20 DEF PumpSends, batch, history
  <2>2. Lasting
    BY <1>m, <2>1
  <2>3. Join(Batch("pump", "announcement"), FALSE)
    BY <1>20 DEF PumpSends
  <2> QED
    BY <1>t, <1>k, <1>j, <2>1, <2>2, <2>3
<1>21. CASE UNCHANGED vars
  BY <1>21, <1>w, <1>k DEF vars, batch, socket, history
<1> QED
  BY <1>1, <1>2, <1>3, <1>4, <1>5, <1>6, <1>7, <1>8, <1>9, <1>10, <1>11,
     <1>12, <1>13, <1>14, <1>15, <1>16, <1>17, <1>18, <1>19, <1>20, <1>21 DEF
        Next

-----------------------------------------------------------------------------
(* The answers.                                                            *)

\* How a step moves the batch: it keeps its calls, admits one, is flushed, or is closed.
CallsKept ==
  /\ UNCHANGED <<answered, wired, closed>> /\ Len(outputs') = Len(outputs)
  /\ \A i \in 1 .. Len(outputs) : outputs'[i].call = outputs[i].call

Admits ==
  /\ ReadCall /\ UNCHANGED <<answered, closed>> /\ ~closed
  /\ \E call \in Calls, slot \in Slots :
       /\ call[1] = Head(inbox).id /\ slot.call = call
       /\ outputs' = Append(outputs, slot) /\ wired' = Append(wired, call)

Flushes ==
  /\ writing # None /\ writing.kind = "results"
  /\ answered' = answered \o Answers(writing.calls)
  /\ outputs' = <<>> /\ closed' = FALSE /\ UNCHANGED wired

\* The batch in the making changes by a call that is admitted, an output, or a flush.
LEMMA BatchMoves ==
  ServerOK /\ OrderInv /\ BatchOK /\ [Next]_vars => CallsKept \/ Admits \/ Flushes \/
    ReadDone
<1> SUFFICES ASSUME ServerOK /\ OrderInv /\ BatchOK, [Next]_vars
             PROVE  CallsKept \/ Admits \/ Flushes \/ ReadDone
  OBVIOUS
<1>1. CASE ProviderStarts
  BY <1>1 DEF ProviderStarts, batch, history, CallsKept
<1>2. CASE ProviderCalls
  BY <1>2 DEF ProviderCalls, batch, history, CallsKept
<1>3. CASE ProviderSpeaks
  BY <1>3 DEF ProviderSpeaks, batch, history, CallsKept
<1>4. CASE ProviderFinishes
  BY <1>4 DEF ProviderFinishes, batch, history, CallsKept
<1>5. CASE OperatorSpeaks
  BY <1>5 DEF OperatorSpeaks, batch, history, CallsKept
<1>6. CASE SpeakerDrains
  BY <1>6 DEF SpeakerDrains, batch, history, CallsKept
<1>7. CASE Grant
  BY <1>7 DEF Grant, batch, history, CallsKept
<1>8. CASE SendReturns
  BY <1>8 DEF SendReturns, CallsKept, Flushes
<1>9. CASE MicrophoneSends
  BY <1>9 DEF MicrophoneSends, batch, history, CallsKept
<1>10. CASE ReadStarted
  BY <1>10 DEF ReadStarted, batch, history, CallsKept
<1>11. CASE ReadAudio
  BY <1>11 DEF ReadAudio, batch, history, CallsKept
<1>12. CASE ReadSpeech
  BY <1>12 DEF ReadSpeech, batch, history, CallsKept
<1>13. CASE ReadCall
  <2>0. CASE closed
    BY <1>13, <2>0 DEF ReadCall, CallsKept
  <2>a. CASE ~closed
    <3>1. PICK e \in Events : e = Head(inbox) /\ e.type = "call" /\ e.id \in
       Responses /\ e.nth # 0
      <4>1. inbox # <<>> /\ Head(inbox).type = "call" /\ inbox \in Seq(Events)
        BY <1>13 DEF ReadCall, Reads, ServerOK
      <4>2. Head(inbox) = inbox[1] /\ 1 \in Unread /\ inbox[1] \in Events
        BY <4>1, HeadTaken DEF Unread
      <4>3. inbox[1].id # 0 /\ inbox[1].nth # 0
        BY <4>1, <4>2 DEF OrderInv, EventsKnown
      <4>4. inbox[1].id \in Responses
        BY <4>2, <4>3 DEF Events
      <4> QED
        BY <4>1, <4>2, <4>3, <4>4
    <3>2. e.nth \in 1 .. MaxCalls
      BY <3>1, VoiceTurnAssumption DEF Events
    <3>3. PICK call \in Calls : call = <<e.id, e.nth>>
      BY <3>1, <3>2 DEF Calls
    <3>a. call[1] = e.id
      BY <3>3
    <3>4. PICK full \in BOOLEAN : full = Full
      BY DEF Full
    <3>5. PICK slot \in Slots : slot = [call |-> call, ready |-> full]
      BY DEF Slots
    <3>b. slot.call = call
      BY <3>5
    <3>6. /\ outputs' = Append(outputs, slot) /\ wired' = Append(wired, call)
          /\ UNCHANGED <<answered, closed>>
      BY <1>13, <2>a, <3>1, <3>3, <3>4, <3>5 DEF ReadCall
    <3> QED
      BY <1>13, <2>a, <3>1, <3>a, <3>b, <3>6 DEF Admits
  <2> QED
    BY <2>0, <2>a
<1>14. CASE ReadDone
  BY <1>14
<1>15. CASE ReadError
  BY <1>15 DEF ReadError, batch, history, CallsKept
<1>16. CASE FlushWaited
  BY <1>16 DEF FlushWaited, batch, history, CallsKept
<1>17. CASE WorkerTakes
  BY <1>17 DEF WorkerTakes, history, CallsKept
<1>18. CASE ToolEnds
  <2>1. /\ Len(outputs') = Len(outputs)
        /\ \A i \in 1 .. Len(outputs) : outputs'[i].call = outputs[i].call
    BY <1>18, ToolOutput
  <2> QED
    BY <1>18, <2>1 DEF ToolEnds, history, CallsKept
<1>19. CASE Announce
  BY <1>19 DEF Announce, batch, history, CallsKept
<1>20. CASE PumpSends
  BY <1>20 DEF PumpSends, batch, history, CallsKept
<1>21. CASE UNCHANGED vars
  BY <1>21 DEF vars, batch, history, CallsKept
<1> QED
  BY <1>1, <1>2, <1>3, <1>4, <1>5, <1>6, <1>7, <1>8, <1>9, <1>10, <1>11,
     <1>12, <1>13, <1>14, <1>15, <1>16, <1>17, <1>18, <1>19, <1>20, <1>21 DEF
        Next

\* A batch that is flushed was closed, and its calls are answered.
LEMMA FlushFacts ==
  ASSUME BatchOK, SocketOK, FlushInv, Flushes
  PROVE  /\ closed /\ Len(outputs') = 0 /\ closed' = FALSE /\ wired' = wired
         /\ Len(answered) \in Nat /\ Len(outputs) \in Nat
         /\ Len(answered') = Len(answered) + Len(outputs)
         /\ \A i \in 1 .. Len(answered) : answered'[i] = answered[i]
         /\ \A i \in 1 .. Len(outputs) :
              /\ answered'[Len(answered) + i].call = outputs[i].call
              /\ answered'[Len(answered) + i].batch = Len(answered)
         /\ \A i \in 1 .. Len(answered') :
              i \in 1 .. Len(answered) \/ (i - Len(answered) \in 1 .. Len(outputs))
<1>1. writing \in Batches /\ IsFlush(writing)
  BY DEF Flushes, SocketOK, LineTyped, FlushInv, OneFlush
<1>2. writing.calls \in Seq(Calls)
  BY <1>1 DEF Batches
<1>3. closed /\ writing.calls = [i \in 1 .. Len(outputs) |-> outputs[i].call]
  BY <1>1 DEF Flushes, IsFlush, Flushable
<1>4. Len(outputs) \in Nat /\ answered \in Seq(Answered)
  BY Element DEF BatchOK
<1>5. Len(writing.calls) = Len(outputs)
  BY <1>3, <1>4
<1>6. \A i \in 1 .. Len(outputs) : writing.calls[i] = outputs[i].call
  BY <1>3
<1>7. PICK s \in Seq(Calls) : s = writing.calls
  BY <1>2
<1>8. answered' = answered \o Answers(s) /\ Len(outputs') = 0 /\ closed' = FALSE /\ wired' = wired
  BY <1>7 DEF Flushes
<1>9. Len(s) = Len(outputs) /\ \A i \in 1 .. Len(outputs) : s[i] = outputs[i].call
  BY <1>5, <1>6, <1>7
<1>10. /\ Len(answered) \in Nat /\ Len(answered') = Len(answered) + Len(s)
       /\ \A i \in 1 .. Len(answered) : answered'[i] = answered[i]
       /\ \A i \in 1 .. Len(s) :
            /\ answered'[Len(answered) + i].call = s[i]
            /\ answered'[Len(answered) + i].batch = Len(answered)
       /\ \A i \in 1 .. Len(answered') : i \in 1 .. Len(answered) \/ (i - Len(answered) \in 1 .. Len(s))
  BY <1>4, <1>8, AnswersTyped
<1> QED
  BY <1>3, <1>4, <1>8, <1>9, <1>10

\* A call that is admitted comes last, and its response is in progress.
LEMMA AdmitFacts ==
  ASSUME ServerOK, OrderInv, BatchOK, Course, Admits
  PROVE  \E r \in Responses :
           /\ InProgress(r) /\ ~closed /\ closed' = closed /\ answered' = answered /\ ~ReadDone
           /\ Len(outputs) \in Nat /\ Len(outputs') = Len(outputs) + 1
           /\ \A i \in 1 .. Len(outputs) : outputs'[i] = outputs[i]
           /\ outputs'[Len(outputs) + 1].call[1] = r
           /\ Len(wired) \in Nat /\ Len(wired') = Len(wired) + 1
           /\ \A i \in 1 .. Len(wired) : wired'[i] = wired[i]
           /\ wired'[Len(wired) + 1] = outputs'[Len(outputs) + 1].call
<1>1. PICK call \in Calls, slot \in Slots :
        /\ call[1] = Head(inbox).id /\ slot.call = call
        /\ outputs' = Append(outputs, slot) /\ wired' = Append(wired, call)
  BY DEF Admits
<1>2. PICK r \in Responses : r = Head(inbox).id /\ InProgress(r)
  BY DEF Course, Admits
<1>3. ~ReadDone
  BY DEF Admits, ReadCall, ReadDone, Reads
<1>4. /\ Len(outputs) \in Nat /\ Len(outputs') = Len(outputs) + 1
      /\ \A i \in 1 .. Len(outputs) : outputs'[i] = outputs[i]
      /\ outputs'[Len(outputs) + 1] = slot
  BY <1>1, Appended, Element DEF BatchOK
<1>5. /\ Len(wired) \in Nat /\ Len(wired') = Len(wired) + 1
      /\ \A i \in 1 .. Len(wired) : wired'[i] = wired[i]
      /\ wired'[Len(wired) + 1] = call
  BY <1>1, Appended, Element DEF BatchOK
<1> QED
  BY <1>1, <1>2, <1>3, <1>4, <1>5 DEF Admits

\* A call that is read is the last of both; a flush moves calls from one to the other.
LEMMA AnswersStep ==
  /\ ServerOK /\ OrderInv /\ BatchOK /\ SocketOK /\ FlushInv /\ InWireOrder /\ [Next]_vars
  => InWireOrder'
<1> SUFFICES ASSUME ServerOK, OrderInv, BatchOK, SocketOK, FlushInv, InWireOrder, [Next]_vars
             PROVE  InWireOrder'
  OBVIOUS
<1>0. Len(wired) \in Nat /\ Len(answered) \in Nat /\ Len(outputs) \in Nat
  BY Element DEF BatchOK
<1>1. CASE CallsKept
  BY <1>0, <1>1 DEF CallsKept, InWireOrder
<1>2. CASE ReadDone
  BY <1>2 DEF ReadDone, history, InWireOrder
<1>3. CASE Flushes
  <2>1. \A i \in 1 .. Len(answered') : wired'[i] = answered'[i].call
    <3> SUFFICES ASSUME NEW i \in 1 .. Len(answered') PROVE wired'[i] = answered'[i].call
      OBVIOUS
    <3>1. CASE i \in 1 .. Len(answered)
      BY <1>3, <3>1, FlushFacts DEF InWireOrder
    <3>2. CASE i - Len(answered) \in 1 .. Len(outputs)
      <4>1. PICK k \in 1 .. Len(outputs) : k = i - Len(answered)
        BY <3>2
      <4>2. i = Len(answered) + k
        BY <1>0, <4>1
      <4>3. answered'[Len(answered) + k].call = outputs[k].call
        BY <1>3, FlushFacts
      <4> QED
        BY <1>3, <4>2, <4>3, FlushFacts DEF InWireOrder
    <3> QED
      BY <1>3, <3>1, <3>2, FlushFacts
  <2>2. Len(wired') = Len(answered') + Len(outputs') /\ 1 .. Len(outputs') = {}
    BY <1>0, <1>3, FlushFacts DEF InWireOrder
  <2> QED
    BY <2>1, <2>2 DEF InWireOrder
<1>4. CASE Admits
  <2>1. /\ Len(outputs') = Len(outputs) + 1 /\ answered' = answered /\ Len(wired') = Len(wired) + 1
        /\ \A i \in 1 .. Len(outputs) : outputs'[i] = outputs[i]
        /\ \A i \in 1 .. Len(wired) : wired'[i] = wired[i]
        /\ wired'[Len(wired) + 1] = outputs'[Len(outputs) + 1].call
    BY <1>4, AdmitFacts, CourseHolds
  <2>2. \A i \in 1 .. Len(answered) : i \in 1 .. Len(wired)
    BY <1>0 DEF InWireOrder
  <2>3. \A i \in 1 .. Len(outputs) : Len(answered) + i \in 1 .. Len(wired)
    BY <1>0 DEF InWireOrder
  <2>4. ASSUME NEW i \in 1 .. Len(outputs') PROVE wired'[Len(answered) + i] = outputs'[i].call
    <3>1. CASE i \in 1 .. Len(outputs)
      BY <2>1, <2>3, <3>1 DEF InWireOrder
    <3>2. CASE i = Len(outputs) + 1
      <4>1. Len(answered) + i = Len(wired) + 1
        BY <1>0, <3>2 DEF InWireOrder
      <4> QED
        BY <2>1, <3>2, <4>1
    <3> QED
      BY <1>0, <2>1, <3>1, <3>2
  <2> QED
    BY <1>0, <2>1, <2>2, <2>4 DEF InWireOrder
<1> QED
  BY <1>1, <1>2, <1>3, <1>4, BatchMoves

\* A call names the response that made it.
LEMMA CallOfResponse ==
  ASSUME BatchOK
  PROVE  /\ \A i \in 1 .. Len(outputs) : outputs[i].call[1] \in Responses
         /\ \A k \in 1 .. Len(answered) : answered[k].call[1] \in Responses
<1>1. \A c \in Calls : c[1] \in Responses
  BY DEF Calls
<1>2. \A i \in 1 .. Len(outputs) : outputs[i] \in Slots
  BY Element DEF BatchOK
<1>3. \A k \in 1 .. Len(answered) : answered[k] \in Answered
  BY Element DEF BatchOK
<1>4. \A i \in 1 .. Len(outputs) : outputs[i].call \in Calls
  BY <1>2 DEF Slots
<1>5. \A k \in 1 .. Len(answered) : answered[k].call \in Calls
  BY <1>3 DEF Answered
<1> QED
  BY <1>1, <1>4, <1>5

\* The number of a batch is that of the calls answered before it.
LEMMA BatchNumbers == BatchOK => \A k \in 1 .. Len(answered) : answered[k].batch \in Nat
<1> SUFFICES ASSUME BatchOK, NEW k \in 1 .. Len(answered) PROVE answered[k].batch \in Nat
  OBVIOUS
<1>1. answered[k] \in Answered
  BY Element DEF BatchOK
<1> QED
  BY <1>1 DEF Answered

\* Calls are admitted from the one response in progress, and flushed once it is over.
LEMMA WholeStep ==
  /\ ServerOK /\ OrderInv /\ BatchOK /\ SocketOK /\ FlushInv /\ WholeInv /\ [Next]_vars
  => WholeInv'
<1> SUFFICES ASSUME ServerOK, OrderInv, BatchOK, SocketOK, FlushInv, WholeInv, [Next]_vars,
                    used'.lost = 0
             PROVE  WholeInv'
  BY DEF WholeInv
<1> DEFINE Resp(i) == outputs[i].call[1]
           Of(k)   == answered[k].call[1]
<1>c. Course
  BY CourseHolds
<1>0. Len(answered) \in Nat /\ Len(outputs) \in Nat
  BY Element DEF BatchOK
<1>w. /\ \A i, j \in 1 .. Len(outputs) : Resp(i) = Resp(j)
      /\ \A i \in 1 .. Len(outputs) : Begun(Resp(i)) /\ (closed <=> Over(Resp(i)))
      /\ \A k \in 1 .. Len(answered) : Begun(Of(k)) /\ Over(Of(k)) /\ answered[k].batch < k
      /\ \A i \in 1 .. Len(outputs) : \A k \in 1 .. Len(answered) : Resp(i) # Of(k)
      /\ \A i, j \in 1 .. Len(answered) : answered[i].batch = answered[j].batch <=> Of(i) = Of(j)
  BY <1>c DEF Course, WholeInv
<1>t. /\ \A i \in 1 .. Len(outputs) : Resp(i) \in Responses
      /\ \A k \in 1 .. Len(answered) : Of(k) \in Responses
  BY CallOfResponse
<1>b. \A r \in Responses : Begun(r) => Begun(r)'
  BY <1>c DEF Course
<1>o. \A r \in Responses : Begun(r) /\ Over(r) => Begun(r)' /\ Over(r)'
  BY <1>c DEF Course, Begun
<1>e. \A r \in Responses : ~ReadDone /\ ~Over(r) => ~Over(r)'
  BY <1>c DEF Course
<1>1. ASSUME CallsKept, ~ReadDone PROVE WholeInv'
  <2>1. /\ UNCHANGED <<answered, closed>> /\ Len(outputs') = Len(outputs)
        /\ \A i \in 1 .. Len(outputs) : outputs'[i].call = outputs[i].call
    BY <1>1 DEF CallsKept
  <2>2. ASSUME NEW i \in 1 .. Len(outputs') PROVE Begun(outputs[i].call[1])' /\ (closed <=> Over(outputs[i].call[1]))'
    <3>1. PICK r \in Responses : r = Resp(i)
      BY <1>t, <2>1
    <3>2. Begun(r)' /\ (closed' <=> Over(r)')
      BY <1>1, <1>b, <1>e, <1>o, <1>w, <2>1, <3>1
    <3>3. outputs'[i].call[1] = r
      BY <2>1, <3>1
    <3> QED
      BY <3>2, <3>3
  <2>3. ASSUME NEW k \in 1 .. Len(answered') PROVE (Begun(answered[k].call[1]) /\ Over(answered[k].call[1]))'
    <3>1. PICK r \in Responses : r = Of(k)
      BY <1>t, <2>1
    <3>2. Begun(r)' /\ Over(r)'
      BY <1>o, <1>w, <2>1, <3>1
    <3>3. answered'[k].call[1] = r
      BY <2>1, <3>1
    <3> QED
      BY <3>2, <3>3
  <2> QED
    BY <1>w, <2>1, <2>2, <2>3 DEF WholeInv
<1>2. CASE ReadDone
  <2>1. UNCHANGED <<answered, outputs>> /\ closed' = (closed \/ outputs # <<>>)
    BY <1>2 DEF ReadDone, history
  <2>2. \A r \in Responses : ~InProgress(r)'
    BY <1>2, <1>c DEF Course
  <2>3. ASSUME NEW i \in 1 .. Len(outputs') PROVE Begun(outputs[i].call[1])' /\ (closed <=> Over(outputs[i].call[1]))'
    <3>1. PICK r \in Responses : r = Resp(i)
      BY <1>t, <2>1
    <3>2. Begun(r)' /\ Over(r)'
      BY <1>b, <1>w, <2>1, <2>2, <3>1 DEF InProgress
    <3>3. outputs # <<>>
      BY <2>1
    <3>4. outputs'[i].call[1] = r
      BY <2>1, <3>1
    <3> QED
      BY <2>1, <3>2, <3>3, <3>4
  <2>4. ASSUME NEW k \in 1 .. Len(answered') PROVE (Begun(answered[k].call[1]) /\ Over(answered[k].call[1]))'
    <3>1. PICK r \in Responses : r = Of(k)
      BY <1>t, <2>1
    <3>2. Begun(r)' /\ Over(r)'
      BY <1>o, <1>w, <2>1, <3>1
    <3>3. answered'[k].call[1] = r
      BY <2>1, <3>1
    <3> QED
      BY <3>2, <3>3
  <2> QED
    BY <1>w, <2>1, <2>3, <2>4 DEF WholeInv
<1>3. CASE Admits
  <2>1. PICK r \in Responses :
           /\ InProgress(r) /\ ~closed /\ closed' = closed /\ answered' = answered /\ ~ReadDone
           /\ Len(outputs') = Len(outputs) + 1
           /\ \A i \in 1 .. Len(outputs) : outputs'[i] = outputs[i]
           /\ outputs'[Len(outputs) + 1].call[1] = r
    BY <1>3, <1>c, AdmitFacts
  <2>2. \A i \in 1 .. Len(outputs) : Resp(i) = r
    <3> SUFFICES ASSUME NEW i \in 1 .. Len(outputs) PROVE Resp(i) = r
      OBVIOUS
    <3>1. InProgress(Resp(i))
      BY <1>w, <2>1 DEF InProgress
    <3> QED
      BY <1>t, <2>1, <3>1, InOrder
  <2>3. \A i \in 1 .. Len(outputs') : outputs'[i].call[1] = r
    BY <1>0, <2>1, <2>2
  <2>4. Begun(r)' /\ ~Over(r)' /\ ~closed'
    BY <1>b, <1>e, <2>1 DEF InProgress
  <2>5. ASSUME NEW i \in 1 .. Len(outputs') PROVE Begun(outputs[i].call[1])' /\ (closed <=> Over(outputs[i].call[1]))'
    <3>1. outputs'[i].call[1] = r
      BY <2>3
    <3> QED
      BY <2>4, <3>1
  <2>6. ASSUME NEW k \in 1 .. Len(answered') PROVE (Begun(answered[k].call[1]) /\ Over(answered[k].call[1]))'
    <3>1. PICK q \in Responses : q = Of(k)
      BY <1>t, <2>1
    <3>2. Begun(q)' /\ Over(q)'
      BY <1>o, <1>w, <2>1, <3>1
    <3>3. answered'[k].call[1] = q
      BY <2>1, <3>1
    <3> QED
      BY <3>2, <3>3
  <2>7. \A k \in 1 .. Len(answered) : Of(k) # r
    BY <1>w, <2>1 DEF InProgress
  <2> QED
    BY <1>w, <2>1, <2>3, <2>5, <2>6, <2>7 DEF WholeInv
<1>4. CASE Flushes
  <2>1. /\ closed /\ Len(outputs') = 0 /\ Len(answered') = Len(answered) + Len(outputs)
        /\ \A i \in 1 .. Len(answered) : answered'[i] = answered[i]
        /\ \A i \in 1 .. Len(outputs) :
             /\ answered'[Len(answered) + i].call = outputs[i].call
             /\ answered'[Len(answered) + i].batch = Len(answered)
        /\ \A i \in 1 .. Len(answered') : i \in 1 .. Len(answered) \/ (i - Len(answered) \in 1 .. Len(outputs))
    BY <1>4, FlushFacts
  <2>2. ASSUME NEW k \in 1 .. Len(answered')
        PROVE  \/ k \in 1 .. Len(answered) /\ answered'[k] = answered[k]
               \/ \E i \in 1 .. Len(outputs) :
                    /\ k = Len(answered) + i /\ answered'[k].call = outputs[i].call
                    /\ answered'[k].batch = Len(answered)
    <3>1. CASE k \in 1 .. Len(answered)
      BY <2>1, <3>1
    <3>2. CASE k - Len(answered) \in 1 .. Len(outputs)
      <4>1. PICK i \in 1 .. Len(outputs) : i = k - Len(answered)
        BY <3>2
      <4>2. k = Len(answered) + i
        BY <1>0, <4>1
      <4> QED
        BY <2>1, <4>2
    <3> QED
      BY <2>1, <3>1, <3>2
  <2>3. ASSUME NEW k \in 1 .. Len(answered')
        PROVE  (Begun(answered[k].call[1]) /\ Over(answered[k].call[1]) /\ answered[k].batch < k)'
    <3>1. \E r \in Responses :
            r = answered'[k].call[1] /\ Begun(r) /\ Over(r) /\ answered'[k].batch < k
      <4>1. CASE k \in 1 .. Len(answered) /\ answered'[k] = answered[k]
        BY <1>t, <1>w, <4>1
      <4>2. CASE \E i \in 1 .. Len(outputs) :
                   /\ k = Len(answered) + i /\ answered'[k].call = outputs[i].call
                   /\ answered'[k].batch = Len(answered)
        BY <1>0, <1>t, <1>w, <2>1, <4>2
      <4> QED
        BY <2>2, <4>1, <4>2
    <3>2. PICK r \in Responses : r = answered'[k].call[1] /\ Begun(r) /\ Over(r) /\ answered'[k].batch < k
      BY <3>1
    <3>3. Begun(r)' /\ Over(r)'
      BY <1>o, <3>2
    <3> QED
      BY <3>2, <3>3
  <2>4. \A i, j \in 1 .. Len(answered') :
          answered'[i].batch = answered'[j].batch <=> answered'[i].call[1] = answered'[j].call[1]
    <3> SUFFICES ASSUME NEW i \in 1 .. Len(answered'), NEW j \in 1 .. Len(answered')
                 PROVE  answered'[i].batch = answered'[j].batch <=> answered'[i].call[1] = answered'[j].call[1]
      OBVIOUS
    <3>1. \A k \in 1 .. Len(answered) : answered[k].batch < k /\ k <= Len(answered)
      BY <1>0, <1>w
    <3>2. ASSUME NEW k \in 1 .. Len(answered) PROVE answered[k].batch # Len(answered)
      <4>1. PICK b \in Nat : b = answered[k].batch
        BY BatchNumbers
      <4>2. b < k /\ k <= Len(answered)
        BY <3>1, <4>1
      <4> QED
        BY <1>0, <4>1, <4>2
    <3>3. ASSUME NEW a \in 1 .. Len(answered'), NEW b \in 1 .. Len(answered'), a \in 1 .. Len(answered),
                 answered'[a] = answered[a], NEW k \in 1 .. Len(outputs), answered'[b].call = outputs[k].call,
                 answered'[b].batch = Len(answered)
          PROVE  /\ answered'[a].batch # answered'[b].batch
                 /\ answered'[a].call[1] # answered'[b].call[1]
      BY <1>w, <3>2, <3>3
    <3>4. CASE i \in 1 .. Len(answered) /\ answered'[i] = answered[i]
      <4>1. CASE j \in 1 .. Len(answered) /\ answered'[j] = answered[j]
        BY <1>w, <3>4, <4>1
      <4>2. CASE \E k \in 1 .. Len(outputs) :
                   answered'[j].call = outputs[k].call /\ answered'[j].batch = Len(answered)
        BY <3>3, <3>4, <4>2
      <4> QED
        BY <2>2, <4>1, <4>2
    <3>5. CASE \E k \in 1 .. Len(outputs) :
                 answered'[i].call = outputs[k].call /\ answered'[i].batch = Len(answered)
      <4>1. CASE j \in 1 .. Len(answered) /\ answered'[j] = answered[j]
        BY <3>3, <3>5, <4>1
      <4>2. CASE \E k \in 1 .. Len(outputs) :
                   answered'[j].call = outputs[k].call /\ answered'[j].batch = Len(answered)
        BY <1>w, <3>5, <4>2
      <4> QED
        BY <2>2, <4>1, <4>2
    <3> QED
      BY <2>2, <3>4, <3>5
  <2>5. 1 .. Len(outputs') = {}
    BY <2>1
  <2> QED
    BY <2>3, <2>4, <2>5 DEF WholeInv
<1> QED
  BY <1>1, <1>2, <1>3, <1>4, BatchMoves

-----------------------------------------------------------------------------
(* The announcements.                                                      *)

\* A batch that a step adds to the line comes last; only the pump adds an announcement.
LineGrows ==
  \/ line' = line
  \/ \E b \in Batches : line' = Append(line, b) /\ b.kind # "announcement"
  \/ PumpSends
  \/ Grant

\* That is how the line changes.
LEMMA LineMoves == BatchOK /\ [Next]_vars => LineGrows
<1> SUFFICES ASSUME BatchOK, [Next]_vars PROVE LineGrows
  OBVIOUS
<1>t. "receiver" \in Tasks /\ "worker" \in Tasks /\ "pump" \in Tasks /\
   "microphone" \in Tasks
  BY DEF Tasks
<1>j. ASSUME NEW s \in Tasks, NEW kind \in {"input", "reply", "cancel"}, NEW
   c, Join(Batch(s, kind), c)
      PROVE  LineGrows
  <2>1. PICK b \in Batches : b = Batch(s, kind) /\ b.kind = kind
    BY BatchTyped
  <2> QED
    BY <1>j, <2>1 DEF Join, LineGrows
<1>f. ASSUME NEW s \in Tasks, NEW outs \in Seq(Slots), Join(Results(s, outs), FALSE)
      PROVE  LineGrows
  <2>1. PICK b \in Batches : b = Results(s, outs) /\ b.kind = "results"
    BY ResultsTyped
  <2> QED
    BY <1>f, <2>1 DEF Join, LineGrows
<1>1. CASE ProviderStarts
  BY <1>1 DEF ProviderStarts, socket, LineGrows
<1>2. CASE ProviderCalls
  BY <1>2 DEF ProviderCalls, socket, LineGrows
<1>3. CASE ProviderSpeaks
  BY <1>3 DEF ProviderSpeaks, socket, LineGrows
<1>4. CASE ProviderFinishes
  BY <1>4 DEF ProviderFinishes, socket, LineGrows
<1>5. CASE OperatorSpeaks
  BY <1>5 DEF OperatorSpeaks, socket, LineGrows
<1>6. CASE SpeakerDrains
  BY <1>6 DEF SpeakerDrains, socket, LineGrows
<1>7. CASE Grant
  BY <1>7 DEF LineGrows
<1>8. CASE SendReturns
  <2>1. PICK b \in Batches : b = Batch("receiver", "reply") /\ b.kind =
     "reply"
    BY <1>t, BatchTyped
  <2> QED
    BY <1>8, <2>1 DEF SendReturns, LineGrows
<1>9. CASE MicrophoneSends
  BY <1>9, <1>t, <1>j DEF MicrophoneSends
<1>10. CASE ReadStarted
  BY <1>10, <1>t, <1>j DEF ReadStarted, Reply
<1>11. CASE ReadAudio
  BY <1>11, <1>t, <1>j DEF ReadAudio, Reply
<1>12. CASE ReadSpeech
  BY <1>12, <1>t, <1>j DEF ReadSpeech, Reply
<1>13. CASE ReadCall
  BY <1>13 DEF ReadCall, socket, LineGrows
<1>14. CASE ReadDone
  <2>1. CASE Reply("reply", FALSE)
    BY <1>t, <1>j, <2>1 DEF Reply
  <2>2. CASE Join(Results("receiver", outputs), FALSE)
    BY <1>t, <1>f, <2>2 DEF BatchOK
  <2> QED
    BY <1>14, <2>1, <2>2 DEF ReadDone, LineGrows
<1>15. CASE ReadError
  BY <1>15, <1>t, <1>j DEF ReadError, Reply
<1>16. CASE FlushWaited
  BY <1>16, <1>t, <1>j DEF FlushWaited, Reply
<1>17. CASE WorkerTakes
  BY <1>17 DEF WorkerTakes, socket, LineGrows
<1>18. CASE ToolEnds
  <2>1. PICK outs \in Seq(Slots) : outs = outputs'
    BY <1>18, ToolOutput
  <2>2. CASE Join(Results("worker", outs), FALSE)
    BY <1>t, <1>f, <2>2
  <2> QED
    BY <1>18, <2>1, <2>2 DEF ToolEnds, LineGrows
<1>19. CASE Announce
  BY <1>19 DEF Announce, socket, LineGrows
<1>20. CASE PumpSends
  BY <1>20 DEF LineGrows
<1>21. CASE UNCHANGED vars
  BY <1>21 DEF vars, socket, LineGrows
<1> QED
  BY <1>1, <1>2, <1>3, <1>4, <1>5, <1>6, <1>7, <1>8, <1>9, <1>10, <1>11,
     <1>12, <1>13, <1>14, <1>15, <1>16, <1>17, <1>18, <1>19, <1>20, <1>21 DEF
        Next

\* A response that starts while an announcement is in line puts the receiver behind it.
LEMMA WaitStep ==
  /\ ServerOK /\ OrderInv /\ LedgerOK /\ LedgerInv /\ BatchOK /\ SocketOK /\ LineInv /\ FlushInv
  /\ WaitInv /\ [Next]_vars
  => WaitInv'
<1> SUFFICES ASSUME ServerOK, OrderInv, LedgerOK, LedgerInv, BatchOK, SocketOK, LineInv, FlushInv,
                    WaitInv, [Next]_vars
             PROVE  WaitInv'
  OBVIOUS
<1> USE DEF InLine
<1>c. Course
  BY CourseHolds
<1>l. line \in Seq(Batches) /\ Len(line) \in Nat
  BY Element DEF SocketOK, LineTyped
<1>g. released \subseteq released'
  <2>1. LedgerKept \/ SpeakerDrains \/ ReadStarted \/ ReadAudio \/ ReadSpeech \/ ReadDone
    BY LedgerMoves
  <2> QED
    BY <2>1 DEF LedgerKept, SpeakerDrains, ReadStarted, ReadAudio, ReadSpeech, ReadDone, history
<1>w. \A i \in 1 .. Len(line) : line[i].kind = "announcement" =>
        /\ \A k \in 1 .. Len(outputs) : outputs[k].call[1] \in released
        /\ \A r \in Responses : InProgress(r) =>
             r \in released \/ \E j \in 1 .. Len(line) : j > i /\ line[j].by = "receiver"
  BY DEF WaitInv
<1> DEFINE Fewer == \A k \in 1 .. Len(outputs') : k \in 1 .. Len(outputs) /\ outputs'[k].call = outputs[k].call
<1>d. WaitInv' <=>
        \A i \in 1 .. Len(line') : line'[i].kind = "announcement" =>
          /\ \A k \in 1 .. Len(outputs') : outputs'[k].call[1] \in released'
          /\ \A r \in Responses : InProgress(r)' =>
               r \in released' \/ \E j \in 1 .. Len(line') : j > i /\ line'[j].by = "receiver"
  BY DEF WaitInv
<1>a. ASSUME NEW b \in Batches, line' = Append(line, b)
      PROVE  /\ Len(line') = Len(line) + 1 /\ line'[Len(line) + 1] = b
             /\ \A i \in 1 .. Len(line) : i \in 1 .. Len(line') /\ line'[i] = line[i]
             /\ Len(line) + 1 \in 1 .. Len(line')
             /\ \A i \in 1 .. Len(line') : i \in 1 .. Len(line) \/ i = Len(line) + 1
  <2>1. /\ Len(line') = Len(line) + 1 /\ line'[Len(line) + 1] = b
        /\ \A i \in 1 .. Len(line) : line'[i] = line[i]
        /\ \A i \in 1 .. Len(line') : i \in 1 .. Len(line) \/ i = Len(line) + 1
    BY <1>a, <1>l, Appended
  <2> QED
    BY <1>l, <2>1
<1>0. ASSUME Fewer, ~ReadStarted,
             line' = line \/ \E b \in Batches : line' = Append(line, b) /\ b.kind # "announcement"
      PROVE  WaitInv'
  <2>1. \A r \in Responses : InProgress(r)' => InProgress(r)
    BY <1>0, <1>c DEF Course
  <2>2. /\ \A i \in 1 .. Len(line) : i \in 1 .. Len(line') /\ line'[i] = line[i]
        /\ \A i \in 1 .. Len(line') : line'[i].kind = "announcement" => i \in 1 .. Len(line)
    BY <1>0, <1>a
  <2>3. ASSUME NEW i \in 1 .. Len(line'), line'[i].kind = "announcement"
        PROVE  /\ \A k \in 1 .. Len(outputs') : outputs'[k].call[1] \in released'
               /\ \A r \in Responses : InProgress(r)' =>
                    r \in released' \/ \E j \in 1 .. Len(line') : j > i /\ line'[j].by = "receiver"
    <3>1. i \in 1 .. Len(line) /\ line[i].kind = "announcement"
      BY <2>2, <2>3
    <3>2. \A k \in 1 .. Len(outputs') : outputs'[k].call[1] \in released'
      BY <1>0, <1>g, <1>w, <3>1
    <3>3. \A r \in Responses : InProgress(r)' =>
            r \in released' \/ \E j \in 1 .. Len(line') : j > i /\ line'[j].by = "receiver"
      BY <1>g, <1>w, <2>1, <2>2, <3>1
    <3> QED
      BY <3>2, <3>3
  <2> QED
    BY <1>d, <2>3
<1>1. CASE PumpSends
  <2>1. /\ UNCHANGED <<open, started, inbox, outputs, released>>
        /\ ~inFlight /\ outputs = <<>> /\ Join(Batch("pump", "announcement"), FALSE)
    BY <1>1 DEF PumpSends, server, batch, history, Busy
  <2>2. \A r \in Responses : InProgress(r)' => InProgress(r)
    BY <2>1 DEF InProgress, Begun, Over, Unread
  <2>3. \A r \in Responses : InProgress(r)' => r \in released'
    BY <2>1, <2>2 DEF LedgerInv
  <2>4. \A k \in 1 .. Len(outputs') : FALSE
    BY <2>1
  <2> QED
    BY <1>d, <2>3, <2>4
<1>2. CASE ReadStarted
  <2>1. UNCHANGED <<outputs, released>> /\ Join(Batch("receiver", "reply"), TRUE)
    BY <1>2 DEF ReadStarted, batch, history, Reply
  <2>2. PICK b \in Batches : b = Batch("receiver", "reply") /\ b.by = "receiver" /\ b.kind = "reply"
    BY BatchTyped DEF Tasks
  <2>3. CASE line = <<>> /\ line' = line
    <3>1. \A i \in 1 .. Len(line') : FALSE
      BY <2>3
    <3> QED
      BY <1>d, <3>1
  <2>4. CASE line' = Append(line, b)
    <3>1. /\ Len(line) + 1 \in 1 .. Len(line') /\ line'[Len(line) + 1] = b
          /\ \A i \in 1 .. Len(line) : line'[i] = line[i]
          /\ \A i \in 1 .. Len(line') : i \in 1 .. Len(line) \/ i = Len(line) + 1
      BY <1>a, <2>4
    <3>2. ASSUME NEW i \in 1 .. Len(line'), line'[i].kind = "announcement"
          PROVE  /\ \A k \in 1 .. Len(outputs') : outputs'[k].call[1] \in released'
                 /\ \E j \in 1 .. Len(line') : j > i /\ line'[j].by = "receiver"
      <4>1. i \in 1 .. Len(line) /\ line[i].kind = "announcement"
        BY <2>2, <3>1, <3>2
      <4>2. Len(line) + 1 > i
        BY <1>l, <4>1
      <4> QED
        BY <1>w, <2>1, <2>2, <3>1, <4>1, <4>2
    <3> QED
      BY <1>d, <3>2
  <2> QED
    BY <2>1, <2>2, <2>3, <2>4 DEF Join
<1>3. CASE Grant
  <2>1. UNCHANGED <<open, started, inbox, outputs, released>> /\ line # <<>> /\ line' = Tail(line)
    BY <1>3 DEF Grant, server, batch, history
  <2>2. \A r \in Responses : InProgress(r)' => InProgress(r)
    BY <2>1 DEF InProgress, Begun, Over, Unread
  <2>3. /\ \A i \in 1 .. Len(line') : i + 1 \in 1 .. Len(line) /\ line'[i] = line[i + 1]
        /\ \A i \in 1 .. Len(line) : i = 1 \/ (i - 1 \in 1 .. Len(line') /\ line[i] = line'[i - 1])
    BY <1>l, <2>1, HeadTaken
  <2>4. ASSUME NEW i \in 1 .. Len(line'), line'[i].kind = "announcement"
        PROVE  /\ \A k \in 1 .. Len(outputs') : outputs'[k].call[1] \in released'
               /\ \A r \in Responses : InProgress(r)' =>
                    r \in released' \/ \E j \in 1 .. Len(line') : j > i /\ line'[j].by = "receiver"
    <3>1. i + 1 \in 1 .. Len(line) /\ line[i + 1].kind = "announcement"
      BY <2>3, <2>4
    <3>2. ASSUME NEW j \in 1 .. Len(line), j > i + 1, line[j].by = "receiver"
          PROVE  \E m \in 1 .. Len(line') : m > i /\ line'[m].by = "receiver"
      <4>1. j # 1 /\ j - 1 > i
        BY <1>l, <3>2
      <4>2. j - 1 \in 1 .. Len(line') /\ line'[j - 1].by = "receiver"
        BY <2>3, <3>2, <4>1
      <4> QED
        BY <4>1, <4>2
    <3> QED
      BY <1>w, <2>1, <2>2, <3>1, <3>2
  <2> QED
    BY <1>d, <2>4
<1>4. CASE Admits
  <2>1. PICK r \in Responses :
          /\ InProgress(r) /\ Len(outputs) \in Nat /\ Len(outputs') = Len(outputs) + 1
          /\ \A i \in 1 .. Len(outputs) : outputs'[i] = outputs[i]
          /\ outputs'[Len(outputs) + 1].call[1] = r
    BY <1>4, <1>c, AdmitFacts
  <2>2. awaiting["receiver"] = "nothing" /\ line' = line /\ ~ReadStarted
    BY <1>4 DEF Admits, ReadCall, Reads, ReadStarted
  <2>3. \A j \in 1 .. Len(line) : line[j].by # "receiver"
    BY <2>2 DEF LineInv, Queued, Tasks
  <2>4. \A q \in Responses : InProgress(q)' => InProgress(q)
    BY <1>c, <2>2 DEF Course
  <2>5. ASSUME NEW i \in 1 .. Len(line'), line'[i].kind = "announcement"
        PROVE  /\ \A k \in 1 .. Len(outputs') : outputs'[k].call[1] \in released'
               /\ \A q \in Responses : InProgress(q)' => q \in released'
    <3>1. i \in 1 .. Len(line) /\ line[i].kind = "announcement"
      BY <2>2, <2>5
    <3>2. \A q \in Responses : InProgress(q) => q \in released
      BY <1>w, <2>3, <3>1
    <3>3. \A k \in 1 .. Len(outputs') : k \in 1 .. Len(outputs) \/ k = Len(outputs) + 1
      BY <2>1
    <3> QED
      BY <1>g, <1>w, <2>1, <2>4, <3>1, <3>2, <3>3
  <2> QED
    BY <1>d, <2>5
<1>5. ASSUME ~PumpSends, ~ReadStarted, ~Grant, ~Admits PROVE WaitInv'
  <2>1. CallsKept \/ Flushes \/ ReadDone
    BY <1>5, BatchMoves
  <2>2. Fewer
    <3>1. CASE CallsKept
      BY <3>1 DEF CallsKept
    <3>2. CASE Flushes
      <4>1. Len(outputs') = 0
        BY <3>2, FlushFacts
      <4> QED
        BY <4>1
    <3>3. CASE ReadDone
      BY <3>3 DEF ReadDone
    <3> QED
      BY <2>1, <3>1, <3>2, <3>3
  <2>3. line' = line \/ \E b \in Batches : line' = Append(line, b) /\ b.kind # "announcement"
    BY <1>5, LineMoves DEF LineGrows
  <2> QED
    BY <1>0, <1>5, <2>2, <2>3
<1> QED
  BY <1>1, <1>2, <1>3, <1>4, <1>5

\* An announcement is written when nothing else may speak.
LEMMA AnnouncementStep ==
  /\ BatchOK /\ SocketOK /\ WaitInv /\ [Next]_vars
  => (writing' # writing /\ writing' # None /\ writing'.kind = "announcement"
        => /\ ~Declined
           /\ \A i \in 1 .. Len(outputs) : outputs[i].call[1] \in released)
<1> DEFINE Spoken == writing' # writing /\ writing' # None /\ writing'.kind =
   "announcement"
           Rightly == ~Declined /\ \A i \in 1 .. Len(outputs) :
              outputs[i].call[1] \in released
<1> SUFFICES ASSUME BatchOK, SocketOK, WaitInv, [Next]_vars PROVE Spoken => Rightly
  OBVIOUS
<1>t. "receiver" \in Tasks /\ "worker" \in Tasks /\ "pump" \in Tasks /\
   "microphone" \in Tasks
  BY DEF Tasks
<1>j. ASSUME NEW s \in Tasks, NEW kind \in {"input", "reply", "cancel"}, NEW
   c, Join(Batch(s, kind), c)
      PROVE  ~Spoken
  <2>1. Batch(s, kind).kind = kind
    BY BatchTyped
  <2> QED
    BY <1>j, <2>1 DEF Join
<1>f. ASSUME NEW s \in Tasks, NEW outs \in Seq(Slots), Join(Results(s, outs), FALSE)
      PROVE  ~Spoken
  <2>1. Results(s, outs).kind = "results"
    BY ResultsTyped
  <2> QED
    BY <1>f, <2>1 DEF Join
<1>1. CASE ProviderStarts
  BY <1>1 DEF ProviderStarts, socket
<1>2. CASE ProviderCalls
  BY <1>2 DEF ProviderCalls, socket
<1>3. CASE ProviderSpeaks
  BY <1>3 DEF ProviderSpeaks, socket
<1>4. CASE ProviderFinishes
  BY <1>4 DEF ProviderFinishes, socket
<1>5. CASE OperatorSpeaks
  BY <1>5 DEF OperatorSpeaks, socket
<1>6. CASE SpeakerDrains
  BY <1>6 DEF SpeakerDrains, socket
<1>7. CASE Grant
  <2>1. line # <<>> /\ line \in Seq(Batches)
    BY <1>7 DEF Grant, SocketOK, LineTyped
  <2>2. Head(line) = line[1] /\ 1 \in InLine
    BY <2>1, HeadTaken DEF InLine
  <2>3. Spoken => line[1].kind = "announcement" /\ ~Declined
    BY <1>7, <2>2 DEF Grant
  <2> QED
    BY <2>2, <2>3 DEF WaitInv
<1>8. CASE SendReturns
  <2>1. Batch("receiver", "reply").kind = "reply"
    BY <1>t, BatchTyped
  <2> QED
    BY <1>8, <2>1 DEF SendReturns
<1>9. CASE MicrophoneSends
  BY <1>9, <1>t, <1>j DEF MicrophoneSends
<1>10. CASE ReadStarted
  BY <1>10, <1>t, <1>j DEF ReadStarted, Reply
<1>11. CASE ReadAudio
  BY <1>11, <1>t, <1>j DEF ReadAudio, Reply
<1>12. CASE ReadSpeech
  BY <1>12, <1>t, <1>j DEF ReadSpeech, Reply
<1>13. CASE ReadCall
  BY <1>13 DEF ReadCall, socket
<1>14. CASE ReadDone
  <2>1. CASE Reply("reply", FALSE)
    BY <1>t, <1>j, <2>1 DEF Reply
  <2>2. CASE Join(Results("receiver", outputs), FALSE)
    BY <1>t, <1>f, <2>2 DEF BatchOK
  <2> QED
    BY <1>14, <2>1, <2>2 DEF ReadDone
<1>15. CASE ReadError
  BY <1>15, <1>t, <1>j DEF ReadError, Reply
<1>16. CASE FlushWaited
  BY <1>16, <1>t, <1>j DEF FlushWaited, Reply
<1>17. CASE WorkerTakes
  BY <1>17 DEF WorkerTakes, socket
<1>18. CASE ToolEnds
  <2>1. PICK outs \in Seq(Slots) : outs = outputs'
    BY <1>18, ToolOutput
  <2>2. CASE Join(Results("worker", outs), FALSE)
    BY <1>t, <1>f, <2>2
  <2> QED
    BY <1>18, <2>1, <2>2 DEF ToolEnds
<1>19. CASE Announce
  BY <1>19 DEF Announce, socket
<1>20. CASE PumpSends
  <2>1. ~Declined /\ outputs = <<>>
    BY <1>20 DEF PumpSends, Busy, Declined
  <2> QED
    BY <2>1
<1>21. CASE UNCHANGED vars
  BY <1>21 DEF vars, socket
<1> QED
  BY <1>1, <1>2, <1>3, <1>4, <1>5, <1>6, <1>7, <1>8, <1>9, <1>10, <1>11,
     <1>12, <1>13, <1>14, <1>15, <1>16, <1>17, <1>18, <1>19, <1>20, <1>21 DEF
        Next

-----------------------------------------------------------------------------
(* The turn.                                                               *)

\* Nothing is open, unread, held, queued or answered at first.
LEMMA TurnInvInit == Init => TurnInv
<1> SUFFICES ASSUME Init PROVE TurnInv
  OBVIOUS
<1> USE DEF Init
<1>1. <<>> \in Seq(Events) /\ <<>> \in Seq(Slots) /\ <<>> \in Seq(Nat) /\ <<>> \in Seq(Calls)
      /\ <<>> \in Seq(Answered) /\ <<>> \in Seq(Batches) /\ Len(<<>>) = 0
  OBVIOUS
<1>2. ServerOK
  <2>1. used \in Counts
    BY VoiceTurnAssumption DEF Counts
  <2>2. started \in 0 .. MaxResponses
    BY VoiceTurnAssumption
  <2> QED
    BY <1>1, <2>1, <2>2 DEF ServerOK
<1>3. LedgerOK
  BY DEF LedgerOK
<1>4. BatchOK
  <2>1. Len(tools) = 0 /\ Len(outputs) = 0 /\ ToolQueueSize \in Nat
    BY <1>1, VoiceTurnAssumption
  <2>2. running \in 0 .. Len(outputs)
    BY <2>1
  <2>3. \A i \in 1 .. Len(tools) : FALSE
    BY <2>1
  <2>4. tools \in Seq(Nat) /\ Len(tools) <= ToolQueueSize
    BY <1>1, <2>1
  <2>5. outputs \in Seq(Slots) /\ closed \in BOOLEAN /\ wired \in Seq(Calls) /\ answered \in Seq(Answered)
    BY <1>1
  <2> QED
    BY <2>2, <2>3, <2>4, <2>5 DEF BatchOK
<1>5. SocketOK
  <2>1. awaiting \in [Tasks -> {"nothing", "socket", "flush", "opening"}]
    OBVIOUS
  <2> QED
    BY <1>1, <2>1 DEF SocketOK, LineTyped
<1>6. OrderInv
  <2>1. \A r \in Responses : ~Begun(r)
    BY DEF Begun, Responses
  <2> QED
    BY <1>1, <2>1 DEF OrderInv, OpenIsLatest, EventsKnown, EventsSorted, BegunFirst, EndsCome, Unread
<1>7. LedgerInv
  BY VoiceTurnAssumption DEF LedgerInv, InProgress, Begun, Responses
<1>8. SilenceInv /\ SpokenOverStaysSilent
  BY DEF SilenceInv, SpokenOverStaysSilent
<1>9. LineInv
  <2>1. \A t \in Tasks : awaiting[t] = "nothing"
    OBVIOUS
  <2>2. Queued /\ OneEach
    BY <1>1, <2>1 DEF Queued, OneEach, InLine
  <2>3. Waits
    BY <2>1 DEF Waits, Tasks
  <2> QED
    BY <2>2, <2>3 DEF LineInv
<1>10. FlushInv
  BY <1>1 DEF FlushInv, OneFlush, Pending, InLine
<1>11. InWireOrder /\ WholeInv /\ WaitInv
  BY <1>1 DEF InWireOrder, WholeInv, WaitInv, InLine
<1> QED
  BY <1>2, <1>3, <1>4, <1>5, <1>6, <1>7, <1>8, <1>9, <1>10, <1>11 DEF TurnInv

\* TurnInv is inductive.
LEMMA TurnInvStep == TurnInv /\ [Next]_vars => TurnInv'
<1> SUFFICES ASSUME TurnInv, [Next]_vars PROVE TurnInv'
  OBVIOUS
<1>0. /\ ServerOK /\ LedgerOK /\ BatchOK /\ SocketOK /\ OrderInv /\ LedgerInv /\ SilenceInv
      /\ LineInv /\ FlushInv /\ InWireOrder /\ WholeInv /\ WaitInv /\ SpokenOverStaysSilent
  BY DEF TurnInv
<1>1. ServerOK' /\ OrderInv'
  BY <1>0, CourseHolds
<1>2. LedgerOK' /\ LedgerInv'
  BY <1>0, LedgerStep
<1>3. SilenceInv' /\ SpokenOverStaysSilent'
  BY <1>0, SilenceStep
<1>4. SocketOK' /\ LineInv'
  BY <1>0, LineStep DEF SocketOK, LineInv
<1>5. BatchOK' /\ FlushInv'
  BY <1>0, BatchStep DEF FlushInv
<1>6. InWireOrder'
  BY <1>0, AnswersStep
<1>7. WholeInv'
  BY <1>0, WholeStep
<1>8. WaitInv'
  BY <1>0, WaitStep
<1> QED
  BY <1>1, <1>2, <1>3, <1>4, <1>5, <1>6, <1>7, <1>8 DEF TurnInv

\* The types are part of the invariant.
LEMMA TurnIsTyped == TurnInv => TypeOK
<1> SUFFICES ASSUME TurnInv PROVE TypeOK
  OBVIOUS
<1>0. ServerOK /\ LedgerOK /\ BatchOK /\ SocketOK /\ LineInv
  BY DEF TurnInv
<1>1. Queued
  BY <1>0 DEF LineInv
<1>2. tools \in Seq(1 .. Len(outputs))
  <2>1. tools \in Seq(Nat) /\ \A i \in 1 .. Len(tools) : tools[i] \in 1 .. Len(outputs)
    BY <1>0 DEF BatchOK
  <2> QED
    BY <2>1
<1> QED
  BY <1>0, <1>1, <1>2 DEF ServerOK, LedgerOK, BatchOK, SocketOK, LineTyped, Queued, InLine, TypeOK, Counts,
     Slots, Answered

\* What TurnInv says position by position is what AnsweredInOrder says of the sequences.
LEMMA TurnIsInOrder == TurnInv => AnsweredInOrder
<1> SUFFICES ASSUME TurnInv PROVE AnsweredInOrder
  OBVIOUS
<1>0. BatchOK /\ InWireOrder
  BY DEF TurnInv
<1> DEFINE First == [i \in 1 .. Len(answered) |-> answered[i].call]
           Rest == [i \in 1 .. Len(outputs) |-> outputs[i].call]
<1>1. /\ Len(answered) \in Nat /\ \A i \in 1 .. Len(answered) : answered[i].call \in Calls
      /\ Len(outputs) \in Nat /\ \A i \in 1 .. Len(outputs) : outputs[i].call \in Calls
  <2>1. answered \in Seq(Answered) /\ outputs \in Seq(Slots)
    BY <1>0 DEF BatchOK
  <2>2. /\ Len(answered) \in Nat /\ \A i \in 1 .. Len(answered) : answered[i] \in Answered
        /\ Len(outputs) \in Nat /\ \A i \in 1 .. Len(outputs) : outputs[i] \in Slots
    BY <2>1, Element
  <2> QED
    BY <2>2 DEF Slots, Answered
<1>2. /\ First \in Seq(Calls) /\ Len(First) = Len(answered)
      /\ Rest \in Seq(Calls) /\ Len(Rest) = Len(outputs)
  BY <1>1
<1>3. /\ \A i \in 1 .. Len(First) : First[i] = wired[i]
      /\ \A i \in 1 .. Len(Rest) : Rest[i] = wired[Len(First) + i]
      /\ Len(wired) = Len(First) + Len(Rest) /\ wired \in Seq(Calls)
  BY <1>0, <1>2 DEF InWireOrder, BatchOK
<1> HIDE DEF First, Rest
<1>4. /\ First \o Rest \in Seq(Calls) /\ Len(First \o Rest) = Len(wired)
      /\ \A i \in 1 .. Len(wired) : (First \o Rest)[i] = wired[i]
  <2>1. Len(First) \in Nat /\ Len(Rest) \in Nat
    BY <1>2
  <2>2. First \o Rest \in Seq(Calls) /\ Len(First \o Rest) = Len(First) + Len(Rest)
    BY <1>2
  <2>3. ASSUME NEW i \in 1 .. Len(wired) PROVE (First \o Rest)[i] = wired[i]
    <3>0. i \in Nat /\ i >= 1 /\ i <= Len(First) + Len(Rest)
      BY <1>3, <2>1
    <3>1. CASE i <= Len(First)
      BY <3>0, <1>2, <1>3, <2>1, <3>1
    <3>2. CASE i > Len(First)
      <4>0. i - Len(First) \in 1 .. Len(Rest)
        BY <2>1, <3>0, <3>2
      <4>1. PICK j \in 1 .. Len(Rest) : j = i - Len(First)
        BY <4>0
      <4>2. i = Len(First) + j
        BY <2>1, <3>0, <4>1
      <4>3. (First \o Rest)[Len(First) + j] = Rest[j]
        BY <1>2, <2>1
      <4> QED
        BY <1>3, <4>2, <4>3
    <3> QED
      BY <2>1, <3>0, <3>1, <3>2
  <2> QED
    BY <1>3, <2>2, <2>3
<1>5. First \o Rest = wired
  BY <1>3, <1>4
<1> QED
  BY <1>5 DEF AnsweredInOrder, First, Rest

\* No call of an answered response is left in the batch in the making.
LEMMA TurnIsWhole == TurnInv => BatchesAreWhole
<1> SUFFICES ASSUME TurnInv, used.lost = 0, NEW i \in 1 .. Len(answered)
             PROVE  /\ \A j \in 1 .. Len(answered) :
                         answered[i].batch = answered[j].batch <=> answered[i].call[1] = answered[j].call[1]
                    /\ \A k \in 1 .. Len(wired) : wired[k][1] = answered[i].call[1] => k <= Len(answered)
  BY DEF BatchesAreWhole
<1>0. BatchOK /\ InWireOrder /\ WholeInv
  BY DEF TurnInv
<1>1. Len(wired) \in Nat /\ Len(answered) \in Nat /\ Len(outputs) \in Nat
  BY <1>0, Element DEF BatchOK
<1>2. ASSUME NEW k \in 1 .. Len(wired), k > Len(answered) PROVE wired[k][1] # answered[i].call[1]
  <2>w. k \in Nat /\ k <= Len(answered) + Len(outputs) /\ k - Len(answered) \in 1 .. Len(outputs)
    BY <1>0, <1>1, <1>2 DEF InWireOrder
  <2>0. PICK m \in 1 .. Len(outputs) : m = k - Len(answered)
    BY <2>w
  <2>1. k = Len(answered) + m
    BY <1>1, <2>w, <2>0
  <2>2. wired[k] = outputs[m].call
    BY <1>0, <2>1 DEF InWireOrder
  <2> QED
    BY <1>0, <2>2 DEF WholeInv
<1>3. \A k \in 1 .. Len(wired) : wired[k][1] = answered[i].call[1] => k <= Len(answered)
  BY <1>1, <1>2
<1> QED
  BY <1>0, <1>3 DEF WholeInv

\* So it holds in every reachable state.
LEMMA TurnInvHolds == Spec => []TurnInv
  BY TurnInvInit, TurnInvStep, PTL DEF Spec

\* Every state of a turn is safe: each tool call the receiver read is answered
\* once and in wire order, by a batch that holds the calls of its response and no
\* other when no terminal was lost, and the operator does not hear again a
\* response spoken over - for any number of responses, calls and interruptions.
THEOREM TurnIsSafe == Spec => []TurnSafe
<1>1. TurnInv => TurnSafe
  <2>1. TurnInv => SpokenOverStaysSilent
    BY DEF TurnInv
  <2> QED
    BY <2>1, TurnIsTyped, TurnIsInOrder, TurnIsWhole DEF TurnSafe
<1> QED
  BY <1>1, TurnInvHolds, PTL

\* An announcement is written only when nothing may speak, no start is unconfirmed
\* and the speaker is quiet, and while no call waits for its batch but those of a
\* response a second barge-in gave up: the FIFO lock is what carries the last part.
THEOREM AnnouncementsAreDeferred == Spec => AnnouncementsWait
<1>1. TurnInv /\ [Next]_vars =>
        [writing' # writing /\ writing' # None /\ writing'.kind = "announcement"
           => /\ ~Declined
              /\ \A i \in 1 .. Len(outputs) : outputs[i].call[1] \in released]_vars
  BY AnnouncementStep DEF TurnInv
<1> QED
  BY <1>1, TurnInvHolds, PTL DEF Spec, AnnouncementsWait

=============================================================================
