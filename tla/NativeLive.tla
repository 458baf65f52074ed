----------------------------- MODULE NativeLive -----------------------------
(***************************************************************************)
(* A native GPT-Live session (talk_native_live.py): the operator's words,  *)
(* the delegations that claim them, and what the session is given to say.  *)
(*                                                                         *)
(* Four kinds of task share an event loop: the handler of events, one task *)
(* per delegation, the refresh loop and the operator's commands.  Whatever *)
(* is sent takes send_lock; the updates that wait for a quiet moment are   *)
(* taken out under update_lock.                                            *)
(***************************************************************************)
EXTENDS Naturals, Sequences, FiniteSets, SequencesExt

CONSTANTS Asked,        \* delegations of the provider
          MaxWords,     \* bound: fragments the operator speaks
          MaxTyped,     \* bound: typed inputs
          MaxNews,      \* bound: changes of the history
          MaxProposals, \* delegations without new words that are borne (3)
          MaxBreaks     \* bound: requests and sends that fail

VARIABLES words,   \* fragments heard, and claimed by which delegation
          call,    \* self.delegations: where the task of each is
          empty,   \* no_input_proposals
          queue,   \* pending_messages
          news,    \* pending_history, and the newest there was
          flusher, \* "refresh" and "command": where each is in _flush_updates
          speech,  \* _speak, in the refresh loop, and the host's record of the attempt
          sending, \* who holds send_lock, and the holder of update_lock
          air,     \* operator_speaking and provider_response_active
          said,    \* what was handed to the provider, of each kind
          over, breaks

nativeLiveVars == <<words, call, empty, queue, news, flusher, speech, sending, air, said, over, breaks>>

Flushers == {"refresh", "command"}
Nobody == "nobody"

NativeLiveInit ==
  /\ words = [heard |-> 0, of |-> [w \in 1..MaxWords |-> {}]]
  /\ call = [d \in Asked |-> [at |-> "none", retired |-> FALSE, admitted |-> FALSE, finished |-> FALSE]]
  /\ empty = 0 /\ queue = <<>> /\ news = [pending |-> 0, newest |-> 0]
  /\ flusher = [k \in Flushers |-> [at |-> "idle", kind |-> "none", item |-> 0]]
  /\ speech = [at |-> "idle", host |-> "none"] /\ sending = [send |-> Nobody, update |-> Nobody]
  /\ air = [speaking |-> FALSE, active |-> FALSE, typed |-> 0] 
  /\ said = [kind \in {"refusal", "result", "message", "history", "speech"} |-> <<>>]
  /\ over = FALSE /\ breaks = 0

Breaks == breaks < MaxBreaks /\ breaks' = breaks + 1

\* timing and _quiet.
ToolsPending == \E d \in Asked : call[d].at # "none" /\ ~call[d].finished /\ ~call[d].retired /\ ~call[d].admitted
Quiet == ~air.speaking /\ ~air.active /\ ~ToolsPending

\* Handed to the session under send_lock: the provider answers it.
Hands(kind, item) == said' = [said EXCEPT ![kind] = Append(@, item)] /\ air' = [air EXCEPT !.active = TRUE]

------------------------------------------------------------------------------
(* _transcript, _delegate and _dispatch_live *)

Hear ==
  /\ words.heard < MaxWords /\ words' = [words EXCEPT !.heard = @ + 1]
  /\ UNCHANGED <<call, empty, queue, news, flusher, speech, sending, air, said, over, breaks>>

\* Variant: words are taken whether another delegation has them or not.
UnclaimedAny(w) == w <= words.heard
Unclaimed(w) == w <= words.heard /\ words.of[w] = {}

\* The words before the delegation's offset, or all: claimed without a wait.
Delegate(d) ==
  /\ call[d].at = "none" /\ \A e \in Asked : call[e].at # "refusing"
  /\ \E offset \in 0..words.heard :
       LET eligible == {w \in 1..offset : Unclaimed(w)}
       IN  IF eligible = {}
           THEN /\ empty' = empty + 1 /\ over' = (empty' > MaxProposals) /\ UNCHANGED words
                /\ call' = [call EXCEPT ![d].at = (IF over' THEN "none" ELSE "refusing"), ![d].finished = TRUE]
           ELSE /\ empty' = 0 /\ UNCHANGED over
                /\ words' = [words EXCEPT !.of = [w \in 1..MaxWords |-> IF w \in eligible THEN @[w] \union {d} ELSE @[w]]]
                /\ call' = [call EXCEPT ![d].at = "posting"]
  /\ UNCHANGED <<queue, news, flusher, speech, sending, air, said, breaks>>

\* The handler tells the provider itself that nothing was authorized.
Refuse(d) ==
  /\ call[d].at = "refusing" /\ sending.send = Nobody
  /\ call' = [call EXCEPT ![d].at = "done"] /\ Hands("refusal", d)
  /\ UNCHANGED <<words, empty, queue, news, flusher, speech, sending, over, breaks>>

\* The host admits the delegation as an operation, which is polled.
Posted(d) ==
  /\ call[d].at = "posting" /\ call' = [call EXCEPT ![d].at = "polling", ![d].admitted = TRUE]
  /\ UNCHANGED <<words, empty, queue, news, flusher, speech, sending, air, said, over, breaks>>

\* The operation has its result: it is told, unless the provider took the
\* delegation back or the target is switched.
Polled(d) ==
  /\ call[d].at = "polling"
  /\ \E switched \in BOOLEAN :
       call' = [call EXCEPT ![d].at = (IF call[d].retired \/ switched THEN "done" ELSE "to send"), ![d].finished = TRUE]
  /\ UNCHANGED <<words, empty, queue, news, flusher, speech, sending, air, said, over, breaks>>

DispatchFails(d) ==
  /\ call[d].at \in {"posting", "polling"} /\ Breaks
  /\ call' = [call EXCEPT ![d].at = "failed", ![d].finished = TRUE]
  /\ UNCHANGED <<words, empty, queue, news, flusher, speech, sending, air, said, over>>

\* _send_synthetic, without a look at the quiet; a failure ends the task unseen.
TakesLock(d) ==
  /\ call[d].at = "to send" /\ sending.send = Nobody /\ sending' = [sending EXCEPT !.send = d]
  /\ call' = [call EXCEPT ![d].at = "sending"] /\ air' = [air EXCEPT !.active = TRUE]
  /\ UNCHANGED <<words, empty, queue, news, flusher, speech, said, over, breaks>>

Answer(d) ==
  /\ call[d].at = "sending" /\ sending' = [sending EXCEPT !.send = Nobody]
  /\ \/ call' = [call EXCEPT ![d].at = "done"] /\ Hands("result", d) /\ UNCHANGED breaks
     \/ call' = [call EXCEPT ![d].at = "failed"] /\ Breaks /\ UNCHANGED <<said, air>>
  /\ UNCHANGED <<words, empty, queue, news, flusher, speech, over>>

Retire(d) ==
  /\ call[d].at \notin {"none", "done", "failed"} /\ ~call[d].retired /\ call' = [call EXCEPT ![d].retired = TRUE]
  /\ UNCHANGED <<words, empty, queue, news, flusher, speech, sending, air, said, over, breaks>>

------------------------------------------------------------------------------
(* _flush_updates *)

\* A typed input is answered, and its output queued for a quiet moment.
Type ==
  /\ flusher["command"].at = "idle" /\ air.typed < MaxTyped
  /\ flusher' = [flusher EXCEPT !["command"].at = "asking"]
  /\ air' = [air EXCEPT !.typed = @ + 1, !.active = FALSE]
  /\ UNCHANGED <<words, call, empty, queue, news, speech, sending, said, over, breaks>>

TypedAnswered ==
  /\ flusher["command"].at = "asking" /\ flusher' = [flusher EXCEPT !["command"].at = "flush"]
  /\ queue' = Append(queue, air.typed)
  /\ UNCHANGED <<words, call, empty, news, speech, sending, air, said, over, breaks>>

\* The refresh loop ticks, or has read a newer history.
Tick ==
  /\ flusher["refresh"].at = "idle" /\ speech.at = "idle" /\ (queue # <<>> \/ news.pending # 0)
  /\ flusher' = [flusher EXCEPT !["refresh"].at = "flush"]
  /\ UNCHANGED <<words, call, empty, queue, news, speech, sending, air, said, over, breaks>>

HistoryRead ==
  /\ flusher["refresh"].at = "idle" /\ speech.at = "idle" /\ news.newest < MaxNews /\ Quiet
  /\ news' = [pending |-> news.newest + 1, newest |-> news.newest + 1]
  /\ flusher' = [flusher EXCEPT !["refresh"].at = "flush"]
  /\ UNCHANGED <<words, call, empty, queue, speech, sending, air, said, over, breaks>>

\* Under update_lock the next message, or the history, is taken out.
Flush(k) ==
  /\ flusher[k].at = "flush" /\ sending.update = Nobody
  /\ CASE ~Quiet \/ (queue = <<>> /\ news.pending = 0) ->
            /\ flusher' = [flusher EXCEPT ![k].at = "idle"] /\ UNCHANGED <<queue, news, sending>>
       [] Quiet /\ queue # <<>> ->
            /\ queue' = Tail(queue) /\ sending' = [sending EXCEPT !.update = k] /\ UNCHANGED news
            /\ flusher' = [flusher EXCEPT ![k] = [at |-> "to send", kind |-> "message", item |-> Head(queue)]]
       [] Quiet /\ queue = <<>> /\ news.pending # 0 ->
            /\ news' = [news EXCEPT !.pending = 0] /\ sending' = [sending EXCEPT !.update = k] /\ UNCHANGED queue
            /\ flusher' = [flusher EXCEPT ![k] = [at |-> "to send", kind |-> "history", item |-> news.pending]]
  /\ UNCHANGED <<words, call, empty, speech, air, said, over, breaks>>

PutsBack(item) == <<item>> \o queue

\* Variant: the history that could not be told is put back over a newer one.
BackOver(item) == item
Back(item) == IF news.pending = 0 THEN item ELSE news.pending

NotNow(k) ==
  /\ flusher[k].at = "to send" /\ sending.send = Nobody /\ ~Quiet
  /\ queue' = (IF flusher[k].kind = "message" THEN PutsBack(flusher[k].item) ELSE queue)
  /\ news' = (IF flusher[k].kind = "history" THEN [news EXCEPT !.pending = Back(flusher[k].item)] ELSE news)
  /\ flusher' = [flusher EXCEPT ![k] = [at |-> "idle", kind |-> "none", item |-> 0]]
  /\ sending' = [sending EXCEPT !.update = Nobody]
  /\ UNCHANGED <<words, call, empty, speech, air, said, over, breaks>>

Says(k) ==
  /\ flusher[k].at = "to send" /\ sending.send = Nobody /\ Quiet
  /\ \/ Hands(flusher[k].kind, flusher[k].item) /\ UNCHANGED <<over, breaks>>
     \/ Breaks /\ over' = TRUE /\ UNCHANGED <<said, air>>
  /\ flusher' = [flusher EXCEPT ![k] = [at |-> "idle", kind |-> "none", item |-> 0]]
  /\ sending' = [sending EXCEPT !.update = Nobody]
  /\ UNCHANGED <<words, call, empty, queue, news, speech>>

------------------------------------------------------------------------------
(* _speak, in the refresh loop *)

Claim ==
  /\ flusher["refresh"].at = "idle" /\ speech.at = "idle" /\ speech.host = "none" /\ Quiet
  /\ speech' = [at |-> "claimed", host |-> "queued"]
  /\ UNCHANGED <<words, call, empty, queue, news, flusher, sending, air, said, over, breaks>>

\* Under send_lock: the claim is given back, or the host is told and waited for.
Submit ==
  /\ speech.at = "claimed" /\ sending.send = Nobody
  /\ IF Quiet THEN speech' = [at |-> "submitting", host |-> "submitting"] /\ sending' = [sending EXCEPT !.send = "speech"]
     ELSE speech' = [at |-> "idle", host |-> "deferred"] /\ UNCHANGED sending
  /\ UNCHANGED <<words, call, empty, queue, news, flusher, air, said, over, breaks>>

Speak ==
  /\ speech.at = "submitting" /\ sending' = [sending EXCEPT !.send = Nobody]
  /\ speech' = [at |-> "idle", host |-> "unknown"]
  /\ \/ Quiet /\ Hands("speech", 1) /\ UNCHANGED <<over, breaks>>
     \/ ~Quiet /\ UNCHANGED <<said, air, over, breaks>>
     \/ Breaks /\ over' = TRUE /\ UNCHANGED <<said, air>>
  /\ UNCHANGED <<words, call, empty, queue, news, flusher>>

------------------------------------------------------------------------------
(* handle: the other events *)

OnSpeech ==
  /\ air' = [air EXCEPT !.speaking = ~@, !.active = (IF air.speaking THEN @ ELSE FALSE)]
  /\ UNCHANGED <<words, call, empty, queue, news, flusher, speech, sending, said, over, breaks>>

OnTurn ==
  /\ air.active /\ air' = [air EXCEPT !.active = FALSE]
  /\ UNCHANGED <<words, call, empty, queue, news, flusher, speech, sending, said, over, breaks>>

NativeLiveNext ==
  /\ ~over
  /\ \/ Hear \/ Type \/ TypedAnswered \/ Tick \/ HistoryRead \/ Claim \/ Submit \/ Speak \/ OnSpeech \/ OnTurn
     \/ \E d \in Asked : \/ Delegate(d) \/ Refuse(d) \/ Posted(d) \/ Polled(d) \/ DispatchFails(d)
                         \/ TakesLock(d) \/ Answer(d) \/ Retire(d)
     \/ \E k \in Flushers : Flush(k) \/ NotNow(k) \/ Says(k)

NativeLiveSpec == NativeLiveInit /\ [][NativeLiveNext]_nativeLiveVars

------------------------------------------------------------------------------
NativeLiveTypeOK ==
  /\ words.heard \in 0..MaxWords /\ empty \in 0..(MaxProposals + 1) /\ Len(queue) <= MaxTyped
  /\ sending.update \in Flushers \union {Nobody}

Rises(s) == \A i, j \in 1..Len(s) : i < j => s[i] < s[j]

(* What the operator said is acted on by one delegation.                     *)
WordsActOnce == \A w \in 1..MaxWords : Cardinality(words.of[w]) <= 1

(* The outputs of typed inputs are said in the order they were typed, each   *)
(* once, and the histories from the older to the newer.                      *)
SaidInOrder == Rises(said["message"]) /\ Rises(said["history"])

(* The newest history has been told, is being told, or waits.                *)
NewestIsKept ==
  over \/ news.newest = 0 \/ news.pending = news.newest
  \/ (\E k \in Flushers : flusher[k].kind = "history" /\ flusher[k].item = news.newest)
  \/ news.newest \in ToSet(said["history"])

(* No typed answer is lost, whoever flushes and however often it is put back.*)
TypedIsKept ==
  over \/ \A m \in 1..air.typed :
    \/ m \in ToSet(queue) \/ (flusher["command"].at = "asking" /\ m = air.typed)
    \/ (\E k \in Flushers : flusher[k].kind = "message" /\ flusher[k].item = m)
    \/ m \in ToSet(said["message"])

\* What every state of the native GPT-Live session keeps: words act once, what is told is
\* told in order, and nothing typed or newest is lost.
NativeLiveSafe == NativeLiveTypeOK /\ WordsActOnce /\ SaidInOrder /\ NewestIsKept /\ TypedIsKept

(* (Refuted: the task of a delegation looks whether it was retired, and then *)
(* waits for send_lock.)                                                     *)
(* A delegation the provider took back is not answered.                      *)
RetiredIsSilent ==
  [][\A d \in Asked : call[d].retired => (d \in ToSet(said'["result"]) => d \in ToSet(said["result"]))]_nativeLiveVars

(* (Refuted: the words of a delegation whose dispatch failed stay claimed.)  *)
(* Words are acted on, or a later delegation can still claim them.           *)
WordsStayUsable == \A w \in 1..words.heard : \A d \in words.of[w] : call[d].at # "failed"
=============================================================================
