---------------------------- MODULE CascadeSpeech ----------------------------
(* Cascade voice: talk_cascade_voice.py.

   The provider writes an answer as text; the cascade cuts the text into pieces,
   queues them, and speaks them through one text-to-speech stream at a time.
   Provider events are handled in one turn of the event loop each; the worker,
   the stream it runs, and the stream's sender are tasks that interleave with
   them at their awaits.  The queue carries no name: a flush mark after an
   answer's last piece is all that separates one answer from the next, and what
   belongs to whom is this module's own knowledge (`of').                     *)
EXTENDS Naturals, Sequences, FiniteSets

CONSTANTS
    Responses,        \* the provider's responses, by id
    MaxPieces,      \* bound: pieces of text per answer
    MaxCancelledIds, \* _MAX_CANCELLED_RESPONSES
    MaxStreams,     \* bound: streams opened
    MaxStreamFaults, \* bound: streams that fail
    Overlaps        \* whether an answer may start before the last one is spoken

ASSUME BoundAssumption == MaxCancelledIds \in Nat \ {0} /\ Overlaps \in BOOLEAN

VARIABLES
    text,       \* answer -> "new", "open", "final", "done": the provider's side of it
    pieces,     \* answer -> pieces written so far
    sentences,      \* _queue: [of, flush]
    chunker,    \* the answer whose unfinished text _chunker holds, or NoAnswer
    answering,     \* _active_response_id
    cancelled,  \* _cancelled_response_ids, oldest first
    flushed,    \* _flushed
    worker,     \* _run: "get", "wait", "ended"
    stream,     \* the streams opened: [at, sender, holds, hit, live]
    closing,    \* aclose: "open", "stream", "closed"
    faults,     \* failures so far
    silenced,   \* the answers the operator talked over
    late,       \* answers heard after they were talked over
    dropped     \* pieces a failure took that were another answer's

cascVars == <<text, pieces, sentences, chunker, answering, cancelled, flushed, worker, stream,
              closing, faults, silenced, late, dropped>>

NoAnswer == "no answer"
Streams == 1..MaxStreams
NoStream == [at |-> "none", sender |-> "none", holds |-> {}, hit |-> FALSE, of |-> NoAnswer]
Piece(a) == [of |-> a, flush |-> FALSE]
FlushMark(a) == [of |-> a, flush |-> TRUE]
Remembered == {cancelled[i] : i \in DOMAIN cancelled}

CascInit ==
    /\ text = [a \in Responses |-> "new"] /\ pieces = [a \in Responses |-> 0]
    /\ sentences = <<>> /\ chunker = NoAnswer /\ answering = NoAnswer /\ cancelled = <<>>
    /\ flushed = TRUE /\ worker = "get"
    /\ stream = [i \in Streams |-> NoStream]
    /\ closing = "open" /\ faults = 0 /\ silenced = {} /\ late = {} /\ dropped = FALSE

Running == {i \in Streams : stream[i].at \in {"new", "connecting", "reading"}}
Spare == {i \in Streams : stream[i].at = "none"}
Streaming == {i \in Streams : stream[i].at \notin {"none", "gone"} /\ stream[i].of = "worker"}

----------------------------------------------------------------------------
(* Provider events: handle_event and what it calls.                        *)

\* Variant: a cancelled answer's late text is spoken.
BelongsAny(a) == TRUE

Belongs(a) == a \notin Remembered /\ (answering = NoAnswer \/ answering = a)

(* Nothing of an earlier answer is still to be written, sent or heard.     *)
Silent == /\ sentences = <<>> /\ \A i \in Streams : stream[i].at \in {"none", "gone"}
         /\ \A b \in Responses : text[b] \in {"open", "final"} => b \in silenced

StartResponse(a) ==
    /\ closing = "open" /\ text[a] = "new" /\ (Overlaps \/ Silent)
    /\ text' = [text EXCEPT ![a] = "open"]
    /\ IF a \in Remembered THEN UNCHANGED <<answering, chunker, flushed>>
       ELSE answering' = a /\ chunker' = NoAnswer /\ flushed' = FALSE
    /\ UNCHANGED <<pieces, sentences, cancelled, worker, stream, closing, faults, silenced, late, dropped>>

(* A delta: it may complete a piece, and may leave text behind in the chunker. *)
Delta(a) ==
    /\ closing = "open" /\ text[a] = "open" /\ pieces[a] < MaxPieces
    /\ pieces' = [pieces EXCEPT ![a] = @ + 1]
    /\ IF Belongs(a)
       THEN \E cut \in BOOLEAN :
              /\ sentences' = IF cut THEN Append(sentences, Piece(a)) ELSE sentences
              /\ chunker' = IF cut THEN NoAnswer ELSE a
              /\ flushed' = FALSE
       ELSE UNCHANGED <<sentences, chunker, flushed>>
    /\ UNCHANGED <<text, answering, cancelled, worker, stream, closing, faults, silenced, late, dropped>>

Flushed(a) == IF chunker # NoAnswer THEN sentences \o <<Piece(chunker), FlushMark(a)>> ELSE Append(sentences, FlushMark(a))

(* The final transcript: a response that skipped its deltas is cut from it. *)
FinalText(a) ==
    /\ closing = "open" /\ text[a] = "open" /\ Belongs(a) /\ pieces[a] > 0
    /\ sentences' = Flushed(a) /\ chunker' = NoAnswer /\ flushed' = TRUE
    /\ text' = [text EXCEPT ![a] = "final"]
    /\ UNCHANGED <<pieces, answering, cancelled, worker, stream, closing, faults, silenced, late, dropped>>

FinishResponse(a) ==
    /\ closing = "open" /\ text[a] \in {"open", "final"}
    /\ text' = [text EXCEPT ![a] = "done"]
    /\ IF answering \notin {NoAnswer, a} THEN UNCHANGED <<sentences, chunker, flushed, answering>>
       ELSE /\ IF flushed THEN UNCHANGED <<sentences, chunker, flushed>>
               ELSE sentences' = Flushed(a) /\ chunker' = NoAnswer /\ flushed' = TRUE
            /\ answering' = NoAnswer
    /\ UNCHANGED <<pieces, cancelled, worker, stream, closing, faults, silenced, late, dropped>>

(* _drain_queue: everything queued up to and including the next flush mark goes.         *)
Marks == {i \in DOMAIN sentences : sentences[i].flush}
FirstMark == CHOOSE i \in Marks : \A j \in Marks : i <= j
DrainedTo == IF Marks = {} THEN Len(sentences) ELSE FirstMark
Drained == SubSeq(sentences, DrainedTo + 1, Len(sentences))

\* Variant: talking over an answer leaves its stream running.
HitsNothing(s) == s

Hits(s) == [i \in Streams |-> IF i \in Streaming /\ s[i].at \in {"new", "connecting", "reading"} THEN [s[i] EXCEPT !.hit = TRUE] ELSE s[i]]

(* What the operator talks over: the answer still being written and the one
   being spoken.  An answer queued behind those is left alone.               *)
TalkedOver == ({answering} \cup UNION {stream[i].holds : i \in Streaming}) \ {NoAnswer}

(* _abort: one stretch without an await.                                   *)
SpeechStarted ==
    /\ closing = "open" /\ TalkedOver # {}
    /\ stream' = Hits(stream)
    /\ sentences' = Drained
    /\ chunker' = NoAnswer /\ flushed' = TRUE /\ answering' = NoAnswer
    /\ cancelled' = IF answering = NoAnswer THEN cancelled
                    ELSE LET all == Append(cancelled, answering)
                         IN IF Len(all) > MaxCancelledIds THEN Tail(all) ELSE all
    /\ silenced' = silenced \cup TalkedOver
    /\ UNCHANGED <<text, pieces, worker, closing, faults, late, dropped>>

----------------------------------------------------------------------------
(* The worker: one piece opens one stream, and the worker waits for it.    *)

WorkerGets ==
    /\ worker = "get" /\ sentences # <<>> /\ (Spare # {} \/ Head(sentences).flush)
    /\ sentences' = Tail(sentences)
    /\ IF Head(sentences).flush THEN UNCHANGED <<worker, stream>>
       ELSE /\ worker' = "wait"
            /\ LET i == CHOOSE n \in Spare : \A m \in Spare : n <= m
               IN stream' = [stream EXCEPT ![i] = [NoStream EXCEPT !.at = "new", !.holds = {Head(sentences).of}, !.of = "worker"]]
    /\ UNCHANGED <<text, pieces, chunker, answering, cancelled, flushed, closing, faults, silenced, late, dropped>>

Forget(i) == stream' = [stream EXCEPT ![i] = [NoStream EXCEPT !.at = "gone"]]

\* Variant: the worker stops at a cancelled stream.
OnwardsNever == "ended"

OnFailure == "get"

(* The worker wakes: a cancelled stream is nobody's error; a failed one takes
   what it finds queued up to the next flush mark with it.                  *)
WorkerWakes(i) ==
    /\ worker = "wait" /\ i \in Streaming /\ stream[i].at \in {"cancelled", "failed", "finished"}
    /\ Forget(i) /\ worker' = OnFailure
    /\ IF stream[i].at = "failed"
       THEN /\ dropped' = (dropped \/ \E n \in 1..DrainedTo : sentences[n].of \notin stream[i].holds)
            /\ sentences' = Drained /\ chunker' = NoAnswer
       ELSE UNCHANGED <<sentences, chunker, dropped>>
    /\ UNCHANGED <<text, pieces, answering, cancelled, flushed, closing, faults, silenced, late>>

----------------------------------------------------------------------------
(* A stream: connect, send the first piece, then a sender feeds the rest
   while the reader plays what comes back.                                  *)

Step(i, at, sender) == stream' = [stream EXCEPT ![i].at = at, ![i].sender = sender]

StreamMoves(i) ==
    /\ ~stream[i].hit
    /\ \/ stream[i].at = "new" /\ Step(i, "connecting", "none")
       \/ stream[i].at = "connecting" /\ Step(i, "reading", "get")
    /\ UNCHANGED <<text, pieces, sentences, chunker, answering, cancelled, flushed, worker, closing, faults,
                   silenced, late, dropped>>

StreamIsHit(i) ==
    /\ stream[i].hit /\ stream[i].at \in {"new", "connecting", "reading"}
    /\ Step(i, "cancelled", "none")
    /\ UNCHANGED <<text, pieces, sentences, chunker, answering, cancelled, flushed, worker, closing, faults,
                   silenced, late, dropped>>

SenderSends(i) ==
    /\ stream[i].at = "reading" /\ stream[i].sender = "get" /\ sentences # <<>>
    /\ sentences' = Tail(sentences)
    /\ stream' = [stream EXCEPT ![i] = IF Head(sentences).flush THEN [@ EXCEPT !.sender = "eos"]
                                       ELSE [@ EXCEPT !.holds = @ \cup {Head(sentences).of}]]
    /\ UNCHANGED <<text, pieces, chunker, answering, cancelled, flushed, worker, closing, faults,
                   silenced, late, dropped>>

Plays(i, a) ==
    /\ stream[i].at = "reading" /\ ~stream[i].hit /\ a \in stream[i].holds
    /\ a \in silenced \ late
    /\ late' = late \cup {a}
    /\ UNCHANGED <<text, pieces, sentences, chunker, answering, cancelled, flushed, worker, stream, closing,
                   faults, silenced, dropped>>

StreamFinishes(i) ==
    /\ stream[i].at = "reading" /\ ~stream[i].hit /\ stream[i].sender = "eos"
    /\ Step(i, "finished", "none")
    /\ UNCHANGED <<text, pieces, sentences, chunker, answering, cancelled, flushed, worker, closing, faults,
                   silenced, late, dropped>>

StreamFails(i) ==
    /\ stream[i].at \in {"connecting", "reading"} /\ ~stream[i].hit /\ faults < MaxStreamFaults
    /\ faults' = faults + 1
    /\ Step(i, "failed", "none")
    /\ UNCHANGED <<text, pieces, sentences, chunker, answering, cancelled, flushed, worker, closing,
                   silenced, late, dropped>>

----------------------------------------------------------------------------
(* aclose: cancel the stream and await it, then cancel the worker.  The worker
   waits for the same stream and is woken first: it takes the next queued piece
   in the same turn, before the close goes on.                              *)

Abandoned(s) == [i \in Streams |-> IF i \in Streaming THEN [s[i] EXCEPT !.of = "nobody"] ELSE s[i]]

Closes ==
    /\ closing = "open"
    /\ IF Streaming = {} THEN closing' = "closed" /\ worker' = "ended" /\ UNCHANGED stream
       ELSE closing' = "stream" /\ stream' = Hits(stream) /\ UNCHANGED worker
    /\ UNCHANGED <<text, pieces, sentences, chunker, answering, cancelled, flushed, faults, silenced, late, dropped>>

WorkerIsStopped ==
    /\ closing = "stream"
    /\ worker = "get" => sentences = <<>>
    /\ \A i \in Streaming : ~stream[i].hit /\ stream[i].at = "new"
    /\ closing' = "closed" /\ worker' = "ended"
    /\ stream' = Abandoned(stream)
    /\ UNCHANGED <<text, pieces, sentences, chunker, answering, cancelled, flushed, faults, silenced, late, dropped>>

CascNext ==
    \/ \E a \in Responses : StartResponse(a) \/ Delta(a) \/ FinalText(a) \/ FinishResponse(a)
    \/ SpeechStarted \/ WorkerGets
    \/ \E i \in Streams : \/ WorkerWakes(i) \/ StreamMoves(i) \/ StreamIsHit(i) \/ SenderSends(i)
                          \/ StreamFinishes(i) \/ StreamFails(i)
                          \/ \E a \in Responses : Plays(i, a)
    \/ Closes \/ WorkerIsStopped

CascSpec == CascInit /\ [][CascNext]_cascVars

----------------------------------------------------------------------------
CascTypeOK ==
    /\ answering \in Responses \cup {NoAnswer} /\ chunker \in Responses \cup {NoAnswer}
    /\ late \subseteq Responses /\ silenced \subseteq Responses

(* A cancelled sentence never speaks: no answer is heard once the operator has
   talked over it.  (With Overlaps TRUE refuted: the drain stops at the flush
   mark of the answer before, and the cancelled answer's pieces are spoken.)   *)
CancelledStaysSilent == late = {}

(* A failed stream silences its own answer and no other.  (With Overlaps TRUE
   refuted: once its flush mark is sent, the drain takes the next answer's.)   *)
FailureIsItsOwn == ~dropped

(* Late text of a cancelled answer is neither kept nor spoken as long as the
   cancellation is remembered, and what is written last is never cancelled.    *)
LateTextIsDropped == chunker \notin Remembered /\ answering \notin Remembered

(* Nothing waits in the queue for nobody: the worker is about to take it, or
   a stream is running whose end wakes the worker; never two streams at once.  *)
NeverStuck ==
    /\ Cardinality(Streaming) <= 1
    /\ closing # "closed" /\ worker # "get" => Streaming # {}

\* What every state of a cascade keeps: a cancelled answer is silent, a failure is told of
\* the answer that failed, and a running stream is somebody's.
CascadeSafe == CascTypeOK /\ CancelledStaysSilent /\ FailureIsItsOwn /\ LateTextIsDropped /\ NeverStuck

(* A closed cascade runs no stream.  (Refuted: the worker wakes from the
   cancelled stream before it is cancelled itself, and opens another.)         *)
ClosedIsSilent == closing = "closed" => Running = {}

=============================================================================
