---------------------------- MODULE ProviderWire ----------------------------
(***************************************************************************)
(* The socket under every provider session and the state the session shows *)
(* (_OpenAIWireSession, _GrokWireSession and _GeminiWireSession share the  *)
(* protocol in talk_openai_realtime.py, talk_grok_realtime.py and          *)
(* talk_gemini_realtime.py).                                               *)
(*                                                                         *)
(* Any number of tasks may call close; one task of its own does the work,  *)
(* a waiter may be cancelled, and a close that failed may be called again, *)
(* though nothing is left for it to close.                                 *)
(* Grok sends cumulative transcripts: one final per committed item.        *)
(***************************************************************************)
EXTENDS Naturals, Sequences, SequencesExt

CONSTANTS
  Closers,       \* tasks that call close
  MaxCloseTasks, \* bound: close tasks that are started
  SpokenItems,   \* input items of the provider
  MaxItems,      \* _InputTranscriptDedupe.MAX_ITEMS
  ConnectsAlone  \* TRUE: nobody closes while connect is in progress

ASSUME WireAssumption ==
  /\ MaxCloseTasks \in Nat \ {0} /\ MaxItems \in Nat \ {0} /\ ConnectsAlone \in BOOLEAN

VARIABLES
  wire,     \* connect and the exit stack ("spent": put back after a failed exit)
  closing,  \* closing[t]: a _finish_close task
  closers,  \* closers[c]: a call of close
  session,  \* state and _terminal_emitted
  dedupe    \* _InputTranscriptDedupe, and the finals it let through

wireVars == <<wire, closing, closers, session, dedupe>>

Tasks == 1 .. MaxCloseTasks

WireInit ==
  /\ wire = [connect |-> "new", socket |-> FALSE, stack |-> "none", closed |-> FALSE, task |-> 0,
           raised |-> FALSE]
  /\ closing = [t \in Tasks |-> "none"]
  /\ closers = [c \in Closers |-> [at |-> "idle", task |-> 0]]
  /\ session = [state |-> "new", ended |-> FALSE]
  /\ dedupe = [current |-> "", items |-> <<>>, finals |-> [i \in SpokenItems |-> 0],
               forgot |-> {}]

WireTypeOK ==
  /\ wire.task \in 0 .. MaxCloseTasks /\ wire.stack \in {"none", "held", "spent"}
  /\ closing \in [Tasks -> {"none", "started", "exiting", "exited", "failing", "done", "failed"}]
  /\ closers \in [Closers -> [at: {"idle", "waiting", "ok", "raised"}, task: 0 .. MaxCloseTasks]]
  /\ session.state \in {"new", "connecting", "connected", "closed", "failed"}
  /\ Len(dedupe.items) <= MaxItems

\* Variant: whoever ends the session last names its state.
MovedAny(s) == s

\* A failure is not taken back.
Moved(s) == IF session.state = "failed" THEN "failed" ELSE s

-----------------------------------------------------------------------------
(* connect: the stack is the caller's until the socket is up.              *)

Connect ==
  /\ wire.connect = "new" /\ ~wire.closed /\ session.state = "new"
  /\ ConnectsAlone => wire.task = 0
  /\ wire' = [wire EXCEPT !.connect = "opening"]
  /\ session' = [session EXCEPT !.state = "connecting"]
  /\ UNCHANGED <<closing, closers, dedupe>>

\* The socket is up and the session update went out.
Connected ==
  /\ wire.connect = "opening"
  /\ wire' = [wire EXCEPT !.connect = "up", !.socket = TRUE, !.stack = "held"]
  /\ session' = [session EXCEPT !.state = "connected"]
  /\ UNCHANGED <<closing, closers, dedupe>>

\* The attempt failed, or its task was cancelled: what it opened is released.
ConnectFails ==
  /\ wire.connect = "opening"
  /\ wire' = [wire EXCEPT !.connect = "over"]
  /\ \E s \in {"closed", "failed"} : session' = [session EXCEPT !.state = s]
  /\ UNCHANGED <<closing, closers, dedupe>>

-----------------------------------------------------------------------------
(* close.                                                                  *)

Close(c) ==
  /\ closers[c].at \in {"idle", "raised"}
  /\ ConnectsAlone => wire.connect # "opening"
  /\ \/ /\ wire.closed
        /\ closers' = [closers EXCEPT ![c] = [at |-> "ok", task |-> 0]]
        /\ UNCHANGED <<wire, closing>>
     \/ /\ ~wire.closed /\ wire.task # 0
        /\ closers' = [closers EXCEPT ![c] = [at |-> "waiting", task |-> wire.task]]
        /\ UNCHANGED <<wire, closing>>
     \/ /\ ~wire.closed /\ wire.task = 0
        /\ \E t \in Tasks :
             /\ closing[t] = "none" /\ \A u \in 1 .. t - 1 : closing[u] # "none"
             /\ closing' = [closing EXCEPT ![t] = "started"]
             /\ wire' = [wire EXCEPT !.task = t]
             /\ closers' = [closers EXCEPT ![c] = [at |-> "waiting", task |-> t]]
  /\ UNCHANGED <<session, dedupe>>

\* Variant: the exit of the stack is not waited for.
WaitsNot(stack) == FALSE

\* A stack that was put back has popped its callbacks: its exit is over at once.
Waits(stack) == stack = "held"

\* _close_once takes the stack before it waits for its exit.
CloseOnce(t) ==
  /\ closing[t] = "started"
  /\ closing' = [closing EXCEPT ![t] = IF Waits(wire.stack) THEN "exiting" ELSE "exited"]
  /\ wire' = [wire EXCEPT !.stack = "none"]
  /\ UNCHANGED <<closers, session, dedupe>>

\* The exit pops and runs every callback.  When one raises, the others run all
\* the same, so the socket may be gone or not, and the stack is put back empty.
Exits(t) ==
  /\ closing[t] = "exiting"
  /\ \/ closing' = [closing EXCEPT ![t] = "exited"] /\ wire' = [wire EXCEPT !.socket = FALSE]
     \/ /\ closing' = [closing EXCEPT ![t] = "failing"]
        /\ \E left \in BOOLEAN :
             wire' = [wire EXCEPT !.stack = "spent", !.socket = left, !.raised = TRUE]
  /\ UNCHANGED <<closers, session, dedupe>>

FinishClose(t) ==
  /\ closing[t] \in {"exited", "failing"}
  /\ closing' = [closing EXCEPT ![t] = IF @ = "exited" THEN "done" ELSE "failed"]
  /\ wire' = [wire EXCEPT !.task = IF @ = t THEN 0 ELSE @,
                          !.closed = @ \/ (closing[t] = "exited" /\ wire.task = t)]
  /\ UNCHANGED <<closers, session, dedupe>>

\* The waiter has the task's result, and the session its state; or the waiter
\* is cancelled and the task goes on.
CloseReturns(c) ==
  /\ closers[c].at = "waiting"
  /\ LET t == closers[c].task
     IN  \/ /\ closing[t] = "done"
            /\ closers' = [closers EXCEPT ![c].at = "ok"]
            /\ session' = [session EXCEPT !.state = Moved("closed")]
         \/ /\ closing[t] = "failed"
            /\ closers' = [closers EXCEPT ![c].at = "raised"] /\ UNCHANGED session
         \/ /\ closers' = [closers EXCEPT ![c] = [at |-> "idle", task |-> 0]]
            /\ UNCHANGED session
  /\ UNCHANGED <<wire, closing, dedupe>>

-----------------------------------------------------------------------------
(* The reader and the sender.                                              *)

Reads == session.state \in {"connected", "closed", "failed"} /\ ~session.ended

\* The stream ended, cleanly or with a detail.
ReadEnds ==
  /\ Reads
  /\ \E s \in {"closed", "failed"} : session' = [state |-> Moved(s), ended |-> TRUE]
  /\ UNCHANGED <<wire, closing, closers, dedupe>>

\* A frame could not be read.
ReadBreaks ==
  /\ Reads
  /\ session' = [session EXCEPT !.state = "failed"]
  /\ UNCHANGED <<wire, closing, closers, dedupe>>

\* A send that fails; after a clean end of the stream results may still go out.
SendFails ==
  /\ session.state = "connected" \/ (session.state = "closed" /\ session.ended)
  /\ session' = [session EXCEPT !.state = "failed"]
  /\ UNCHANGED <<wire, closing, closers, dedupe>>

-----------------------------------------------------------------------------
(* Grok's transcripts.                                                     *)

KnownAt(s, i) == {n \in DOMAIN s : s[n].id = i}

\* _item: what is known of i, the oldest item forgotten beyond MAX_ITEMS.
WithItem(i) ==
  LET s == IF KnownAt(dedupe.items, i) # {} THEN dedupe.items
           ELSE Append(dedupe.items, [id |-> i, committed |-> FALSE, final |-> FALSE])
  IN  IF Len(s) > MaxItems THEN Tail(s) ELSE s

Lost(s) == {dedupe.items[n].id : n \in DOMAIN dedupe.items} \ {s[n].id : n \in DOMAIN s}

\* speech_started names the item, and input_audio_buffer.committed commits it.
BeginItem(i) ==
  /\ session.state = "connected"
  /\ \E committed \in BOOLEAN :
       LET s == WithItem(i)
       IN  dedupe' = [dedupe EXCEPT !.current = i, !.forgot = @ \union Lost(s),
                        !.items = [n \in DOMAIN s |->
                           IF s[n].id = i THEN [s[n] EXCEPT !.committed = @ \/ committed]
                           ELSE s[n]]]
  /\ UNCHANGED <<wire, closing, closers, session>>

\* Variant: every final of the provider is final.
FinalAny(row) == TRUE

\* A final counts when the item is committed.
Final(row) == row.committed

\* A transcript that says it is final.  One that comes too early is passed on
\* as a partial, one that comes again is dropped.
Admit(i) ==
  /\ session.state = "connected" /\ dedupe.current # ""
  /\ LET s   == WithItem(i)
         n   == CHOOSE m \in KnownAt(s, i) : TRUE
         fin == Final(s[n]) /\ ~s[n].final
     IN  /\ dedupe' = [dedupe EXCEPT !.items = [s EXCEPT ![n].final = @ \/ fin],
                         !.forgot = @ \union Lost(s),
                         !.finals[i] = IF fin /\ @ < 2 THEN @ + 1 ELSE @]
  /\ UNCHANGED <<wire, closing, closers, session>>

WireNext ==
  \/ Connect \/ Connected \/ ConnectFails \/ ReadEnds \/ ReadBreaks \/ SendFails
  \/ \E c \in Closers : Close(c) \/ CloseReturns(c)
  \/ \E t \in Tasks : CloseOnce(t) \/ Exits(t) \/ FinishClose(t)
  \/ \E i \in SpokenItems : BeginItem(i) \/ Admit(i)

WireSpec == WireInit /\ [][WireNext]_wireVars

-----------------------------------------------------------------------------
\* A close that returned without an error left no socket open, whoever did the
\* work, unless an exit raised before (_close_once, _finish_close).
ClosedIsReleased ==
  wire.closed \/ (\E c \in Closers : closers[c].at = "ok") => ~wire.socket \/ wire.raised

\* (Refuted: what a failed exit put back has no callbacks left, so the close that
\* is tried again closes nothing and returns.)  A retried close releases.
RetryReleases == wire.closed => ~wire.socket

\* One task closes at a time, and a waiter waits for a task that was started.
OneCloses ==
  /\ \A t, u \in Tasks : closing[t] \in {"started", "exiting", "exited", "failing"}
                       /\ closing[u] \in {"started", "exiting", "exited", "failing"} => t = u
  /\ \A c \in Closers : closers[c].at = "waiting" => closing[closers[c].task] # "none"
  /\ wire.socket /\ ~wire.raised =>
       wire.stack = "held" \/ \E t \in Tasks : closing[t] = "exiting"

\* One final transcript per item, unless the item was forgotten in between;
\* and none of an item that was not committed (_InputTranscriptDedupe).
OneFinal ==
  \A i \in SpokenItems :
    /\ i \notin dedupe.forgot => dedupe.finals[i] <= 1
    /\ \A n \in DOMAIN dedupe.items :
         dedupe.items[n].final => dedupe.items[n].committed /\ dedupe.finals[dedupe.items[n].id] > 0

\* The three together, and the types.
WireSafe == WireTypeOK /\ ClosedIsReleased /\ OneCloses /\ OneFinal

\* A session that failed stays failed, and one that is over is not up again:
\* the states only move on.
StatesMoveOn ==
  [][/\ session.state = "failed" => session'.state = "failed"
     /\ session.state = "closed" => session'.state \in {"closed", "failed"}
     /\ session.ended => session'.ended]_wireVars
=============================================================================
