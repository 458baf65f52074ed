--------------------------- MODULE LiveOperations ---------------------------
(***************************************************************************)
(* One operation per delegation of a GPT-Live session                      *)
(* (LiveLedger and LiveCoordinator of talk_live_coordinator.py, the live   *)
(* decision of talk_dashboard_store.py, the pending fragments of           *)
(* talk_live_browser.py).                                                  *)
(*                                                                         *)
(* The provider transcribes words as deltas and then as a turn that covers *)
(* them, and asks for a delegation up to an offset.  The ledger admits     *)
(* the words nobody acted on, a task of this process decides and acts, and *)
(* whoever polls may settle what the task left.  Every transaction and     *)
(* every thread the loop waits for is a step of its own.                   *)
(***************************************************************************)
EXTENDS Naturals, FiniteSets, TLC

CONSTANTS
  Delegations,      \* delegation ids of the provider
  LastWord,         \* bound: words spoken
  Offsets,          \* offsets a delegation may come with; NoOffset when the provider names none
  MaxSeatBreaks         \* bound: restarts, shutdowns, rejoins and repeated requests

ASSUME LiveAssumption == LastWord \in Nat \ {0} /\ Offsets \subseteq 0..LastWord /\ MaxSeatBreaks \in Nat

Deltas == 1..LastWord
Turn == LastWord + 1
NoOffset == 0
Unheard == [rows |-> {}, offset |-> 0, heard |-> 0]
Unbound == {}
Sources == ((SUBSET Deltas) \ {{}}) \cup {{Turn}}
PendingStates == {"admitted", "deciding", "dispatching"}

VARIABLES
  voiced,      \* rows the provider emitted: deltas in order, then the turn
  waiting,    \* pending_fragments: rows no delegation took
  requested,      \* requested[d]: the request of a delegation
  ledger,     \* [stored, claimed, bound]: transcripts, live_claims, live_delegations
  operation,  \* operation[s]: the live operation on a source, or NoOperation
  look,       \* a poll between its transactions
  seat        \* [generation, breaks]: the connection and the incidents so far

liveVars == <<voiced, waiting, requested, ledger, operation, look, seat>>

NoOperation == [state |-> "none"]
NoLook == [source |-> {}]

LiveInit ==
  /\ voiced = 0 /\ waiting = {}
  /\ requested = [d \in Delegations |-> Unheard]
  /\ ledger = [stored |-> {}, claimed |-> {}, bound |-> [d \in Delegations |-> Unbound]]
  /\ operation = [s \in Sources |-> NoOperation]
  /\ look = NoLook
  /\ seat = [generation |-> 1, breaks |-> 0]

Words(row) == IF row = Turn THEN Deltas ELSE {row}
WordsOf(rows) == UNION {Words(r) : r \in rows}
End(row) == IF row = Turn THEN LastWord ELSE row
Covers(turn, row) == turn = Turn /\ row \in Deltas
Live == {s \in Sources : operation[s].state # "none"}

SeatBreaks == seat.breaks < MaxSeatBreaks /\ seat' = [seat EXCEPT !.breaks = @ + 1]
Changes(s, fields) == operation' = [operation EXCEPT ![s] = fields @@ @]

-----------------------------------------------------------------------------
(* The browser's side.                                                     *)

RecordTranscript ==
  /\ voiced < Turn /\ voiced' = voiced + 1
  /\ waiting' = waiting \cup {voiced + 1}
  /\ UNCHANGED <<requested, ledger, operation, look, seat>>

\* A delegation takes the rows that end by its offset; the later ones wait for the next.
DelegateWork(d, offset) ==
  /\ requested[d] = Unheard /\ voiced > 0
  /\ LET taken == {r \in waiting : offset = NoOffset \/ End(r) <= offset}
     IN /\ requested' = [requested EXCEPT ![d] = [rows |-> taken, offset |-> offset, heard |-> voiced]]
        /\ waiting' = waiting \ taken
  /\ UNCHANGED <<voiced, ledger, operation, look, seat>>

\* flush_capture: what was heard reaches the ledger in order, a batch at a time.
AppendCapture ==
  /\ \E last \in 1..voiced : 1..last # ledger.stored /\ ledger.stored \subseteq 1..last
                           /\ ledger' = [ledger EXCEPT !.stored = 1..last]
  /\ UNCHANGED <<voiced, waiting, requested, operation, look, seat>>

-----------------------------------------------------------------------------
(* Admission: one transaction.                                             *)

\* What the ledger holds of the captured range beside what the request brought.
LateCapture(rows, offset, stored) ==
  IF offset = NoOffset THEN rows
  ELSE rows \cup {r \in stored : /\ End(r) <= offset
                                 /\ \E first \in rows : \A w \in Words(r) : \E v \in Words(first) : v <= w}

\* A turn stands for the deltas it covers.
Covering(rows) == {r \in rows : ~\E t \in rows : Covers(t, r)}

\* Variant: a turn is compared with the claims by its own id only.
UnclaimedRowsById(rows) == rows \ ledger.claimed
UnclaimedRows(rows) ==
  {r \in rows \ ledger.claimed : ~\E old \in ledger.claimed : Covers(r, old)}

\* What a request for a delegation captures, after flush_capture stored what was heard by
\* then: its words, and with an offset what the ledger holds of that range.
Captured(d) ==
  IF requested[d].rows = {} \/ ~(1..requested[d].heard \subseteq ledger.stored) THEN {}
  ELSE LateCapture(requested[d].rows, requested[d].offset, ledger.stored)

\* A repeated delegation finds its operation, or conflicts when its words differ.
AdmitAgain(d) ==
  /\ Captured(d) # {} /\ ledger.bound[d] # Unbound
  /\ UNCHANGED liveVars

\* Another delegation asks for the very words of an operation.
AdmitSame(d) ==
  LET same == Covering(Captured(d))
  IN /\ same \in Live /\ ledger.bound[d] = Unbound
     /\ ledger' = [ledger EXCEPT !.bound[d] = same]
     /\ UNCHANGED <<voiced, waiting, requested, operation, look, seat>>

\* Nothing but words somebody acted on already.
AdmitNothing(d) ==
  LET rows == Captured(d)
  IN /\ rows # {} /\ ledger.bound[d] = Unbound /\ Covering(rows) \notin Live
     /\ UnclaimedRows(rows) = {}
     /\ UNCHANGED liveVars

\* Variant: only the words of the new operation are claimed, not all that was captured.
ClaimsSource(rows) == Covering(UnclaimedRows(rows))
ClaimsAll(rows) == rows

\* A new operation on the words nobody acted on: staged, claimed and bound at once.
AdmitNew(d) ==
  LET rows == Captured(d)
      source == Covering(UnclaimedRows(rows))
  IN /\ rows # {} /\ ledger.bound[d] = Unbound /\ Covering(rows) \notin Live
     /\ source # {}
     /\ ledger' = [ledger EXCEPT !.claimed = @ \cup ClaimsAll(rows),
                                    !.bound[d] = source]
     /\ Changes(source,
          [state |-> "admitted", decision |-> "reasoning", action |-> "none",
           at |-> "begin", mode |-> "created", will |-> "none", decided |-> 0,
           generation |-> seat.generation,
           shown |-> "none", claim |-> 0, told |-> "none"])
     /\ UNCHANGED <<voiced, waiting, requested, look, seat>>

-----------------------------------------------------------------------------
(* The task that runs an operation.                                        *)

\* Bound: one operation is run, polled and presented; the others stay as they were admitted.
Alone(s) == \A u \in Live \ {s} : operation[u].mode = "created" /\ operation[u].state = "admitted"

\* The loop registers the task after the thread that admitted has returned.
Launch(s) ==
  /\ s \in Live /\ operation[s].mode = "created" /\ Alone(s)
  /\ Changes(s, [mode |-> "live"])
  /\ UNCHANGED <<voiced, waiting, requested, ledger, look, seat>>

SameLease(s) == operation[s].generation = seat.generation

\* Variant: an end that was written is overwritten.
FinishedAny(s, state) == [state |-> state]
FinishOperation(s, state) ==
  IF operation[s].state = "completed" THEN [state |-> "completed"] ELSE [state |-> state]

\* A thread whose task was cancelled finishes what it does, and nothing follows.
To(s, place) == [at |-> IF operation[s].mode = "live" THEN place ELSE "over"]
CloseSession(s, will) == [will |-> will] @@ To(s, "close")
Runs(s, place) == s \in Live /\ operation[s].at = place
KeepsRest == UNCHANGED <<voiced, waiting, requested, ledger, look, seat>>

Begin(s) ==
  /\ Runs(s, "begin") /\ operation[s].mode # "created"
  /\ Changes(s, IF SameLease(s) THEN To(s, "decide") @@ FinishOperation(s, "deciding")
                ELSE CloseSession(s, "uncertain"))
  /\ KeepsRest

\* The model decides, or fails, times out or answers nonsense.
Decide(s, value) ==
  /\ Runs(s, "decide") /\ operation[s].mode = "live"
  /\ Changes(s, [decided |-> operation[s].decided + 1] @@
                IF value = "fails" THEN CloseSession(s, "uncertain")
                ELSE [will |-> value] @@ To(s, "decided"))
  /\ KeepsRest

CompleteDecision(s) ==
  /\ Runs(s, "decided")
  /\ Changes(s,
       IF ~SameLease(s) THEN CloseSession(s, "uncertain")
       ELSE [decision |-> operation[s].will] @@
            (IF operation[s].will = "quiet" THEN CloseSession(s, "completed") ELSE To(s, "dispatch")))
  /\ KeepsRest

Dispatch(s) ==
  /\ Runs(s, "dispatch")
  /\ Changes(s, To(s, "tool") @@ FinishOperation(s, "dispatching"))
  /\ KeepsRest

\* The bound tool prepares its durable action and asks the host.
Act(s, refused) ==
  /\ Runs(s, "tool")
  /\ Changes(s, IF refused \/ ~SameLease(s) THEN CloseSession(s, "failed")
                ELSE [action |-> "submitting"] @@ To(s, "asking"))
  /\ KeepsRest

\* The host's answer, and the last check of the connection.
Answers(s, outcome) ==
  /\ Runs(s, "asking")
  /\ Changes(s, [action |-> outcome] @@
       CloseSession(s, IF ~SameLease(s) THEN "failed"
                  ELSE IF outcome = "submitting" THEN "uncertain" ELSE "completed"))
  /\ KeepsRest

CloseOperation(s) ==
  /\ Runs(s, "close")
  /\ Changes(s, [at |-> "over", mode |-> "ended"] @@ FinishOperation(s, operation[s].will))
  /\ KeepsRest

-----------------------------------------------------------------------------
(* Shutdown, restart and rejoin.                                           *)

\* The loop cancels the task; a thread it waited for goes on.
Cancel(s) ==
  /\ s \in Live /\ operation[s].mode = "live" /\ operation[s].at # "over"
  /\ SeatBreaks
  /\ Changes(s, [mode |-> "cut",
                 at |-> IF operation[s].at = "decide" THEN "over" ELSE operation[s].at])
  /\ UNCHANGED <<voiced, waiting, requested, ledger, look>>

WritesUncertain(s) ==
  /\ s \in Live /\ operation[s].mode = "cut"
  /\ Changes(s, [mode |-> "ended"] @@ FinishOperation(s, "uncertain"))
  /\ KeepsRest

HostDies ==
  /\ SeatBreaks
  /\ operation' = [s \in Sources |->
       IF s \in Live THEN [at |-> "over", mode |-> "ended"] @@ operation[s] ELSE operation[s]]
  /\ look' = NoLook
  /\ UNCHANGED <<voiced, waiting, requested, ledger>>

Rejoin ==
  /\ seat.breaks < MaxSeatBreaks
  /\ seat' = [generation |-> seat.generation + 1, breaks |-> seat.breaks + 1]
  /\ UNCHANGED <<voiced, waiting, requested, ledger, operation, look>>

\* The host's late answer to an action that was left submitting.
ReceiptArrives(s) ==
  /\ s \in Live /\ operation[s].action = "submitting" /\ operation[s].at # "asking"
  /\ Changes(s, [action |-> "accepted"])
  /\ KeepsRest

-----------------------------------------------------------------------------
(* Polls: the operation, then its decision and action, then the verdict.   *)

\* Reading an operation also retires a presentation of another connection, and one whose
\* claim lapsed.
Shown(s) ==
  {IF operation[s].shown \in {"submitting", "submitted"} /\ operation[s].claim # seat.generation
   THEN "unknown" ELSE operation[s].shown}
  \cup (IF operation[s].shown = "submitting" THEN {"unknown"} ELSE {})

LookAt(s) ==
  /\ look = NoLook /\ s \in Live /\ Alone(s)
  /\ \E shown \in Shown(s) : Changes(s, [shown |-> shown])
  /\ look' = [source |-> s, state |-> operation[s].state]
  /\ UNCHANGED <<voiced, waiting, requested, ledger, seat>>

Orphan(s) == look.state \in PendingStates /\ operation[s].mode \notin {"live", "cut"}

Settle ==
  /\ look # NoLook
  /\ LET s == look.source
     IN /\ Changes(s,
             IF operation[s].decision = "quiet" THEN FinishOperation(s, "completed")
             ELSE IF operation[s].action \in {"accepted", "returned"} /\ look.state # "completed"
                  THEN FinishOperation(s, "completed")
             ELSE IF Orphan(s) THEN FinishOperation(s, "uncertain")
             ELSE [state |-> operation[s].state])
  /\ look' = NoLook
  /\ UNCHANGED <<voiced, waiting, requested, ledger, seat>>

-----------------------------------------------------------------------------
(* Presentation: one claim per operation.                                  *)

\* Variant: a presentation that ended unknown is claimed once more.
ShowableAgain(s) == operation[s].shown \in {"none", "unknown"} /\ operation[s].state \notin PendingStates
Showable(s) == operation[s].shown = "none" /\ operation[s].state \notin PendingStates

Present(s) ==
  /\ s \in Live /\ Showable(s) /\ Alone(s)
  /\ Changes(s, [shown |-> "submitting", told |-> operation[s].state,
                 claim |-> seat.generation])
  /\ KeepsRest

\* Variant: a receipt replaces whatever was known.
ReceivedAny(s, receipt) == receipt
Received(s, receipt) == IF operation[s].shown = "unknown" THEN "unknown" ELSE receipt

\* The browser reports that the provider took the text, or that it cannot know.
Receipt(s, receipt) ==
  /\ s \in Live /\ operation[s].shown # "none" /\ operation[s].claim = seat.generation
  /\ receipt = "submitted" => operation[s].shown # "submitted"
  /\ Changes(s, [shown |-> Received(s, receipt)])
  /\ KeepsRest

LiveNext ==
  \/ RecordTranscript \/ AppendCapture
  \/ \E d \in Delegations, o \in Offsets :
       DelegateWork(d, o)
  \/ \E d \in Delegations : AdmitAgain(d) \/ AdmitSame(d) \/ AdmitNothing(d) \/ AdmitNew(d)
  \/ \E s \in Sources :
       \/ Launch(s) \/ Begin(s) \/ CompleteDecision(s) \/ Dispatch(s) \/ CloseOperation(s)
       \/ Cancel(s) \/ WritesUncertain(s) \/ ReceiptArrives(s) \/ LookAt(s) \/ Present(s)
       \/ \E r \in {"submitted", "unknown"} : Receipt(s, r)
       \/ \E v \in {"quiet", "acts", "fails"} : Decide(s, v)
       \/ \E refused \in BOOLEAN : Act(s, refused)
       \/ \E o \in {"accepted", "returned", "submitting", "failed"} : Answers(s, o)
  \/ HostDies \/ Rejoin \/ Settle

LiveSpec == LiveInit /\ [][LiveNext]_liveVars

-----------------------------------------------------------------------------
LiveTypeOK ==
  /\ voiced \in 0..Turn /\ waiting \subseteq 1..Turn
  /\ \A s \in Live :
       /\ operation[s].state \in PendingStates \cup {"completed", "uncertain", "failed"}
       /\ operation[s].decided \in 0..1
       /\ operation[s].shown \in {"none", "submitting", "submitted", "unknown"}
  /\ \A d \in Delegations : ledger.bound[d] # Unbound => ledger.bound[d] \in Live

\* A word of the operator starts at most one operation, whether it was captured as a delta
\* or in the turn that covers it, by whichever delegations asked for it.
RowsActOnce ==
  \A s, u \in Live : s # u => WordsOf(s) \cap WordsOf(u) = {}

\* The words a bound delegation asked for are claimed, and its operation acts on some of them.
BoundIsClaimed ==
  \A d \in Delegations : ledger.bound[d] # Unbound =>
     requested[d].rows \subseteq ledger.claimed /\ ledger.bound[d] \subseteq ledger.claimed

\* An operation called completed was decided, and where it acts its action has an answer.
CompletedIsTrue ==
  \A s \in Live : operation[s].state = "completed" =>
     \/ operation[s].decision = "quiet"
     \/ operation[s].decision = "acts" /\ operation[s].action \in {"accepted", "returned", "failed"}

\* A pending operation that nobody runs was pending when its task ended, never restarted:
\* nothing is decided for an operation that was presented as pending.
PresentedWasReady ==
  \A s \in Live : operation[s].shown # "none" => operation[s].told \notin PendingStates

\* What every state of the operations keeps: words act once, what is bound is claimed, and
\* completed and presented say what happened.
LiveSafe == LiveTypeOK /\ RowsActOnce /\ BoundIsClaimed /\ CompletedIsTrue /\ PresentedWasReady

\* Completed stays, an action that was answered is not asked again, and a presentation that
\* ended unknown is never claimed nor confirmed later.
LiveEndsHold ==
  [][\A s \in Live :
       /\ operation[s].state = "completed" => operation'[s].state = "completed"
       /\ operation[s].action \in {"accepted", "returned"} => operation'[s].action = operation[s].action
       /\ operation[s].shown = "unknown" => operation'[s].shown = "unknown"]_liveVars

\* (Refuted: a repeated request polls between the admission and the start of its task, and the
\* poll calls the operation uncertain while the task goes on to decide and act.)
UncertainIsOver ==
  [][\A s \in Live : operation[s].state = "uncertain" => operation'[s].state \notin PendingStates]_liveVars

\* (Refuted: the last check of the connection fails after the host accepted the action.)
FailedDidNothing ==
  \A s \in Live : operation[s].state = "failed" => operation[s].action \notin {"accepted", "returned"}

\* (Refuted: what was presented as uncertain completes later and is not presented again.)
PresentedIsTheEnd ==
  \A s \in Live : operation[s].told = "uncertain" => operation[s].state # "completed"
=============================================================================
