--------------------------- MODULE GeminiSession ---------------------------
(***************************************************************************)
(* One Gemini Live session (GeminiRealtimeSession of                       *)
(* talk_gemini_realtime.py) between the provider's messages and the        *)
(* client's commands.                                                      *)
(*                                                                         *)
(* Gemini has no response ids: the adapter makes the bracket of a response *)
(* from generationComplete, turnComplete, interrupted and tool calls.  In  *)
(* captured mode a batch of tool calls is one delegation, named after its  *)
(* first call; its result is recorded after the send, under the command    *)
(* lock, while the reader goes on.                                         *)
(***************************************************************************)
EXTENDS Naturals, Sequences, FiniteSets, SequencesExt

CONSTANTS
  GemCalls,       \* call ids of the provider
  GemSenders,     \* tasks that send commands
  MaxCancelled,   \* MAX_CANCELLED_CALL_IDS
  MaxBatches,     \* the 256 delegations of a session
  MaxGemMessages  \* bound: messages of the provider

ASSUME GeminiAssumption ==
  MaxCancelled \in Nat \ {0} /\ MaxBatches \in Nat \ {0} /\ "none" \notin GemCalls

VARIABLES
  gem,      \* the session
  senders,  \* senders[s]: a call of send
  told     \* what the client was told and the provider was sent

gemVars == <<gem, senders, told>>

NoBatch == "none"
Content == [input: BOOLEAN, output: BOOLEAN, interrupted: BOOLEAN, generationComplete: BOOLEAN,
            turnComplete: BOOLEAN]
Zero == [c \in GemCalls |-> 0]

GemInit ==
  /\ gem = [state |-> "new", captured |-> FALSE, open |-> FALSE, trailing |-> FALSE,
            words |-> FALSE, names |-> {}, cancelled |-> <<>>,
            owner |-> [c \in GemCalls |-> NoBatch], results |-> Zero, contexts |-> Zero,
            retired |-> {}, fence |-> FALSE, interrupted |-> FALSE, doomed |-> FALSE,
            ended |-> FALSE]
  /\ senders = [s \in GemSenders |-> [at |-> "idle"]]
  /\ told = [messages |-> 0, bracket |-> "closed", asked |-> Zero, retired |-> Zero,
              sent |-> Zero, revoked |-> {}, abandoned |-> {}, forgot |-> {}, turn |-> FALSE,
              sentRevoked |-> FALSE]

Batch(d) == {c \in GemCalls : gem.owner[c] = d}
Batches == {gem.owner[c] : c \in GemCalls} \ {NoBatch}

-----------------------------------------------------------------------------
(* connect and close.                                                      *)

GemConnect ==
  /\ gem.state = "new"
  /\ \E captured \in BOOLEAN, s \in {"connected", "failed"} :
       gem' = [gem EXCEPT !.state = s, !.captured = captured]
  /\ UNCHANGED <<senders, told>>

GemClose ==
  /\ gem.state = "connected"
  /\ gem' = [gem EXCEPT !.state = "closed"]
  /\ UNCHANGED <<senders, told>>

-----------------------------------------------------------------------------
(* The reader: a message is decoded when every event of the last one is    *)
(* out.                                                                    *)

GemReads ==
  /\ gem.state \in {"connected", "closed", "failed"} /\ ~gem.ended /\ ~gem.doomed
  /\ told.messages < MaxGemMessages

Started(b)  == IF b = "closed" THEN "open" ELSE "broken"
Finished(b) == IF b = "open" THEN "closed" ELSE "broken"

\* Variant: a chunk of the answer opens a response whether one is open or not.
OpensAlways(m) == m.output /\ ~m.interrupted /\ ~(gem.trailing /\ ~m.input)

\* A chunk of model output opens a response, unless it trails a generation
\* that was complete.
Opens(m) == m.output /\ ~m.interrupted /\ ~(gem.trailing /\ ~m.input) /\ ~gem.open

\* Variant: a response that ends does not flush the words that came late.
EndFlushesNot(m) == FALSE

\* The final words of the user go out before the end of the response.
EndFlushes(m) == (gem.open \/ Opens(m)) /\ (m.generationComplete \/ m.turnComplete)

\* _decode_server_content.
ServerContent(m) ==
  /\ GemReads /\ ~gem.captured
  /\ LET open == gem.open \/ Opens(m)
         ends == open /\ (m.interrupted \/ m.generationComplete \/ m.turnComplete)
         one  == IF Opens(m) THEN Started(told.bracket) ELSE told.bracket
     IN  /\ gem' = [gem EXCEPT
              !.open = open /\ ~ends,
              !.words = (@ \/ m.input) /\ ~m.interrupted /\ ~m.output /\ ~EndFlushes(m),
              !.trailing = /\ ~m.interrupted /\ ~m.turnComplete
                           /\ m.generationComplete \/ (@ /\ ~m.input)]
         /\ told' = [told EXCEPT !.messages = @ + 1,
                         !.bracket = IF ends THEN Finished(one) ELSE one]
  /\ UNCHANGED senders

\* _decode_tool_call: a tool call is a response of its own, or ends the open one.
ToolCall(calls) ==
  /\ GemReads /\ ~gem.captured
  /\ gem' = [gem EXCEPT !.open = FALSE, !.words = FALSE, !.trailing = FALSE, !.names = @ \union calls]
  /\ told' = [told EXCEPT !.messages = @ + 1,
                  !.bracket = Finished(IF gem.open THEN @ ELSE Started(@))]
  /\ UNCHANGED senders

\* _decode_delegation_content.
DelegationContent(m) ==
  /\ GemReads /\ gem.captured
  /\ LET fence == gem.fence \/ m.interrupted
     IN  gem' = [gem EXCEPT !.fence = fence /\ ~m.turnComplete,
                   !.interrupted = (@ \/ m.interrupted) /\ ~(m.output /\ ~fence)]
  /\ told' = [told EXCEPT !.messages = @ + 1,
                  !.turn = (@ \/ m.output \/ m.interrupted) /\ ~m.turnComplete]
  /\ UNCHANGED senders

CancelledIds == {gem.cancelled[n].id : n \in DOMAIN gem.cancelled}

\* A message the adapter cannot take: what was decoded of it is dropped, and
\* the session fails when the event is read.
Doom ==
  /\ gem' = [gem EXCEPT !.doomed = TRUE]
  /\ told' = [told EXCEPT !.messages = @ + 1]

\* Variant: a batch whose call was cancelled before it came is asked for.
BornRetiredNever(calls) == FALSE

\* A batch one of whose calls was cancelled before it came is retired at once.
BornRetired(calls) == calls \cap CancelledIds # {}

\* _decode_delegation: a batch again, a batch that changed or overlaps, too
\* many batches, one born cancelled, a request.
Delegation(lead, calls) ==
  /\ GemReads /\ gem.captured /\ lead \in calls
  /\ \/ /\ Batch(lead) = calls
        /\ told' = [told EXCEPT !.messages = @ + 1] /\ UNCHANGED gem
     \/ /\ Batch(lead) # calls
        /\ \/ Batch(lead) # {} \/ \E c \in calls : gem.owner[c] # NoBatch
           \/ Cardinality(Batches) >= MaxBatches
        /\ Doom
     \/ /\ \A c \in calls : gem.owner[c] = NoBatch
        /\ Batch(lead) = {} /\ Cardinality(Batches) < MaxBatches
        /\ gem' = [gem EXCEPT !.owner = [c \in GemCalls |-> IF c \in calls THEN lead ELSE @[c]],
                              !.retired = IF BornRetired(calls) THEN @ \union {lead} ELSE @]
        /\ told' = IF BornRetired(calls)
                    THEN [told EXCEPT !.messages = @ + 1, !.retired[lead] = @ + 1]
                    ELSE [told EXCEPT !.messages = @ + 1, !.asked[lead] = @ + 1]
  /\ UNCHANGED senders

\* The ids that were cancelled, the last one at the end, the oldest forgotten.
Noted(c) ==
  LET s == IF c \in CancelledIds
           THEN [n \in DOMAIN gem.cancelled |->
                   IF gem.cancelled[n].id = c THEN [id |-> c, logged |-> FALSE] ELSE gem.cancelled[n]]
           ELSE Append(gem.cancelled, [id |-> c, logged |-> FALSE])
  IN  IF Len(s) > MaxCancelled THEN Tail(s) ELSE s

\* Variant: a cancelled call tells of its delegation every time.
RetiresAny(c) == {gem.owner[c]} \ {NoBatch}

\* _retire_delegations: the delegation of a cancelled call, once.
Retires(c) == {gem.owner[c]} \ ({NoBatch} \union gem.retired)

\* _note_cancelled_call_ids of a toolCallCancellation.
Cancellation(c) ==
  /\ GemReads
  /\ IF gem.captured /\ c \notin CancelledIds /\ Len(gem.cancelled) >= MaxCancelled
     THEN Doom
     ELSE /\ gem' = [gem EXCEPT !.names = @ \ {c}, !.cancelled = Noted(c),
                       !.retired = IF gem.captured THEN @ \union Retires(c) ELSE @]
          /\ told' = [told EXCEPT !.messages = @ + 1, !.revoked = @ \union {c},
                         !.forgot = @ \union (CancelledIds \ {Noted(c)[n].id : n \in DOMAIN Noted(c)}),
                         !.retired = [d \in GemCalls |->
                            IF gem.captured /\ d \in Retires(c) THEN @[d] + 1 ELSE @[d]]]
  /\ UNCHANGED senders

\* goAway, and the end of a message that doomed the session.
GoAway == GemReads /\ Doom /\ UNCHANGED senders

DoomIsRead ==
  /\ gem.doomed /\ gem' = [gem EXCEPT !.doomed = FALSE, !.state = "failed"]
  /\ UNCHANGED <<senders, told>>

\* The end of the stream, clean or not; the socket broke.
GemEnds ==
  /\ gem.state \in {"connected", "closed", "failed"} /\ ~gem.ended /\ ~gem.doomed
  /\ \/ \E s \in {"closed", "failed"} :
          gem' = [gem EXCEPT !.ended = TRUE, !.state = IF @ = "failed" THEN @ ELSE s]
     \/ gem' = [gem EXCEPT !.state = "failed"]
  /\ UNCHANGED <<senders, told>>

-----------------------------------------------------------------------------
(* send: the state is looked at before the command lock is taken.          *)

Commands ==
  [kind: {"start", "cancel"}] \union [kind: {"tool"}, call: GemCalls] \union
  [kind: {"result"}, call: GemCalls, content: {1, 2}, context: {0, 1}]

Sends(s) ==
  /\ senders[s].at = "idle"
  /\ gem.state = "connected" \/ (gem.state = "closed" /\ gem.ended)
  /\ \E k \in Commands :
       /\ (k.kind \in {"cancel", "result"}) = gem.captured
       /\ k.kind = "tool" => k.call \in gem.names \union CancelledIds
       /\ k.kind = "result" => told.asked[k.call] > 0
       /\ senders' = [senders EXCEPT ![s] = [at |-> "waits", command |-> k]]
  /\ UNCHANGED <<gem, told>>

Locked == \E s \in GemSenders : senders[s].at = "sends"

\* Variant: a result that was sent is sent again by a retry.
GoesOutAgain(k) == k.call \notin gem.retired

\* A result goes out when the delegation stands and none did.
GoesOut(k) == k.call \notin gem.retired /\ gem.results[k.call] = 0

\* A retry that changed what it says.
Refuses(k) ==
  \/ k.context = 1 /\ gem.results[k.call] # 0 /\ gem.contexts[k.call] = 0
  \/ k.call \notin gem.retired /\ gem.results[k.call] \notin {0, k.content}

\* Variant: the result of a cancelled call is sent.
DropsNone(k) == FALSE

\* The result of a call the provider cancelled is dropped.
Drops(k) == k.call \in CancelledIds

\* _encode and _encode_delegation_commands, under the lock.
Encodes(s) ==
  /\ senders[s].at = "waits" /\ ~Locked
  /\ LET k == senders[s].command
         Out(wire) == senders' = [senders EXCEPT ![s] = [at |-> "sends", command |-> k, wire |-> wire]]
     IN  \/ /\ k.kind = "start"
            /\ gem' = [gem EXCEPT !.trailing = FALSE] /\ Out(TRUE)
         \/ /\ k.kind = "cancel"
            /\ gem' = [gem EXCEPT !.fence = @ \/ ~gem.interrupted] /\ Out(FALSE)
         \/ /\ k.kind = "tool"
            /\ gem' = [gem EXCEPT !.names = @ \ {k.call}, !.trailing = @ /\ Drops(k),
                         !.cancelled = [n \in DOMAIN @ |->
                            IF @[n].id = k.call THEN [@[n] EXCEPT !.logged = TRUE] ELSE @[n]]]
            /\ Out(~Drops(k))
         \/ /\ k.kind = "result" /\ Refuses(k)
            /\ senders' = [senders EXCEPT ![s] = [at |-> "idle"]] /\ UNCHANGED gem
         \/ /\ k.kind = "result" /\ ~Refuses(k)
            /\ Out(GoesOut(k)) /\ UNCHANGED gem
  /\ told' = IF senders[s].command.kind = "tool" /\ ~Drops(senders[s].command)
              THEN [told EXCEPT !.sentRevoked =
                      @ \/ senders[s].command.call \in told.revoked \ told.forgot]
              ELSE told

\* The frames are out: a result is recorded unless it was retired meanwhile.
SenderDone(s) ==
  /\ senders[s].at = "sends"
  /\ LET k == senders[s].command
     IN  /\ gem' = IF k.kind = "result" /\ k.call \notin gem.retired
                   THEN [gem EXCEPT !.results[k.call] = k.content,
                                    !.contexts[k.call] = IF k.context = 1 THEN 1 ELSE @]
                   ELSE gem
         /\ told' = IF k.kind = "result" /\ senders[s].wire
                     THEN [told EXCEPT !.sent[k.call] = IF @ < 2 THEN @ + 1 ELSE @] ELSE told
  /\ senders' = [senders EXCEPT ![s] = [at |-> "idle"]]

\* The socket refused the frames, or the sender was cancelled in the middle:
\* they may be out, and nothing is recorded.
SendBreaks(s) ==
  /\ senders[s].at = "sends"
  /\ LET k == senders[s].command
     IN  \/ gem' = [gem EXCEPT !.state = "failed"] /\ UNCHANGED told
         \/ /\ UNCHANGED gem
            /\ told' = IF k.kind = "result" /\ senders[s].wire
                        THEN [told EXCEPT !.sent[k.call] = IF @ < 2 THEN @ + 1 ELSE @,
                                           !.abandoned = @ \union {k.call}]
                        ELSE told
  /\ senders' = [senders EXCEPT ![s] = [at |-> "idle"]]

GemNext ==
  \/ GemConnect \/ GemClose \/ GoAway \/ DoomIsRead \/ GemEnds
  \/ \E m \in Content : ServerContent(m) \/ DelegationContent(m)
  \/ \E calls \in SUBSET GemCalls \ {{}} : ToolCall(calls)
  \/ \E calls \in SUBSET GemCalls \ {{}}, lead \in GemCalls : Delegation(lead, calls)
  \/ \E c \in GemCalls : Cancellation(c)
  \/ \E s \in GemSenders : Sends(s) \/ Encodes(s) \/ SenderDone(s) \/ SendBreaks(s)

GemSpec == GemInit /\ [][GemNext]_gemVars

-----------------------------------------------------------------------------
GemTypeOK ==
  /\ gem.state \in {"new", "connected", "closed", "failed"}
  /\ gem.owner \in [GemCalls -> GemCalls \union {NoBatch}] /\ gem.retired \subseteq GemCalls
  /\ Len(gem.cancelled) <= MaxCancelled

\* The brackets of responses never nest and never close twice, whatever order
\* of completions, interruptions and tool calls the provider sends.
BracketsMatch == told.bracket # "broken" /\ (~gem.captured => (told.bracket = "open") = gem.open)

\* A delegation is asked for once or not at all, retired once at most, and not
\* asked for after it was retired (_decode_delegation, _retire_delegations).
AskedOnce ==
  \A d \in GemCalls :
    /\ told.asked[d] <= 1 /\ told.retired[d] <= 1
    /\ d \in gem.retired <=> told.retired[d] = 1
    /\ Batch(d) \cap told.revoked # {} => d \in gem.retired

\* The provider gets one result of a delegation, however many tasks retry,
\* unless a send was cancelled in the middle; and none for a call it cancelled
\* earlier, unless that was forgotten.
ResultOnce ==
  /\ \A d \in GemCalls : gem.captured /\ d \notin told.abandoned => told.sent[d] <= 1
  /\ ~told.sentRevoked

\* The four together.
GeminiSafe == GemTypeOK /\ BracketsMatch /\ AskedOnce /\ ResultOnce

\* A response does not end while words of the user are held back: they are told
\* before its end.
WordsBeforeEnd ==
  [][gem.open /\ ~gem'.open => ~gem'.words]_gemVars

\* (Refuted: a cancel that comes after turnComplete mutes the turn that follows,
\* because the fence waits for a turnComplete.)  Output is fenced off in the
\* turn that was cancelled only.
FenceIsOfThisTurn == gem.fence => told.turn
=============================================================================
