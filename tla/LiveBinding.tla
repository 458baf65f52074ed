----------------------------- MODULE LiveBinding -----------------------------
(***************************************************************************)
(* The binding of one GPT-Live browser session (BrowserBinding of          *)
(* talk_live_browser.py): what the provider transcribes is queued and      *)
(* flushed to the ledger, what operations and jobs came to is told to the  *)
(* provider, and closing puts both to rest.                                *)
(*                                                                         *)
(* Everything runs on one loop; every wait for a thread, a lock or the     *)
(* socket is the end of a step, and the task that waits may be cancelled   *)
(* there.  The thread it waited for does its work all the same.            *)
(***************************************************************************)
EXTENDS Naturals, Sequences, FiniteSets, TLC

CONSTANTS
  Delegated,        \* delegations, each with a result to tell
  Plain,            \* those whose result is no operation of the ledger
  MaxSpokenRows,    \* bound: transcript rows of the provider
  RowBatch,            \* CAPTURE_FRAGMENTS
  MaxTroubles       \* bound: refused checks, lost calls and failed sends

ASSUME BindingAssumption == Plain \subseteq Delegated /\ RowBatch \in Nat \ {0} /\ MaxSpokenRows \in Nat /\ MaxTroubles \in Nat

VARIABLES
  bindingLife,      \* "open", "closing", "flushing", "flushed", "closed"
  pump,      \* a row the pump holds while it is authorized
  capturing,   \* [queue, heard, kept, flush]: persist_queue, the ledger and the flush in progress
  result,    \* result[d]: its delivery, see NoDelivery
  sendHolder,    \* who holds send_lock
  retired,   \* delegations the provider retired
  troubles

bindVars == <<bindingLife, pump, capturing, result, sendHolder, retired, troubles>>

Unheld == "free"
\* at: where its delivery waits; by: the task or the request that runs it; due: whether it
\* is in deliveries; claim: its presentation in the ledger; mine: whether the binding knows
\* of the claim; sent: how often the provider was told.
NoDelivery == [at |-> "none", by |-> "task", due |-> FALSE, done |-> FALSE,
          claim |-> "none", mine |-> FALSE, sent |-> 0]
NoFlush == [by |-> Unheld, batch |-> <<>>, remaining |-> 0]

BindInit ==
  /\ bindingLife = "open" /\ pump = 0
  /\ capturing = [queue |-> <<>>, heard |-> 0, kept |-> {}, flush |-> NoFlush]
  /\ result = [d \in Delegated |-> NoDelivery]
  /\ sendHolder = Unheld /\ retired = {} /\ troubles = 0

BindingOpen == bindingLife = "open"
DeliveryGoes(d, fields) == result' = [result EXCEPT ![d] = fields @@ @]
Troubled == troubles < MaxTroubles /\ troubles' = troubles + 1
First(n, rows) == SubSeq(rows, 1, IF n < Len(rows) THEN n ELSE Len(rows))
Items(rows) == {rows[i] : i \in 1..Len(rows)}

-----------------------------------------------------------------------------
(* Capture.                                                                *)

\* The pump looks whether the binding closes, and then waits for its authorization.
HearRow ==
  /\ BindingOpen /\ pump = 0 /\ capturing.heard < MaxSpokenRows
  /\ pump' = capturing.heard + 1
  /\ capturing' = [capturing EXCEPT !.heard = @ + 1]
  /\ UNCHANGED <<bindingLife, result, sendHolder, retired, troubles>>

SpokenRow ==
  /\ pump # 0 /\ bindingLife # "closed"
  /\ capturing' = [capturing EXCEPT !.queue = Append(@, pump)]
  /\ pump' = 0
  /\ UNCHANGED <<bindingLife, result, sendHolder, retired, troubles>>

\* persist, a decision or the close takes the lock and the batch to send.
FlushBegins(who) ==
  /\ capturing.flush.by = Unheld
  /\ \/ who = "persist" /\ BindingOpen /\ capturing.queue # <<>>
     \/ who = "close" /\ bindingLife = "flushing"
  /\ IF capturing.queue = <<>>
     THEN bindingLife' = "flushed" /\ UNCHANGED capturing
     ELSE /\ capturing' = [capturing EXCEPT
               !.flush = [by |-> who, batch |-> First(RowBatch, capturing.queue),
                          remaining |-> Len(capturing.queue)]]
          /\ UNCHANGED bindingLife
  /\ UNCHANGED << pump, result, sendHolder, retired, troubles>>

\* Variant: the queue is what was left of it when the flush began.
LeftRowsOfBatch(queue, stored) == SubSeq(queue, Len(capturing.flush.batch) + 1, capturing.flush.remaining)
LeftRows(queue, stored) == SelectSeq(queue, LAMBDA row : row \notin stored)

\* The ledger keeps the batch, which is idempotent, and acknowledges it.
Acknowledged(stored) ==
  LET left == LeftRows(capturing.queue, stored)
      remaining == capturing.flush.remaining - Cardinality(stored)
  IN capturing' = [capturing EXCEPT
       !.kept = @ \cup stored, !.queue = left,
       !.flush = IF remaining > 0
                 THEN [@ EXCEPT !.batch = First(IF RowBatch < remaining THEN RowBatch ELSE remaining, left),
                                !.remaining = remaining]
                 ELSE NoFlush]

Flushes ==
  /\ capturing.flush.by # Unheld
  /\ Acknowledged(Items(capturing.flush.batch))
  /\ bindingLife' = IF capturing.flush.by = "close" /\ capturing'.flush = NoFlush THEN "flushed" ELSE bindingLife
  /\ UNCHANGED <<pump, result, sendHolder, retired, troubles>>

\* The call fails, before or after the ledger kept the batch.
FlushFails(kept) ==
  /\ capturing.flush.by # Unheld /\ Troubled
  /\ capturing' = [capturing EXCEPT
       !.kept = IF kept THEN @ \cup Items(capturing.flush.batch) ELSE @, !.flush = NoFlush]
  /\ bindingLife' = IF capturing.flush.by = "close" THEN "flushed" ELSE IF BindingOpen THEN "closing" ELSE bindingLife
  /\ UNCHANGED <<pump, result, sendHolder, retired>>

-----------------------------------------------------------------------------
(* Delivery of a result.                                                   *)

\* publish_result: the result is due, and is told at once unless its delegation is retired.
Publish(d) ==
  /\ BindingOpen /\ ~result[d].done /\ ~result[d].due
  /\ DeliveryGoes(d, [due |-> TRUE, by |-> "task", at |-> IF d \in retired THEN "none" ELSE "lock"])
  /\ UNCHANGED <<bindingLife, pump, capturing, sendHolder, retired, troubles>>

\* proactive: when the call is quiet what was retired is told after all, by a request.
Redeliver(d) ==
  /\ bindingLife # "closed" /\ result[d].due /\ result[d].at = "none"
  /\ retired' = {}
  /\ DeliveryGoes(d, [by |-> "poll", at |-> "lock"])
  /\ UNCHANGED <<bindingLife, pump, capturing, sendHolder, troubles>>

RetireWork(d) ==
  /\ BindingOpen /\ d \notin retired /\ retired' = retired \cup {d}
  /\ DeliveryGoes(d, [mine |-> FALSE,
              claim |-> IF result[d].mine THEN "unknown" ELSE result[d].claim])
  /\ UNCHANGED <<bindingLife, pump, capturing, sendHolder, troubles>>

Releases == sendHolder' = Unheld
Leaves(d) == DeliveryGoes(d, [at |-> "none"]) /\ Releases

TakeLock(d) ==
  /\ result[d].at = "lock" /\ sendHolder = Unheld
  /\ IF result[d].due /\ d \notin retired
     THEN DeliveryGoes(d, [at |-> "check"]) /\ sendHolder' = d
     ELSE DeliveryGoes(d, [at |-> "none"]) /\ UNCHANGED sendHolder
  /\ UNCHANGED <<bindingLife, pump, capturing, retired, troubles>>

\* Variant: the result stays due until it was sent.
SilencedUntilSent(d) == [due |-> TRUE, done |-> FALSE]
Silenced(d) == [due |-> FALSE, done |-> TRUE]

\* Authorized: off the list before the ledger is asked for the claim.
Take(d) ==
  /\ result[d].at = "check"
  /\ IF BindingOpen
     THEN DeliveryGoes(d, [at |-> "claim"] @@ Silenced(d)) /\ UNCHANGED sendHolder
     ELSE Leaves(d)
  /\ UNCHANGED <<bindingLife, pump, capturing, retired, troubles>>

\* The ledger grants one presentation of an operation, ever.
Granted(d) == d \in Plain \/ result[d].claim = "none"
ClaimOf(d) == IF d \in Plain THEN [mine |-> FALSE] ELSE [claim |-> "submitting", mine |-> TRUE]

ClaimSpeech(d) ==
  /\ result[d].at = "claim"
  /\ IF Granted(d)
     THEN DeliveryGoes(d, [at |-> "send"] @@ ClaimOf(d)) /\ UNCHANGED sendHolder
     ELSE Leaves(d)
  /\ UNCHANGED <<bindingLife, pump, capturing, retired, troubles>>

\* retire_presentations of one operation: what the binding knows of becomes unknown.
Unknown(d) == [mine |-> FALSE, claim |-> IF result[d].mine THEN "unknown" ELSE result[d].claim]

\* Variant: it is sent whether the binding closes or not.
SendableAny == TRUE
Sendable == BindingOpen

SendSpeech(d) ==
  /\ result[d].at = "send"
  /\ IF Sendable
     THEN DeliveryGoes(d, [at |-> "receipt", sent |-> result[d].sent + 1]) /\ UNCHANGED sendHolder
     ELSE DeliveryGoes(d, [at |-> "none"] @@ Unknown(d)) /\ Releases
  /\ UNCHANGED <<bindingLife, pump, capturing, retired, troubles>>

SpeechSubmitted(d) ==
  /\ result[d].at = "receipt"
  /\ DeliveryGoes(d, [at |-> "none",
              claim |-> IF result[d].claim = "submitting" THEN "submitted" ELSE result[d].claim])
  /\ Releases
  /\ UNCHANGED <<bindingLife, pump, capturing, retired, troubles>>

\* A check, the claim, the send or the receipt fails: the claim is unknown and the binding,
\* where a task delivered, fails.
DeliveryFails(d, kept) ==
  /\ result[d].at \in {"check", "claim", "send", "receipt"} /\ Troubled
  /\ DeliveryGoes(d, [at |-> "none"] @@ (IF kept /\ result[d].at = "claim" /\ Granted(d)
                                 THEN [mine |-> FALSE] @@ ClaimOf(d) ELSE Unknown(d)))
  /\ Releases
  /\ bindingLife' = IF BindingOpen /\ result[d].by = "task" THEN "closing" ELSE bindingLife
  /\ UNCHANGED <<pump, capturing, retired>>

-----------------------------------------------------------------------------
(* The end.                                                                *)

\* The operator, the registry, the provider or a lapsed lease.
CloseBegins ==
  /\ BindingOpen /\ bindingLife' = "closing"
  /\ UNCHANGED <<pump, capturing, result, sendHolder, retired, troubles>>

\* Variant: the claims of the binding are left as they are.
RetiredWorkLost(d) == result[d]
RetiredWork(d) == Unknown(d) @@ result[d]

CloseRetires ==
  /\ bindingLife = "closing" /\ bindingLife' = "flushing"
  /\ result' = [d \in Delegated |-> RetiredWork(d)]
  /\ UNCHANGED <<pump, capturing, sendHolder, retired, troubles>>

\* The flush is over, or took five seconds; then the tasks are cancelled where they wait.
\* A task that waited for the ledger's claim has it granted all the same, and a task that was
\* told of its claim retires it.
Cut(d) ==
  IF result[d].by = "poll" \/ result[d].at = "none" THEN result[d]
  ELSE IF result[d].at = "claim" /\ Granted(d)
       THEN [at |-> "none", mine |-> FALSE] @@ ClaimOf(d) @@ result[d]
       ELSE [at |-> "none"] @@ Unknown(d) @@ result[d]

CloseBinding(late) ==
  /\ \/ ~late /\ bindingLife = "flushed" /\ UNCHANGED troubles
     \/ late /\ bindingLife = "flushing" /\ Troubled
  /\ bindingLife' = "closed" /\ pump' = 0
  /\ capturing' = [capturing EXCEPT !.kept = @ \cup Items(capturing.flush.batch), !.flush = NoFlush]
  /\ result' = [d \in Delegated |-> Cut(d)]
  /\ sendHolder' = IF sendHolder # Unheld /\ result[sendHolder].by = "task" THEN Unheld ELSE sendHolder
  /\ UNCHANGED retired

\* A claim that nobody confirms is unknown after thirty seconds.
ClaimLapses(d) ==
  /\ result[d].claim = "submitting" /\ (bindingLife = "closed" => ~result[d].mine)
  /\ DeliveryGoes(d, [claim |-> "unknown"])
  /\ UNCHANGED <<bindingLife, pump, capturing, sendHolder, retired, troubles>>

BindNext ==
  \/ HearRow \/ SpokenRow \/ Flushes \/ CloseBegins \/ CloseRetires
  \/ \E who \in {"persist", "close"} : FlushBegins(who)
  \/ \E b \in BOOLEAN : FlushFails(b) \/ CloseBinding(b)
  \/ \E d \in Delegated :
       \/ Publish(d) \/ Redeliver(d) \/ RetireWork(d) \/ TakeLock(d) \/ Take(d) \/ ClaimSpeech(d)
       \/ SendSpeech(d) \/ SpeechSubmitted(d) \/ ClaimLapses(d)
       \/ \E b \in BOOLEAN : DeliveryFails(d, b)

BindSpec == BindInit /\ [][BindNext]_bindVars

-----------------------------------------------------------------------------
BindTypeOK ==
  /\ bindingLife \in {"open", "closing", "flushing", "flushed", "closed"}
  /\ sendHolder \in Delegated \cup {Unheld}
  /\ \A d \in Delegated :
       /\ result[d].at \in {"none", "lock", "check", "claim", "send", "receipt"}
       /\ result[d].at \in {"check", "claim", "send", "receipt"} <=> sendHolder = d
       /\ result[d].claim \in {"none", "submitting", "submitted", "unknown"}

\* What was transcribed is in the ledger or still queued for it, in the order it was heard,
\* also while a batch is out and new rows arrive.
NothingIsDropped ==
  /\ 1..capturing.heard \subseteq capturing.kept \cup Items(capturing.queue) \cup (IF pump # 0 THEN {pump} ELSE {})
       \/ bindingLife = "closed"
  /\ \A i, j \in 1..Len(capturing.queue) : i < j => capturing.queue[i] < capturing.queue[j]

\* The provider is told a result once, whatever fails, retires or closes meanwhile, and where
\* the ledger keeps the claim it was told under one.
ToldOnce ==
  \A d \in Delegated : /\ result[d].sent <= 1
                       /\ result[d].sent = 1 /\ d \notin Plain => result[d].claim # "none"

\* Once the binding is closed it knows of no claim: each was retired or lapses by itself.
ClosedKnowsNoClaim ==
  bindingLife = "closed" => \A d \in Delegated : result[d].at = "none" => ~result[d].mine

\* What every state of a binding keeps: nothing heard is dropped, a result is told once, and
\* a closed binding holds no claim.
BindingSafe == BindTypeOK /\ NothingIsDropped /\ ToldOnce /\ ClosedKnowsNoClaim

\* Nothing is sent to the provider after the binding began to close.
QuietOnceClosing ==
  [][\A d \in Delegated : result'[d].sent > result[d].sent => bindingLife = "open"]_bindVars

\* (Refuted: the pump looked whether the binding closes before it waited for its
\* authorization; the row it holds is queued and shown after the last flush began.)
ClosedCleanlyIsKept ==
  bindingLife = "closed" /\ troubles = 0 => Items(capturing.queue) \subseteq capturing.kept

\* (Refuted: the delegation is looked up before the claim is asked for, and may be retired in
\* between; and a quiet call forgets which delegations were retired.)
RetiredIsNotAnswered ==
  [][\A d \in Delegated : result'[d].sent > result[d].sent => d \notin retired]_bindVars
=============================================================================
