------------------------------ MODULE CoreVoice ------------------------------
(***************************************************************************)
(* The session the Hermes core drives (talk_core_realtime.py): responses   *)
(* the core asks for, each with a correlation token the provider has to    *)
(* echo, the strict order of the events of one response, and cancellation. *)
(*                                                                         *)
(* start_response and cancel_response are tasks that leave the lock before *)
(* they send; the events are read by another task, so the answer to a      *)
(* request may be handled before its send returned.  The provider may send *)
(* anything: what the code does not accept ends the session.               *)
(***************************************************************************)
EXTENDS Naturals, Sequences, FiniteSets

CONSTANTS
  CoreTokens,     \* what the token factory may hand out
  CoreResponses,  \* response ids of the provider
  CoreItems,      \* output item ids
  CoreCapacity    \* response_ledger_capacity

ASSUME CoreAssumption ==
  /\ CoreCapacity \in Nat \ {0} /\ "" \notin CoreTokens \union CoreResponses \union CoreItems

VARIABLES
  core,    \* the ledgers of _TalkCoreRealtimeSession
  starts,  \* starts[k]: the start_response call that drew the token k
  cancels, \* cancels[r]: the cancel_response call for r
  heard    \* heard[r]: what the core was told of r

coreVars == <<core, starts, cancels, heard>>

Lifecycle ==
  <<"item.added", "part.added", "audio.delta", "transcript.delta", "audio.done",
    "transcript.done", "part.done", "item.done", "conversation.done">>
LastStage == Len(Lifecycle)

NoLedgers ==
  [pending |-> {}, active |-> [r \in CoreResponses |-> ""],
   completed |-> [r \in CoreResponses |-> ""], consumed |-> {}, cancelling |-> {},
   stage |-> [r \in CoreResponses |-> 0], item |-> [r \in CoreResponses |-> ""],
   final |-> [r \in CoreResponses |-> ""], carry |-> {}]

CoreInit ==
  /\ core = [ledgers |-> NoLedgers, superseded |-> {}, sendFailed |-> FALSE, terminal |-> FALSE]
  /\ starts = [k \in CoreTokens |-> "idle"]
  /\ cancels = [r \in CoreResponses |-> "idle"]
  /\ heard = [r \in CoreResponses |-> "nothing"]

L         == core.ledgers
Active    == {r \in CoreResponses : L.active[r] # ""}
Completed == {r \in CoreResponses : L.completed[r] # ""}
Accepted  == Cardinality(L.pending) + Cardinality(Active) + Cardinality(Completed)

CoreTypeOK ==
  /\ L.pending \union L.consumed \subseteq CoreTokens
  /\ L.active \in [CoreResponses -> CoreTokens \union {""}]
  /\ L.completed \in [CoreResponses -> CoreTokens \union {""}]
  /\ L.stage \in [CoreResponses -> 0 .. LastStage]
  /\ L.item \in [CoreResponses -> CoreItems \union {""}]
  /\ L.final \in [CoreResponses -> {"", "asked", "other"}]
  /\ L.cancelling \union L.carry \union core.superseded \subseteq CoreResponses
  /\ {core.sendFailed, core.terminal} \subseteq BOOLEAN
  /\ heard \in [CoreResponses -> {"nothing", "started", "completed", "interrupted"}]

-----------------------------------------------------------------------------
(* The calls of the core.                                                  *)

StartResponse(k) ==
  /\ starts[k] = "idle"
  /\ k \notin L.pending \union L.consumed
  /\ Accepted < CoreCapacity
  /\ core' = [core EXCEPT !.ledgers.pending = @ \union {k}]
  /\ starts' = [starts EXCEPT ![k] = "sending"]
  /\ UNCHANGED <<cancels, heard>>

\* _send_wire returns, raises, or the task is cancelled while it waits.  A
\* binding the provider took in the meantime stays.
StartEnds(k) ==
  /\ starts[k] = "sending"
  /\ \/ ~core.terminal /\ ~core.sendFailed /\ UNCHANGED core
     \/ core' = [core EXCEPT !.ledgers.pending = @ \ {k}, !.sendFailed = TRUE]
     \/ core' = [core EXCEPT !.ledgers.pending = @ \ {k}]
  /\ starts' = [starts EXCEPT ![k] = "over"]
  /\ UNCHANGED <<cancels, heard>>

CancelResponse(r) ==
  /\ cancels[r] = "idle" /\ r \in Active
  /\ r \notin L.cancelling /\ Cardinality(L.cancelling) < CoreCapacity
  /\ core' = [core EXCEPT !.ledgers.cancelling = @ \union {r}]
  /\ cancels' = [cancels EXCEPT ![r] = "sending"]
  /\ UNCHANGED <<starts, heard>>

\* The failure of the send is nobody's if the response ended first.
CancelEnds(r) ==
  /\ cancels[r] = "sending"
  /\ LET won == r \in core.superseded \/ r \in Completed
         over == [core EXCEPT !.superseded = @ \ {r}]
     IN  \/ core' = over
         \/ core' = [over EXCEPT !.ledgers.cancelling = IF won THEN @ ELSE @ \ {r},
                                 !.sendFailed = @ \/ ~won]
         \/ core' = [over EXCEPT !.ledgers.cancelling = @ \ {r}]
  /\ cancels' = [cancels EXCEPT ![r] = IF r \in Active THEN "idle" ELSE "over"]
  /\ UNCHANGED <<starts, heard>>

-----------------------------------------------------------------------------
(* One event of the provider that is accepted.                             *)

Tells(r, what) == heard' = [heard EXCEPT ![r] = what]

\* Variant: the token stays good for another response.
BindsAgain(k) == [L EXCEPT !.consumed = @ \union {k}]

\* The token is taken out of the pending ones and never accepted again.
Binds(k) == [L EXCEPT !.pending = @ \ {k}, !.consumed = @ \union {k}]

ResponseCreated(r, k) ==
  /\ ~core.terminal /\ r \notin Active \union Completed
  /\ k \in L.pending /\ k \notin L.consumed
  /\ Accepted <= CoreCapacity /\ Cardinality(L.consumed) < CoreCapacity
  /\ core' = [core EXCEPT !.ledgers = [Binds(k) EXCEPT !.active[r] = k]]
  /\ Tells(r, "started")
  /\ UNCHANGED <<starts, cancels>>

\* An item belongs to one response, and a response has one item.
BindsItem(r, i) ==
  /\ r \in Active /\ L.item[r] \in {"", i}
  /\ \A q \in CoreResponses \ {r} : L.item[q] # i

\* The stages come in their order, each once; audio comes in any number of
\* deltas.
NextStage(r) ==
  {s \in 1 .. LastStage : s = L.stage[r] + 1 \/ (s = L.stage[r] /\ Lifecycle[s] = "audio.delta")}

OutputEvent(r, i) ==
  /\ ~core.terminal /\ BindsItem(r, i)
  /\ \E s \in NextStage(r) :
       LET at   == [L EXCEPT !.stage[r] = s, !.item[r] = i]
           kind == Lifecycle[s]
       IN  \/ /\ kind = "audio.delta"        \* a byte without its other half is carried
              /\ \E odd \in BOOLEAN :
                   core' = [core EXCEPT !.ledgers = [at EXCEPT
                              !.carry = IF odd # (r \in @) THEN @ \union {r} ELSE @ \ {r}]]
           \/ /\ kind = "audio.done" /\ r \notin L.carry
              /\ core' = [core EXCEPT !.ledgers = at]
           \/ /\ kind = "transcript.done"
              /\ \E text \in {"asked", "other"} :
                   core' = [core EXCEPT !.ledgers = [at EXCEPT !.final[r] = text]]
           \/ /\ kind \notin {"audio.delta", "audio.done", "transcript.done"}
              /\ core' = [core EXCEPT !.ledgers = at]
  /\ UNCHANGED <<starts, cancels, heard>>

\* What every end of a response takes away.
Ends(r) ==
  [L EXCEPT !.active[r] = "", !.completed[r] = L.active[r], !.item[r] = "", !.final[r] = "",
            !.carry = @ \ {r}, !.stage[r] = 0, !.cancelling = @ \ {r}]

\* response.done, completed: the text spoken is the text that was asked for.
CompleteResponse(r) ==
  /\ ~core.terminal /\ r \in Active
  /\ L.stage[r] = LastStage /\ L.final[r] = "asked"
  /\ Cardinality(Completed) < CoreCapacity
  /\ core' = [core EXCEPT !.ledgers = Ends(r)]
  /\ Tells(r, "completed")
  /\ UNCHANGED <<starts, cancels>>

\* Variant: any active response may end as cancelled.
MayBeCancelledAny(r) == r \in Active

MayBeCancelled(r) == r \in Active /\ r \in L.cancelling

\* response.done, cancelled: of a response whose cancellation was asked for.
CancelledResponse(r) ==
  /\ ~core.terminal /\ MayBeCancelled(r)
  /\ Cardinality(Completed) < CoreCapacity
  /\ core' = [core EXCEPT !.ledgers = Ends(r),
                          !.superseded = IF cancels[r] = "sending" THEN @ \union {r} ELSE @]
  /\ Tells(r, "interrupted")
  /\ UNCHANGED <<starts, cancels>>

\* An event that is not accepted, the end of the stream, or close().
Terminate ==
  /\ ~core.terminal
  /\ core' = [core EXCEPT !.ledgers = NoLedgers, !.sendFailed = FALSE, !.terminal = TRUE]
  /\ UNCHANGED <<starts, cancels, heard>>

CoreNext ==
  \/ \E k \in CoreTokens : StartResponse(k) \/ StartEnds(k)
  \/ \E r \in CoreResponses : CancelResponse(r) \/ CancelEnds(r)
  \/ \E r \in CoreResponses, k \in CoreTokens : ResponseCreated(r, k)
  \/ \E r \in CoreResponses, i \in CoreItems : OutputEvent(r, i)
  \/ \E r \in CoreResponses : CompleteResponse(r) \/ CancelledResponse(r)
  \/ Terminate

CoreSpec == CoreInit /\ [][CoreNext]_coreVars

-----------------------------------------------------------------------------
\* A token is in one ledger and names one response, whatever the order of the
\* send's return and of the provider's answer (_start_response,
\* _bind_response_created).
OneResponsePerToken ==
  /\ L.pending \intersect L.consumed = {}
  /\ \A r, q \in Active \union Completed :
       LET token(x) == IF x \in Active THEN L.active[x] ELSE L.completed[x]
       IN  token(r) = token(q) => r = q

\* A cancellation that is pending has a response that can still answer it, and
\* an item belongs to a response that is active.
NothingLeaks ==
  /\ L.cancelling \subseteq Active
  /\ \A r \in CoreResponses : L.item[r] # "" => r \in Active
  /\ core.superseded \subseteq {r \in CoreResponses : cancels[r] = "sending"}

\* The responses of one session stay within the capacity of its ledger.
CoreBounded == Accepted <= CoreCapacity /\ Cardinality(L.consumed) <= CoreCapacity

\* The three together, and the types.
CoreSafe == CoreTypeOK /\ OneResponsePerToken /\ NothingLeaks /\ CoreBounded

\* The core is told that a response began before it is told of its end, hears
\* one end, and an interruption only of a response it asked to cancel
\* (_complete_response, _cancelled_response).
EndsOnce ==
  [][\A r \in CoreResponses : heard'[r] # heard[r] =>
       \/ heard[r] = "nothing" /\ heard'[r] = "started"
       \/ heard[r] = "started" /\ heard'[r] = "completed"
            /\ core.ledgers.final[r] = "asked" /\ core.ledgers.stage[r] = LastStage
       \/ heard[r] = "started" /\ heard'[r] = "interrupted" /\ r \in core.ledgers.cancelling]_coreVars
=============================================================================
