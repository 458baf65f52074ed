--------------------------- MODULE VoiceDelivery ---------------------------
(***************************************************************************)
(* Voice sessions (talk_cli.py, run_talk_session) on top of the run        *)
(* registry: a session adopts the results it is owed when it connects,     *)
(* watches the runs its tools start, claims a landed result before it      *)
(* queues the announcement, and flips the claim after the announcement     *)
(* pump has handed the batch to the wire.                                  *)
(*                                                                         *)
(* Every registry step here is a step of TalkRuns.  A session's event loop *)
(* is one thread: while it writes a tee (VoiceBusy) it does nothing else.  *)
(***************************************************************************)
EXTENDS TalkRuns, Sequences

CONSTANTS
  MayBind,           \* MayBind[s]: the bindings session s may connect under: a Hermes
                     \* session, operator and profile, or Standalone
  Standalone,        \* the binding of a session without a Hermes session
  ProcessPerSession  \* TRUE: a process exits with its session (the terminal lane)

ASSUME BindingAssumption ==
  DOMAIN MayBind = Sessions /\ ProcessPerSession \in BOOLEAN

\* Every voice session collects results, and there are finitely many of them.
ASSUME CollectAssumption ==
  Claimants = Sessions /\ IsFiniteSet(Sessions) /\ None \notin Runs

VARIABLES
  phase,     \* phase[s]: new, adopting, live, closed
  bound,     \* bound[s]: the binding s connected under
  listing,   \* listing[s]: results listed for adoption and not yet tried
  receipts,  \* runs started by a tool call whose receipt is not yet sent
  watch,     \* watch[s]: runs with a watcher task
  queue,     \* queue[s]: claimed results waiting in the announcement queue
  sending,   \* sending[s]: the result on the wire whose flip is still owed
  said,      \* said[s]: results s handed to the wire
  lost       \* results with a hand-off that was never recorded

voiceVars == <<phase, bound, listing, receipts, watch, queue, sending, said, lost>>
vars == <<regVars, voiceVars>>

VoiceTypeOK ==
  /\ phase \in [Sessions -> {"new", "adopting", "live", "closed"}]
  /\ \A s \in Sessions : bound[s] \in MayBind[s] \union {Standalone}
  /\ listing \in [Sessions -> SUBSET Runs]
  /\ receipts \subseteq Runs
  /\ watch \in [Sessions -> SUBSET Runs]
  /\ \A s \in Sessions : queue[s] \in Seq(Runs) /\ Len(queue[s]) <= MaxRuns
  /\ sending \in [Sessions -> Runs \union {None}]
  /\ said \in [Sessions -> SUBSET Runs]
  /\ lost \subseteq Runs

Init ==
  /\ RegInit
  /\ phase = [s \in Sessions |-> "new"]
  /\ bound = [s \in Sessions |-> Standalone]
  /\ listing = [s \in Sessions |-> {}]
  /\ receipts = {}
  /\ watch = [s \in Sessions |-> {}]
  /\ queue = [s \in Sessions |-> <<>>]
  /\ sending = [s \in Sessions |-> None]
  /\ said = [s \in Sessions |-> {}]
  /\ lost = {}

-----------------------------------------------------------------------------
(* Connecting: attach, list what is owed, claim it item by item.           *)

\* The newest state of a run as p sees it: its registry over the history.
Merged(p, r) == IF runs[p][r] # None THEN runs[p][r] ELSE disk[r]

\* Variant: the binding on the ticket is recorded but not enforced.
OwedToAnyone(p, s, b) ==
  {r \in Runs :
     /\ b # Standalone
     /\ Merged(p, r) # None
     /\ Merged(p, r).status \in Terminal
     /\ Merged(p, r).delivery # "delivered"}

\* list_undelivered_for_session
Owed(p, s, b) ==
  {r \in Runs :
     /\ b # Standalone
     /\ Merged(p, r) # None
     /\ Merged(p, r).status \in Terminal
     /\ Merged(p, r).delivery # "delivered"
     /\ ~(Merged(p, r).delivery = "claimed" /\ Merged(p, r).claimant = s)
     /\ bound[Merged(p, r).ticket] = b}

Connected(p) == {s \in Sessions : Home[s] = p /\ phase[s] \in {"adopting", "live"}}

Ended(p) == {s \in Sessions : Home[s] = p /\ phase[s] = "closed"}

\* A fresh process has no registry entry, no thread in start_run, no worker.
Fresh(p) ==
  /\ \A r \in Runs : runs[p][r] = None
  /\ \A c \in Callers : call[p][c].at = "idle"
  /\ seq[p] = 0

Connect(s) ==
  /\ phase[s] = "new" /\ Connected(Home[s]) = {}
  /\ ProcessPerSession => Fresh(Home[s])
  /\ AttachOwner(s)
  /\ phase' = [phase EXCEPT ![s] = "adopting"]
  /\ \E b \in MayBind[s] : bound' = [bound EXCEPT ![s] = b]
  /\ listing' = [listing EXCEPT ![s] = Owed(Home[s], s, bound'[s])]
  /\ UNCHANGED <<receipts, watch, queue, sending, said, lost>>

\* claim_delivery: in the registry when it holds the run, else in the history.
Claim(s, r) == ClaimLive(Home[s], r, s) \/ ClaimInHistory(Home[s], r, s)

CanClaim(s, r) == CanClaimLive(Home[s], r) \/ CanClaimInHistory(Home[s], r, s)

\* The claim is refused, or its durable write fails: the result is not spoken.
NoClaim(s, r) ==
  \/ ~CanClaim(s, r) /\ UNCHANGED regVars
  \/ /\ CanClaimInHistory(Home[s], r, s)
     /\ faults < MaxFaults
     /\ faults' = faults + 1
     /\ UNCHANGED <<runs, call, reserved, seq, owner, trust, work, disk, tees>>

\* Variant: the result is queued whether or not the claim was won.
QueueAnyway(s, r) ==
  /\ Claim(s, r) \/ NoClaim(s, r)
  /\ queue' = [queue EXCEPT ![s] = Append(@, r)]

\* Claim before queueing: who loses the claim does not speak the result.
QueueIfClaimed(s, r) ==
  \/ Claim(s, r) /\ queue' = [queue EXCEPT ![s] = Append(@, r)]
  \/ NoClaim(s, r) /\ UNCHANGED queue

Adopt(s, r) ==
  /\ phase[s] = "adopting" /\ ~VoiceBusy(s)
  /\ r \in listing[s]
  /\ QueueIfClaimed(s, r)
  /\ listing' = [listing EXCEPT ![s] = @ \ {r}]
  /\ UNCHANGED <<bound, phase, receipts, watch, sending, said, lost>>

GoLive(s) ==
  /\ phase[s] = "adopting" /\ ~VoiceBusy(s)
  /\ listing[s] = {}
  /\ phase' = [phase EXCEPT ![s] = "live"]
  /\ UNCHANGED regVars
  /\ UNCHANGED <<bound, listing, receipts, watch, queue, sending, said, lost>>

-----------------------------------------------------------------------------
(* Runs a tool call starts, and their watchers.                            *)

\* start_run returned in a tool thread; the sentinel is its receipt.
StartReturns(p, c) ==
  /\ Insert(p, c)
  /\ receipts' = receipts \union {call[p][c].id}
  /\ UNCHANGED <<bound, phase, listing, watch, queue, sending, said, lost>>

\* start_watchers: the session that sends the receipt watches the run.
StartWatch(s, r) ==
  /\ phase[s] = "live" /\ ~VoiceBusy(s) /\ sending[s] = None
  /\ r \in receipts
  /\ disk[r].ticket = s
  /\ receipts' = receipts \ {r}
  /\ watch' = [watch EXCEPT ![s] = @ \union {r}]
  /\ UNCHANGED regVars
  /\ UNCHANGED <<bound, phase, listing, queue, sending, said, lost>>

\* Variant: the watcher queues the result unclaimed and goes on polling.
WatchTickForever(s, r) ==
  /\ phase[s] = "live" /\ ~VoiceBusy(s) /\ sending[s] = None
  /\ r \in watch[s]
  /\ runs[Home[s]][r] # None
  /\ runs[Home[s]][r].status \in Terminal
  /\ queue' = [queue EXCEPT ![s] = Append(@, r)]
  /\ UNCHANGED regVars
  /\ UNCHANGED <<bound, phase, listing, receipts, watch, sending, said, lost>>

\* One poll of watch_run on a run that has landed or left the registry.
WatchTick(s, r) ==
  /\ phase[s] = "live" /\ ~VoiceBusy(s) /\ sending[s] = None
  /\ r \in watch[s]
  /\ \/ /\ runs[Home[s]][r] = None
        /\ UNCHANGED regVars /\ UNCHANGED queue
     \/ /\ runs[Home[s]][r] # None
        /\ runs[Home[s]][r].status \in Terminal
        /\ QueueIfClaimed(s, r)
  /\ watch' = [watch EXCEPT ![s] = @ \ {r}]
  /\ UNCHANGED <<bound, phase, listing, receipts, sending, said, lost>>

\* The watcher's deadline passes before the run lands.
WatchExpires(s, r) ==
  /\ phase[s] = "live" /\ ~VoiceBusy(s) /\ sending[s] = None
  /\ r \in watch[s]
  /\ watch' = [watch EXCEPT ![s] = @ \ {r}]
  /\ UNCHANGED regVars
  /\ UNCHANGED <<bound, phase, listing, receipts, queue, sending, said, lost>>

-----------------------------------------------------------------------------
(* The announcement pump and the delivered flip.                           *)

\* Variant: the flip is made when the batch is dequeued, before the hand-off.
FlipEarly(s) ==
  /\ phase[s] = "live" /\ ~VoiceBusy(s) /\ sending[s] = None
  /\ queue[s] # <<>>
  /\ sending' = [sending EXCEPT ![s] = Head(queue[s])]
  /\ queue' = [queue EXCEPT ![s] = Tail(@)]
  /\ DeliverLive(Home[s], Head(queue[s]), s) \/ DeliverInHistory(Home[s], Head(queue[s]), s)
  /\ UNCHANGED <<bound, phase, listing, receipts, watch, said, lost>>

Send(s) ==
  /\ phase[s] = "live" /\ ~VoiceBusy(s) /\ sending[s] = None
  /\ queue[s] # <<>>
  /\ sending' = [sending EXCEPT ![s] = Head(queue[s])]
  /\ said' = [said EXCEPT ![s] = @ \union {Head(queue[s])}]
  /\ queue' = [queue EXCEPT ![s] = Tail(@)]
  /\ UNCHANGED regVars
  /\ UNCHANGED <<bound, phase, listing, receipts, watch, lost>>

\* Results the history has as delivered: a hand-off of one is not lost.
Consumed == {r \in Runs : disk[r] # None /\ disk[r].delivery = "delivered"}

\* mark_delivered, right after the hand-off; False when the claim is not ours
\* any more, or when the history write fails.
Flip(s) ==
  LET r == sending[s]
      p == Home[s]
  IN  /\ r # None /\ ~VoiceBusy(s)
      /\ \/ (DeliverLive(p, r, s) \/ DeliverInHistory(p, r, s)) /\ UNCHANGED lost
         \/ /\ ~CanDeliverLive(p, r, s) /\ ~CanDeliverInHistory(p, r, s)
            /\ UNCHANGED regVars
            /\ lost' = lost \union ({r} \ Consumed)
         \/ /\ CanDeliverInHistory(p, r, s)
            /\ faults < MaxFaults
            /\ faults' = faults + 1
            /\ UNCHANGED <<runs, call, reserved, seq, owner, trust, work, disk, tees>>
            /\ lost' = lost \union ({r} \ Consumed)
      /\ sending' = [sending EXCEPT ![s] = None]
      /\ UNCHANGED <<bound, phase, listing, receipts, watch, queue, said>>

-----------------------------------------------------------------------------
(* Teardown and process death.                                             *)

Forgotten(gone) ==
  /\ phase' = [s \in Sessions |-> IF s \in gone THEN "closed" ELSE phase[s]]
  /\ listing' = [s \in Sessions |-> IF s \in gone THEN {} ELSE listing[s]]
  /\ watch' = [s \in Sessions |-> IF s \in gone THEN {} ELSE watch[s]]
  /\ queue' = [s \in Sessions |-> IF s \in gone THEN <<>> ELSE queue[s]]
  /\ sending' = [s \in Sessions |-> IF s \in gone THEN None ELSE sending[s]]
  /\ UNCHANGED bound

\* The session is torn down.  Its tasks are cancelled; a cancellation that
\* lands inside the provider send may leave a batch on the wire unflipped.
Close(s) ==
  /\ phase[s] = "live" /\ ~VoiceBusy(s) /\ sending[s] = None
  /\ DetachOwner(Home[s])
  /\ Forgotten({s})
  /\ receipts' = {r \in receipts : disk[r].ticket # s}
  /\ \/ UNCHANGED <<said, lost>>
     \/ /\ queue[s] # <<>>
        /\ said' = [said EXCEPT ![s] = @ \union {Head(queue[s])}]
        /\ lost' = lost \union {Head(queue[s])}

\* Hand-offs of p whose flip has not reached the history.
Unrecorded(p) ==
  {r \in Runs : \/ \E s \in Sessions : Home[s] = p /\ sending[s] = r
                \/ \E t \in tees : t.proc = p /\ t.run = r /\ t.rec.delivery = "delivered"}

ProcessDies(p) ==
  /\ Crash(p)
  /\ Forgotten(Connected(p))
  /\ receipts' = {r \in receipts : runs[p][r] = None}
  /\ lost' = lost \union (Unrecorded(p) \ Consumed)
  /\ UNCHANGED said

TeeLands(t) == AppendTee(t) /\ UNCHANGED voiceVars

TeeIsLost(t) ==
  /\ TeeFails(t)
  /\ lost' = IF t.rec.delivery = "delivered" THEN lost \union ({t.run} \ Consumed) ELSE lost
  /\ UNCHANGED <<bound, phase, listing, receipts, watch, queue, sending, said>>

\* The registry's other steps, taken by tool threads and workers.
Background(p) ==
  /\ \/ \E c \in Callers : \/ Declare(p, c) \/ Admit(p, c) \/ Refuse(p, c)
                           \/ Accept(p, c) \/ AcceptFails(p, c)
     \/ \E r \in Runs : WorkerEnds(p, r) \/ LaneFails(p, r) \/ Annotate(p, r)
     \/ SetTrust(p)
  /\ UNCHANGED voiceVars

SessionStep(s) ==
  \/ \E r \in Runs : Adopt(s, r) \/ WatchTick(s, r) \/ StartWatch(s, r)
  \/ GoLive(s) \/ Send(s) \/ Flip(s)

Next ==
  \/ \E p \in Procs : ProcessDies(p)
  \/ \E t \in tees : TeeLands(t) \/ TeeIsLost(t)
  \/ Prompt /\ \E s \in Sessions : Connect(s) \/ SessionStep(s) \/ Close(s)
  \/ Prompt /\ \E s \in Sessions, r \in Runs : WatchExpires(s, r)
  \/ Prompt /\ \E p \in Procs : \/ Background(p)
                                \/ \E c \in Callers : StartReturns(p, c)

Spec == Init /\ [][Next]_vars

\* The event loop of a connected session runs, and a write to the history ends.
Fairness ==
  /\ WF_vars(\E t \in tees : TeeLands(t))
  /\ \A s \in Sessions : WF_vars(Prompt /\ SessionStep(s))

FairSpec == Spec /\ Fairness

-----------------------------------------------------------------------------
(* Properties.                                                             *)

\* A result is consumed - delivered in a registry or in the history - only
\* after some session handed it to the wire.
DeliveredWasSaid ==
  \A r \in Runs :
    \/ \E s \in Sessions : r \in said[s]
    \/ /\ disk[r] = None \/ disk[r].delivery # "delivered"
       /\ \A p \in Procs : runs[p][r] = None \/ runs[p][r].delivery # "delivered"

\* A session speaks, and claims for speaking, only results whose ticket is its
\* own or was accepted under the same Hermes session, operator and profile.
SpokenWhereOwed ==
  \A s \in Sessions : \A r \in said[s] \union {queue[s][i] : i \in 1 .. Len(queue[s])} :
    disk[r].ticket = s \/ (bound[s] # Standalone /\ bound[disk[r].ticket] = bound[s])

\* What a session queued to speak it has claimed and nobody has consumed, as
\* long as no history write failed (a claim whose tee was lost does not survive
\* the eviction of its entry).
QueuedIsClaimed ==
  faults = 0 => \A s \in Sessions : \A i \in 1 .. Len(queue[s]) :
    LET m == Merged(Home[s], queue[s][i]) IN m.delivery = "claimed" /\ m.claimant = s

\* What every state of the delivery keeps: nothing is consumed unsaid, nothing is
\* said to a session it is not owed to, and what is queued is claimed.
VoiceSafe == VoiceTypeOK /\ DeliveredWasSaid /\ SpokenWhereOwed /\ QueuedIsClaimed

\* When a session has finished adopting, no result it is owed is still claimed
\* by a session that has ended.
StaleClaimsAdopted ==
  [][\A s \in Sessions : phase[s] = "adopting" /\ phase'[s] = "live" =>
       \A r \in Owed(Home[s], s, bound[s]) :
         Merged(Home[s], r).delivery = "claimed" =>
           phase[Merged(Home[s], r).claimant] # "closed"]_vars

\* A result listed for adoption or queued is spoken, unless its session ends.
OwedIsSpoken ==
  \A s \in Sessions, r \in Runs :
    (r \in listing[s] \/ \E i \in 1 .. Len(queue[s]) : queue[s][i] = r)
      ~> (r \in said[s] \/ phase[s] = "closed")

\* A session that connects takes over what ended sessions claimed and left, and
\* speaks what it took over.
AdoptionIsComplete == StaleClaimsAdopted /\ OwedIsSpoken

\* The refinement mapping: the durable record says how far a run is.
StageOf(r) ==
  CASE disk[r] = None -> "none"
    [] disk[r] # None /\ disk[r].delivery = "delivered" -> "consumed"
    [] disk[r] # None /\ disk[r].delivery # "delivered" /\ disk[r].status \in Terminal -> "landed"
    [] OTHER -> "accepted"

Promise == INSTANCE ResultDelivery WITH
  Run <- Runs, MaxSays <- Cardinality(Sessions),
  stage <- [r \in Runs |-> StageOf(r)],
  says <- [r \in Runs |-> Cardinality({s \in Sessions : r \in said[s]})],
  unsure <- lost

\* The two-phase claim keeps the promise of ResultDelivery.
KeepsPromise == Promise!Spec
=============================================================================
