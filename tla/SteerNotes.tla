----------------------------- MODULE SteerNotes -----------------------------
(***************************************************************************)
(* Notes to running children and the ledger of what became of them         *)
(* (talk_steer.py, the steer, redirect and stop verbs of talk_host.py, the *)
(* stop hook of talk_lifecycle.py).                                        *)
(*                                                                         *)
(* A steer is a queue write in the host; what proves delivery is a line    *)
(* the host logs after it drained the queue.  The line is handled on the   *)
(* child's thread while tool threads write notes, ledger them and sweep,   *)
(* so a note may be queued between the drain and its line, and a line may  *)
(* come before the receipt of a note it delivered.                         *)
(***************************************************************************)
EXTENDS Naturals, Sequences, SequencesExt

CONSTANTS
  Notes,          \* wire texts; each carries its own correlation token
  Agents,         \* children, one per start
  IdOf,           \* IdOf[a]: the public id of a; two agents may share one
  NoReceipt,
  FrameVisible,   \* TRUE: the frame that logs a drain names the draining agent
  PromptCapture,  \* TRUE: no id changes hands between steer_subagent and the
                  \* registry read that follows it
  MaxReceipts     \* _MAX_RECEIPTS

ASSUME SteerAssumption ==
  /\ DOMAIN IdOf = Agents /\ NoReceipt \notin Agents \union Notes
  /\ FrameVisible \in BOOLEAN /\ PromptCapture \in BOOLEAN
  /\ MaxReceipts \in Nat \ {0}

VARIABLES
  child,       \* child[a]: where the life of a stands
  registered,  \* _active_subagents of the host
  hooked,      \* children whose subagent_stop hook ran
  interrupted, \* children asked to stop
  pendingNotes,     \* pending[a]: _pending_steer of a
  slot,        \* slot[a]: _pending_redirect of a
  line,        \* line[a]: drained notes whose log line is not out yet
  delivered,   \* notes a child took from its queue or its slot
  verbs,       \* verbs[n]: where the tool call that sends n stands
  ledger,      \* _RECEIPTS
  stopping,    \* ids of stop calls that asked and did not ledger yet
  sweep        \* degrade_gone_children

agentVars  == <<child, registered, interrupted, pendingNotes, slot, line, delivered>>
steerVars == <<agentVars, hooked, verbs, ledger, stopping, sweep>>

AgentIds    == {IdOf[a] : a \in Agents}
States == {"queued", "landed", "redirected", "unconfirmed", "superseded"}
Quiet  == [kind |-> "none", notes |-> <<>>]

SteerTypeOK ==
  /\ child \in [Agents -> {"unborn", "live", "over"}]
  /\ registered \subseteq {a \in Agents : child[a] # "unborn"}
  /\ \A a, b \in registered : IdOf[a] = IdOf[b] => a = b
  /\ hooked \subseteq {a \in Agents : child[a] = "over"}
  /\ interrupted \subseteq Agents
  /\ \A a \in Agents : ToSet(pendingNotes[a]) \subseteq Notes /\ slot[a] \in Notes \union {NoReceipt}
  /\ \A a \in Agents : line[a].kind \in {"none", "tool", "api"}
                    /\ ToSet(line[a].notes) \subseteq delivered
  /\ delivered \subseteq Notes
  /\ verbs \in [Notes -> [at: {"idle", "steering", "redirecting", "capturing", "judging",
                               "queued", "over"},
                          id: AgentIds \union {NoReceipt}, agent: Agents \union {NoReceipt},
                          ref: Agents \union {NoReceipt}]]
  /\ Len(ledger) <= MaxReceipts
  /\ \A i \in DOMAIN ledger :
       ledger[i] \in [note: Notes, id: AgentIds, ref: Agents \union {NoReceipt}, state: States]
  /\ \A i, j \in DOMAIN ledger : ledger[i].note = ledger[j].note => i = j
  /\ stopping \subseteq AgentIds
  /\ sweep \in [at: {"idle", "listed", "marking"}, ids: SUBSET AgentIds]

SteerInit ==
  /\ child = [a \in Agents |-> "unborn"]
  /\ registered = {} /\ hooked = {} /\ interrupted = {} /\ delivered = {} /\ stopping = {}
  /\ pendingNotes = [a \in Agents |-> <<>>] /\ slot = [a \in Agents |-> NoReceipt]
  /\ line = [a \in Agents |-> Quiet]
  /\ verbs = [n \in Notes |-> [at |-> "idle", id |-> NoReceipt, agent |-> NoReceipt, ref |-> NoReceipt]]
  /\ ledger = <<>>
  /\ sweep = [at |-> "idle", ids |-> {}]

-----------------------------------------------------------------------------
(* The ledger.  Every operator below is one section under _LOCK.           *)

Waiting == {i \in DOMAIN ledger : ledger[i].state = "queued"}

Marked(S, state) ==
  [i \in DOMAIN ledger |-> IF i \in S THEN [ledger[i] EXCEPT !.state = state] ELSE ledger[i]]

\* The newest MaxReceipts are kept.
Recorded(receipt) ==
  LET all == Append(ledger, receipt)
  IN  IF Len(all) > MaxReceipts THEN Tail(all) ELSE all

Record(n, state) ==
  ledger' = Recorded([note |-> n, id |-> verbs[n].id, ref |-> verbs[n].ref, state |-> state])

\* Variant: the queue is not looked at.
DrainableAny(a) == Waiting

\* The drain empties the queue before it logs: a note found in the queue now
\* was queued after it.
Drainable(a) ==
  {i \in Waiting : FrameVisible => ledger[i].note \notin ToSet(pendingNotes[a])}

\* Variant: a receipt lands by its own token only.
SameNote(i, j, a) == i = j

\* A batch is anchored by the draining agent, or by the references of the
\* receipts that matched where the frame does not show it.
SameBatch(i, j, a) ==
  /\ ledger[i].id = ledger[j].id
  /\ ledger[j].ref # NoReceipt
  /\ ledger[j].ref = IF FrameVisible THEN a ELSE ledger[i].ref

\* mark_landed_from_preview: receipts whose token the preview shows, and those
\* of the same batch whose token it cut off.
FromPreview(a, shown) ==
  LET matched == {i \in Drainable(a) : ledger[i].note \in shown}
  IN  matched \union {j \in Drainable(a) : \E i \in matched : SameBatch(i, j, a)}

\* mark_landed_for_agent.
OfAgent(a) == IF FrameVisible THEN {i \in Drainable(a) : ledger[i].ref = a} ELSE {}

\* mark_child_gone, mark_superseded.
Gone(id)       == ledger' = Marked({i \in Waiting : ledger[i].id = id}, "unconfirmed")
Superseded(id) == ledger' = Marked({i \in Waiting : ledger[i].id = id}, "superseded")

-----------------------------------------------------------------------------
(* The host: children, their queues and their log.                         *)

ChildStarts(a) ==
  /\ child[a] = "unborn"
  /\ \A b \in registered : IdOf[b] # IdOf[a]
  /\ PromptCapture => \A n \in Notes : verbs[n].at = "capturing" => verbs[n].id # IdOf[a]
  /\ child' = [child EXCEPT ![a] = "live"]
  /\ registered' = registered \union {a}
  /\ UNCHANGED <<hooked, interrupted, pendingNotes, slot, line, delivered, verbs, ledger,
                 stopping, sweep>>

Drain(a, kind) ==
  /\ child[a] = "live" /\ line[a] = Quiet /\ pendingNotes[a] # <<>>
  /\ line' = [line EXCEPT ![a] = [kind |-> kind, notes |-> pendingNotes[a]]]
  /\ pendingNotes' = [pendingNotes EXCEPT ![a] = <<>>]
  /\ delivered' = delivered \union ToSet(pendingNotes[a])
  /\ UNCHANGED <<child, registered, hooked, interrupted, slot, verbs, ledger, stopping, sweep>>

\* The line is out: the preview of a tool drain shows the first notes of the
\* batch, the other line shows none.
DrainLogged(a) ==
  /\ \/ /\ line[a].kind = "tool"
        /\ \E k \in 1..Len(line[a].notes) :
             ledger' = Marked(FromPreview(a, ToSet(SubSeq(line[a].notes, 1, k))), "landed")
     \/ /\ line[a].kind = "api"
        /\ ledger' = Marked(OfAgent(a), "landed")
  /\ line' = [line EXCEPT ![a] = Quiet]
  /\ UNCHANGED <<child, registered, hooked, interrupted, pendingNotes, slot, delivered, verbs,
                 stopping, sweep>>

\* The request is retried with the correction.
SlotTaken(a) ==
  /\ child[a] = "live" /\ line[a] = Quiet /\ slot[a] # NoReceipt
  /\ slot' = [slot EXCEPT ![a] = NoReceipt]
  /\ delivered' = delivered \union {slot[a]}
  /\ UNCHANGED <<child, registered, hooked, interrupted, pendingNotes, line, verbs, ledger,
                 stopping, sweep>>

\* clear_interrupt drops what was not read.
Interrupts(a) ==
  /\ child[a] = "live" /\ a \in interrupted /\ line[a] = Quiet
  /\ child' = [child EXCEPT ![a] = "over"]
  /\ pendingNotes' = [pendingNotes EXCEPT ![a] = <<>>]
  /\ slot' = [slot EXCEPT ![a] = NoReceipt]
  /\ UNCHANGED <<registered, hooked, interrupted, line, delivered, verbs, ledger, stopping,
                 sweep>>

ChildEnds(a) ==
  /\ child[a] = "live" /\ line[a] = Quiet
  /\ child' = [child EXCEPT ![a] = "over"]
  /\ UNCHANGED <<registered, hooked, interrupted, pendingNotes, slot, line, delivered, verbs,
                 ledger, stopping, sweep>>

ChildLeaves(a) ==
  /\ child[a] = "over" /\ a \in registered
  /\ registered' = registered \ {a}
  /\ UNCHANGED <<child, hooked, interrupted, pendingNotes, slot, line, delivered, verbs, ledger,
                 stopping, sweep>>

\* on_subagent_stop.
StopHook(a) ==
  /\ child[a] = "over" /\ a \notin hooked
  /\ hooked' = hooked \union {a}
  /\ Gone(IdOf[a])
  /\ UNCHANGED <<agentVars, verbs, stopping, sweep>>

-----------------------------------------------------------------------------
(* steer_agent and redirect_agent.                                         *)

Moves(n, at) == verbs' = [verbs EXCEPT ![n].at = at]

\* The child is looked up in the host's registry.
LooksUp(n, a, verb) ==
  /\ verbs[n].at = "idle" /\ a \in registered
  /\ verbs' = [verbs EXCEPT ![n] = [at |-> verb, id |-> IdOf[a], agent |-> a, ref |-> a]]
  /\ UNCHANGED <<agentVars, hooked, ledger, stopping, sweep>>

Enqueue(n, a) == pendingNotes' = [pendingNotes EXCEPT ![a] = Append(@, n)]

\* steer takes a text, also of a child that is over, or raises.
Steers(n) ==
  /\ verbs[n].at = "steering"
  /\ \/ Enqueue(n, verbs[n].agent) /\ Moves(n, "queued")
     \/ Moves(n, "over") /\ UNCHANGED pendingNotes
  /\ UNCHANGED <<child, registered, hooked, interrupted, slot, line, delivered, ledger,
                 stopping, sweep>>

\* The public rung: the host resolves the id, and the agent is looked up after.
PublicSteers(n, a) ==
  /\ verbs[n].at = "idle" /\ a \in registered
  /\ Enqueue(n, a)
  /\ verbs' = [verbs EXCEPT ![n] = [at |-> "capturing", id |-> IdOf[a], agent |-> a,
                                    ref |-> NoReceipt]]
  /\ UNCHANGED <<child, registered, hooked, interrupted, slot, line, delivered, ledger,
                 stopping, sweep>>

Captures(n) ==
  /\ verbs[n].at = "capturing"
  /\ LET found == {a \in registered : IdOf[a] = verbs[n].id}
     IN  \E ref \in IF found = {} THEN {NoReceipt} ELSE found :
           verbs' = [verbs EXCEPT ![n].at = "queued", ![n].ref = ref]
  /\ UNCHANGED <<agentVars, hooked, ledger, stopping, sweep>>

\* redirect is taken in the slot, or as a note in the middle of a tool, or
\* refused between turns; a refused one is steered.  It may also raise.
Redirects(n) ==
  /\ verbs[n].at = "redirecting"
  /\ LET a == verbs[n].agent IN
     \/ /\ child[a] = "live" /\ slot[a] = NoReceipt
        /\ slot' = [slot EXCEPT ![a] = n] /\ Moves(n, "judging") /\ UNCHANGED pendingNotes
     \/ /\ child[a] = "live"
        /\ Enqueue(n, a) /\ Moves(n, "judging") /\ UNCHANGED slot
     \/ Enqueue(n, a) /\ Moves(n, "queued") /\ UNCHANGED slot
     \/ Moves(n, "over") /\ UNCHANGED <<pendingNotes, slot>>
  /\ UNCHANGED <<child, registered, hooked, interrupted, line, delivered, ledger, stopping,
                 sweep>>

\* Variant: a redirect that was taken is also ledgered as a note.
JudgesBoth(n) ==
  /\ verbs[n].at = "judging"
  /\ IF slot[verbs[n].agent] = n THEN Record(n, "redirected") ELSE UNCHANGED ledger
  /\ Moves(n, "queued")
  /\ UNCHANGED <<agentVars, hooked, stopping, sweep>>

\* What became of it is read off the two places it may be in.
Judges(n) ==
  /\ verbs[n].at = "judging"
  /\ IF slot[verbs[n].agent] = n
       THEN Record(n, "redirected") /\ Moves(n, "over")
       ELSE Moves(n, "queued") /\ UNCHANGED ledger
  /\ UNCHANGED <<agentVars, hooked, stopping, sweep>>

\* record_queued, after the queue write.
Ledgers(n) ==
  /\ verbs[n].at = "queued"
  /\ Record(n, "queued") /\ Moves(n, "over")
  /\ UNCHANGED <<agentVars, hooked, stopping, sweep>>

-----------------------------------------------------------------------------
(* stop_work on a child, and the sweep of check_work.                      *)

StopAsks(a) ==
  /\ a \in registered /\ IdOf[a] \notin stopping
  /\ interrupted' = interrupted \union {a}
  /\ stopping' = stopping \union {IdOf[a]}
  /\ UNCHANGED <<child, registered, hooked, pendingNotes, slot, line, delivered, verbs, ledger,
                 sweep>>

StopLedgers(id) ==
  /\ id \in stopping
  /\ Superseded(id)
  /\ stopping' = stopping \ {id}
  /\ UNCHANGED <<agentVars, hooked, verbs, sweep>>

SweepLists ==
  /\ sweep.at = "idle" /\ Waiting # {}
  /\ sweep' = [at |-> "listed", ids |-> {IdOf[a] : a \in registered}]
  /\ UNCHANGED <<agentVars, hooked, verbs, ledger, stopping>>

SweepCompares ==
  /\ sweep.at = "listed"
  /\ sweep' = [at |-> "marking", ids |-> {ledger[i].id : i \in Waiting} \ sweep.ids]
  /\ UNCHANGED <<agentVars, hooked, verbs, ledger, stopping>>

SweepMarks ==
  /\ sweep.at = "marking"
  /\ \/ \E id \in sweep.ids : Gone(id) /\ sweep' = [sweep EXCEPT !.ids = @ \ {id}]
     \/ sweep.ids = {} /\ sweep' = [at |-> "idle", ids |-> {}] /\ UNCHANGED ledger
  /\ UNCHANGED <<agentVars, hooked, verbs, stopping>>

-----------------------------------------------------------------------------
HostStep(a) ==
  \/ ChildStarts(a) \/ Drain(a, "tool") \/ Drain(a, "api") \/ DrainLogged(a)
  \/ SlotTaken(a) \/ Interrupts(a) \/ ChildEnds(a) \/ ChildLeaves(a) \/ StopHook(a)

NoteStep(n) ==
  \/ \E a \in Agents : \/ LooksUp(n, a, "steering") \/ LooksUp(n, a, "redirecting")
                       \/ PublicSteers(n, a)
  \/ Steers(n) \/ Captures(n) \/ Redirects(n) \/ Judges(n) \/ Ledgers(n)

SteerNext ==
  \/ \E a \in Agents : HostStep(a) \/ StopAsks(a)
  \/ \E n \in Notes : NoteStep(n)
  \/ \E id \in AgentIds : StopLedgers(id)
  \/ SweepLists \/ SweepCompares \/ SweepMarks

SteerSpec == SteerInit /\ [][SteerNext]_steerVars

-----------------------------------------------------------------------------
(* Properties.                                                             *)

\* A receipt says landed only of a note its child took from its queue,
\* whichever way the note, its receipt and the line of a drain are ordered.
LandedWasRead ==
  \A i \in DOMAIN ledger : ledger[i].state = "landed" => ledger[i].note \in delivered

\* What every state of the receipts keeps.
SteerSafe == SteerTypeOK /\ LandedWasRead

\* A batch is drained as one: of its receipts that wait with a reference, one
\* line lands all or none.
LandsTogether ==
  [][\A a \in Agents :
       line[a] # Quiet /\ line'[a] = Quiet =>
         LET batch == {i \in Waiting : ledger[i].ref = a /\ ledger[i].note \in ToSet(line[a].notes)}
         IN  (\E i \in batch : ledger'[i].state = "landed")
               => \A i \in batch : ledger'[i].state = "landed"]_steerVars

\* A receipt gives up on a note only when its child is over.  (Refuted: the
\* sweep compares an old list of children with a new list of receipts.)
UnconfirmedIsOver ==
  \A i \in DOMAIN ledger :
    ledger[i].state = "unconfirmed" => child[verbs[ledger[i].note].agent] = "over"
=============================================================================
