--------------------------- MODULE DashboardChoices ---------------------------
(***************************************************************************)
(* What a tab of the dashboard chooses.                                    *)
(*                                                                         *)
(* Recipients: addressing an existing agent and sending it a message       *)
(* (talk_recipients.py, talk_recipient_store.py, talk_worker_recipients.py *)
(* and the recipient calls of talk_dashboard_gateway.py).  Operations are  *)
(* durable rows of an owner; a tab has one selection with a revision.  A   *)
(* send is claimed once and from then on only reconciled; a host may hold  *)
(* the message until a commit, which is claimed once too.  Every write is  *)
(* behind the generation of the connection, except the receipt of what was *)
(* already asked.                                                          *)
(*                                                                         *)
(* Targets: which task the tab talks to (talk_target_state.py, the durable *)
(* selection; talk_target_selection.py: reserve, join, activate, cancel;   *)
(* DashboardTasks.activate and discard; and the routes that drive them,    *)
(* dashboard/plugin_api.py, whose clients may hang up at any await).  A    *)
(* switch reserves the tab (a nonce that lapses after ninety seconds),     *)
(* joins the target, which opens a connection and makes any older one of   *)
(* that target stale, and is then activated by a compare-and-swap; what    *)
(* fails on the way is cancelled.  One tab; a connection is a number.      *)
(***************************************************************************)
EXTENDS Naturals, Sequences, FiniteSets, SequencesExt, TLC

CONSTANTS
  Operations,       \* action ids
  Addressees,       \* recipients of the host
  Askers,           \* requests at a time
  MaxAskFaults      \* bound: lost answers, lost requests, new generations

NoOne == "nobody"

ASSUME RecipientAssumption == MaxAskFaults \in Nat /\ NoOne \notin Addressees

VARIABLES
  chosen,   \* the selection of the tab, and the generation of the connection
  ops,      \* ops[o]: the durable operation
  asks,     \* asks[t]: a request
  bridge,   \* the host: deliveries, held messages and captures of an operation
  askFaults

recVars == <<chosen, ops, asks, bridge, askFaults>>

NoOp == [name |-> "none", target |-> NoOne, revision |-> 0, status |-> "queued",
         result |-> "none", attempted |-> FALSE, token |-> FALSE, committed |-> FALSE]
Free == [at |-> "idle"]
Statuses == {"queued", "posted", "accepted", "completed", "failed", "unknown"}

RecInit ==
  /\ chosen = [selected |-> NoOne, revision |-> 0, generation |-> 1]
  /\ ops = [o \in Operations |-> NoOp]
  /\ asks = [t \in Askers |-> Free]
  /\ bridge = [delivered |-> [o \in Operations |-> 0], held |-> {},
               captured |-> [o \in Operations |-> 0], gone |-> {}]
  /\ askFaults = 0

Live(t) == asks[t].generation = chosen.generation
Trips == askFaults < MaxAskFaults /\ askFaults' = askFaults + 1
Frees(t) == asks' = [asks EXCEPT ![t] = Free]
Turns(t, at) == asks' = [asks EXCEPT ![t].at = at]

Up(n) == IF n < 2 THEN n + 1 ELSE n

\* The tab joins again: requests of the old connection fail at their next write.
NewGeneration ==
  /\ Trips /\ chosen' = [chosen EXCEPT !.generation = @ + 1]
  /\ UNCHANGED <<ops, asks, bridge>>

-----------------------------------------------------------------------------
(* The durable rows.                                                       *)

\* An operation of the same message and recipient that went out and whose fate
\* is not known.
Unresolved(target) ==
  \E p \in Operations : /\ ops[p].name = "send" /\ ops[p].target = target
                        /\ ops[p].attempted /\ ops[p].status \in {"queued", "unknown"}

\* prepare: a select takes a new revision and unselects.
Prepare(t, o, name, target) ==
  /\ asks[t].at = "idle" /\ ops[o].name \in {"none", name}
  /\ asks' = [asks EXCEPT ![t] = [at |-> name, op |-> o, generation |-> chosen.generation]]
  /\ \/ ops[o].name = name /\ UNCHANGED <<chosen, ops>>
     \/ /\ ops[o].name = "none" /\ name = "select"
        /\ chosen' = [chosen EXCEPT !.revision = @ + 1, !.selected = NoOne]
        /\ ops' = [ops EXCEPT ![o] = [NoOp EXCEPT !.name = name, !.target = target,
                                                  !.revision = chosen.revision + 1]]
     \/ /\ ops[o].name = "none" /\ name = "inspect"
        /\ ops' = [ops EXCEPT ![o] = [NoOp EXCEPT !.name = name, !.target = chosen.selected]]
        /\ UNCHANGED chosen
     \/ /\ ops[o].name = "none" /\ name = "send"
        /\ chosen.selected # NoOne => ~Unresolved(chosen.selected)
        /\ ops' = [ops EXCEPT ![o] = [NoOp EXCEPT !.name = name, !.target = chosen.selected]]
        /\ UNCHANGED chosen
  /\ UNCHANGED <<bridge, askFaults>>

\* Variant: an operation without a result is claimed again.
ClaimableAgain(o) == ops[o].result = "none"

\* claim: one request makes the attempt.
Claimable(o) == ~ops[o].attempted /\ ops[o].result = "none"

\* Variant: the last receipt stands.
OutranksAny(old, new) == TRUE

\* A receipt yields to one that says more, and an end yields to none.
Outranks(old, new) ==
  /\ old \notin {"completed", "failed"}
  /\ old \in {"posted", "accepted"} => new \notin {"queued", "unknown"}
  /\ old = "accepted" => new # "posted"

\* finish.
Delivered(o, status, token) ==
  IF ops[o].result = "none" \/ Outranks(ops[o].result, status)
  THEN [ops EXCEPT ![o].status = status, ![o].result = status, ![o].token = @ \/ token]
  ELSE ops

\* What the host gave up stays given up.
Refuses0(o) == bridge' = [bridge EXCEPT !.gone = @ \union {o}]

-----------------------------------------------------------------------------
(* send_agent_message and reconcile.                                       *)

\* No recipient is selected, or the send is over, or this request claims it, or
\* it is claimed and is reconciled.
SendBegins(t) ==
  /\ asks[t].at = "send"
  /\ LET o == asks[t].op
     IN  \/ /\ ops[o].target = NoOne
            /\ ops' = Delivered(o, "failed", FALSE) /\ Frees(t)
         \/ /\ ops[o].target # NoOne /\ ops[o].result \in {"failed", "completed"}
            /\ Frees(t) /\ UNCHANGED ops
         \/ /\ ops[o].target # NoOne /\ ops[o].result \notin {"failed", "completed"}
            /\ IF ~Live(t) THEN Frees(t) /\ UNCHANGED ops
               ELSE IF Claimable(o)
               THEN ops' = [ops EXCEPT ![o].attempted = TRUE] /\ Turns(t, "sends")
               ELSE Turns(t, "reconciles") /\ UNCHANGED ops
  /\ UNCHANGED <<chosen, bridge, askFaults>>

\* A request that was superseded sends nothing; the row says unknown.
Superseded(t) ==
  /\ ~Live(t) /\ ops' = Delivered(asks[t].op, "unknown", FALSE) /\ Frees(t)
  /\ UNCHANGED <<bridge, askFaults>>

Answered(t, status, token) ==
  asks' = [asks EXCEPT ![t] = [at |-> "receipt", op |-> @.op, generation |-> @.generation,
                               status |-> status, token |-> token]]

\* The bridge posts the message, holds it for a commit, refuses it, or its
\* answer is lost.
BridgeSends(t) ==
  /\ asks[t].at = "sends"
  /\ LET o == asks[t].op
     IN  \/ Superseded(t)
         \/ /\ Live(t) /\ UNCHANGED ops
            /\ \/ /\ bridge' = [bridge EXCEPT !.delivered[o] = Up(@)]
                  /\ \/ UNCHANGED askFaults /\ \E s \in {"posted", "accepted"} : Answered(t, s, FALSE)
                     \/ Trips /\ Answered(t, "unknown", FALSE)
               \/ /\ bridge' = [bridge EXCEPT !.held = @ \union {o}]
                  /\ \/ UNCHANGED askFaults /\ Answered(t, "queued", TRUE)
                     \/ Trips /\ Answered(t, "unknown", FALSE)
               \/ Refuses0(o) /\ UNCHANGED askFaults /\ Answered(t, "failed", FALSE)
  /\ UNCHANGED chosen

\* The bridge says what it knows of the operation.
Reconciles(t) ==
  /\ asks[t].at = "reconciles"
  /\ LET o == asks[t].op
     IN  \/ Superseded(t)
         \/ /\ Live(t) /\ UNCHANGED ops
            /\ \/ /\ bridge.delivered[o] > 0 /\ UNCHANGED <<bridge, askFaults>>
                  /\ \E s \in {"posted", "accepted", "completed"} : Answered(t, s, FALSE)
               \/ /\ bridge.delivered[o] = 0 /\ o \in bridge.held /\ UNCHANGED <<bridge, askFaults>>
                  /\ Answered(t, "queued", TRUE)
               \/ /\ bridge.delivered[o] = 0 /\ o \notin bridge.held /\ UNCHANGED <<bridge, askFaults>>
                  /\ Answered(t, IF o \in bridge.gone THEN "failed" ELSE "unknown", FALSE)
               \/ Trips /\ Answered(t, "unknown", FALSE) /\ UNCHANGED bridge
  /\ UNCHANGED chosen

\* _send_receipt, and the commit of a message that is held.
TakesReceipt(t) ==
  /\ asks[t].at = "receipt"
  /\ LET o == asks[t].op
     IN  /\ ops' = Delivered(o, asks[t].status, asks[t].token)
         /\ IF ops'[o].status = "queued" /\ ops'[o].token THEN Turns(t, "commit") ELSE Frees(t)
  /\ UNCHANGED <<chosen, bridge, askFaults>>

\* Variant: a message that is held is committed by whoever finds it.
CommittableAgain(o) == ops[o].token /\ ops[o].status = "queued"

\* claim_commit: once.
Committable(o) == ops[o].token /\ ~ops[o].committed /\ ops[o].status = "queued"

ClaimCommit(t) ==
  /\ asks[t].at = "commit"
  /\ LET o == asks[t].op
     IN  \/ Live(t) /\ Committable(o) /\ Turns(t, "commits")
            /\ ops' = [ops EXCEPT ![o].committed = TRUE]
         \/ Live(t) /\ ~Committable(o) /\ Frees(t) /\ UNCHANGED ops
         \/ ~Live(t) /\ Frees(t) /\ ops' = Delivered(o, "unknown", FALSE)
  /\ UNCHANGED <<chosen, bridge, askFaults>>

BridgeCommits(t) ==
  /\ asks[t].at = "commits"
  /\ LET o == asks[t].op
     IN  \/ Superseded(t)
         \/ /\ Live(t) /\ UNCHANGED ops
            /\ \/ /\ bridge' = [bridge EXCEPT !.delivered[o] = Up(@), !.held = @ \ {o}]
                  /\ \/ UNCHANGED askFaults /\ Answered(t, "posted", FALSE)
                     \/ Trips /\ Answered(t, "unknown", FALSE)
               \/ Trips /\ UNCHANGED bridge /\ Answered(t, "unknown", FALSE)
  /\ UNCHANGED chosen

-----------------------------------------------------------------------------
(* select_recipient and inspect_screen.                                    *)

ClaimOne(t, name, next) ==
  /\ asks[t].at = name
  /\ LET o == asks[t].op
     IN  \/ /\ Live(t) /\ ops[o].target # NoOne /\ Claimable(o)
            /\ ops' = [ops EXCEPT ![o].attempted = TRUE] /\ Turns(t, next)
         \/ ops[o].target = NoOne /\ ops' = Delivered(o, "failed", FALSE) /\ Frees(t)
         \/ /\ ops[o].target # NoOne /\ ~(Live(t) /\ Claimable(o)) /\ Frees(t) /\ UNCHANGED ops
  /\ UNCHANGED <<chosen, bridge, askFaults>>

SelectClaims(t)  == ClaimOne(t, "select", "selects")
InspectClaims(t) == ClaimOne(t, "inspect", "inspects")

\* The bridge proves the recipient; the answer may be lost.
BridgeSelects(t) ==
  /\ asks[t].at = "selects"
  /\ \/ Turns(t, "selected") /\ UNCHANGED <<ops, askFaults>>
     \/ Trips /\ ops' = Delivered(asks[t].op, "unknown", FALSE) /\ Frees(t)
  /\ UNCHANGED <<chosen, bridge>>

\* Variant: an older selection that ends late is taken.
NewestAny(o) == TRUE

\* A selection counts while no newer one was begun.
IsNewest(o) == ops[o].revision = chosen.revision

\* finish with the selection: behind the generation, and of this revision.
Selected(t) ==
  /\ asks[t].at = "selected"
  /\ LET o == asks[t].op
     IN  IF Live(t) /\ IsNewest(o)
         THEN /\ chosen' = [chosen EXCEPT !.selected = ops[o].target]
              /\ ops' = Delivered(o, "completed", FALSE)
         ELSE UNCHANGED <<chosen, ops>>
  /\ Frees(t)
  /\ UNCHANGED <<bridge, askFaults>>

BridgeInspects(t) ==
  /\ asks[t].at = "inspects"
  /\ \/ /\ Live(t) /\ bridge' = [bridge EXCEPT !.captured[asks[t].op] = Up(@)]
        /\ \/ UNCHANGED askFaults /\ ops' = Delivered(asks[t].op, "completed", FALSE)
           \/ Trips /\ ops' = Delivered(asks[t].op, "unknown", FALSE)
     \/ ~Live(t) /\ UNCHANGED <<ops, bridge, askFaults>>
  /\ Frees(t)
  /\ UNCHANGED chosen

RecNext ==
  \/ NewGeneration
  \/ \E t \in Askers :
       \/ \E o \in Operations, n \in {"select", "send", "inspect"}, a \in Addressees : Prepare(t, o, n, a)
       \/ SendBegins(t) \/ BridgeSends(t) \/ Reconciles(t) \/ TakesReceipt(t) \/ ClaimCommit(t)
       \/ BridgeCommits(t) \/ SelectClaims(t) \/ InspectClaims(t) \/ BridgeSelects(t) \/ Selected(t)
       \/ BridgeInspects(t)

RecSpec == RecInit /\ [][RecNext]_recVars

-----------------------------------------------------------------------------
RecTypeOK ==
  /\ chosen.selected \in Addressees \union {NoOne}
  /\ \A o \in Operations : ops[o].status \in Statuses /\ ops[o].result \in Statuses \union {"none"}

\* A message is delivered, and a screen captured, once at most per operation:
\* answers may be lost and requests repeated, before and after a commit.
DeliveredOnce ==
  \A o \in Operations : bridge.delivered[o] <= 1 /\ bridge.captured[o] <= 1

\* The selected recipient is that of the newest selection, which completed.
SelectionIsNewest ==
  chosen.selected # NoOne =>
    \E o \in Operations : /\ ops[o].name = "select" /\ ops[o].revision = chosen.revision
                          /\ ops[o].target = chosen.selected /\ ops[o].result = "completed"

\* What the host confirmed was confirmed of a message that went out.
ConfirmedWasSent ==
  \A o \in Operations :
    ops[o].name = "send" /\ ops[o].status \in {"posted", "accepted", "completed"} =>
      bridge.delivered[o] > 0 /\ ops[o].attempted

\* The three together, and the types.
RecipientsSafe == RecTypeOK /\ DeliveredOnce /\ SelectionIsNewest /\ ConfirmedWasSent

Rank(s) == CASE s = "none" -> 0 [] s \in {"queued", "unknown"} -> 1 [] s = "posted" -> 2
             [] s = "accepted" -> 3 [] s \in {"completed", "failed"} -> 4

\* What is known of a delivery only grows, in whatever order answers come.
KnowledgeGrows ==
  [][\A o \in Operations :
       /\ Rank(ops'[o].result) >= Rank(ops[o].result)
       /\ Rank(ops[o].result) = 4 => ops'[o].result = ops[o].result]_recVars

\* (Refuted: two operations are prepared before either is attempted.)  The same
\* message is not delivered to a recipient by an operation while another one of
\* it is unresolved.
SameMessageWaits ==
  \A t \in Askers : asks[t].at = "sends" =>
    \A p \in Operations \ {asks[t].op} :
      ~(ops[p].name = "send" /\ ops[p].target = ops[asks[t].op].target /\ ops[p].attempted
        /\ ops[p].status \in {"queued", "unknown"})

------------------------------------------------------------------------------
(* The live target.                                                        *)

CONSTANTS Targets, SwitchThreads,
          MaxConns,     \* bound: connections opened
          MaxHangups,   \* bound: requests whose client goes away
          MaxRefusals,  \* bound: routes that changed, mints that failed, lapses, restarts
          MaxStack      \* stack[-8:]

NoTarget == "none"

ASSUME TargetAssumption == MaxConns \in Nat /\ MaxStack \in Nat /\ NoTarget \notin Targets

VARIABLES row,      \* the selection: revision, current target and connection, stack, pending
          live,     \* the tab's binding in _bindings, 0 for none
          discarded,\* connections that were closed
          holder,   \* Targets -> the connection whose attachment token is good
          conns, switches, hangups, refusals

targetVars == <<row, live, discarded, holder, conns, switches, hangups, refusals>>

NoSwitch == [at |-> "idle", target |-> NoTarget, stack |-> <<>>, revision |-> 0, conn |-> 0, told |-> FALSE]

TargetInit ==
  /\ row = [revision |-> 0, target |-> NoTarget, conn |-> 0, stack |-> <<>>, pending |-> "none", fresh |-> FALSE]
  /\ live = 0 /\ discarded = {} /\ holder = [g \in Targets |-> 0] /\ conns = 0
  /\ switches = [t \in SwitchThreads |-> NoSwitch]
  /\ hangups = 0 /\ refusals = 0

Onward(t, fields) ==
  switches' = [switches EXCEPT ![t] = [f \in DOMAIN @ |-> IF f \in DOMAIN fields THEN fields[f] ELSE @[f]]]
HangsUp == hangups < MaxHangups /\ hangups' = hangups + 1
Refused == refusals < MaxRefusals /\ refusals' = refusals + 1

------------------------------------------------------------------------------
\* Variant: a target that is selected already is pushed again.
PushedAlways(target) == Append(row.stack, row.target)

\* The stack after the switch: the task that is left is the one to return to.
Pushed(target) ==
  IF row.target \in {NoTarget, target} THEN row.stack
  ELSE LET longer == Append(row.stack, row.target)
       IN  SubSeq(longer, IF Len(longer) > MaxStack THEN 2 ELSE 1, Len(longer))

\* TargetState.reserve.
Take(t, target, stack) ==
  /\ row.pending = "none" \/ ~row.fresh
  /\ row' = [row EXCEPT !.pending = t, !.fresh = TRUE]
  /\ Onward(t, [at |-> "joins", target |-> target, stack |-> stack, revision |-> row.revision,
                conn |-> 0, told |-> FALSE])

\* TargetSelection.prepare for a page that loads, for one that knows its
\* connection (a switch, or a native surface that attaches again), and back.
Reserve(t) ==
  /\ switches[t].at = "idle" /\ conns < MaxConns
  /\ \/ \E target \in Targets : Take(t, target, Pushed(target))
     \/ row.conn # 0 /\ row.stack # <<>> /\ Take(t, Last(row.stack), Front(row.stack))
  /\ UNCHANGED <<live, discarded, holder, conns, hangups, refusals>>

\* manager.join: a new connection, whose attachment makes the older one stale.
Joins(t) ==
  /\ switches[t].at = "joins" /\ conns < MaxConns
  /\ conns' = conns + 1 /\ holder' = [holder EXCEPT ![switches[t].target] = conns']
  /\ Onward(t, [at |-> "mints", conn |-> conns'])
  /\ UNCHANGED <<row, live, discarded, hangups, refusals>>

\* The route is proved again before the join and before the activation.
RouteChanged(t) ==
  /\ switches[t].at \in {"joins", "activates"} /\ Refused
  /\ Onward(t, [at |-> IF switches[t].at = "joins" THEN "frees" ELSE "discards"])
  /\ UNCHANGED <<row, live, discarded, holder, conns, hangups>>

\* _target_session: the mint, the surface of a native client, and the question
\* whether the client is still there.
Mints(t) ==
  /\ switches[t].at = "mints"
  /\ \/ Onward(t, [at |-> "activates"]) /\ UNCHANGED refusals
     \/ Refused /\ Onward(t, [at |-> "discards"])
  /\ UNCHANGED <<row, live, discarded, holder, conns, hangups>>

\* Variant: the compare-and-swap compares nothing.
SameAny(t) == row.target # NoTarget \/ row.revision = 0
\* The selection is the one that was reserved, and the reservation stands.
Same(t) == row.revision = switches[t].revision /\ row.pending = t /\ row.fresh

\* manager.activate with TargetState.activate under its lock.
ActivateTarget(t) ==
  /\ switches[t].at = "activates"
  /\ IF Same(t)
     THEN /\ row' = [revision |-> row.revision + 1, target |-> switches[t].target, conn |-> switches[t].conn,
                     stack |-> switches[t].stack, pending |-> "none", fresh |-> FALSE]
          /\ discarded' = discarded \union (IF live = 0 THEN {} ELSE {live})
          /\ holder' = [g \in Targets |-> IF holder[g] = live THEN 0 ELSE holder[g]]
          /\ live' = switches[t].conn /\ Onward(t, [at |-> "answers"])
     ELSE Onward(t, [at |-> "discards"]) /\ UNCHANGED <<row, live, discarded, holder>>
  /\ UNCHANGED <<conns, hangups, refusals>>

AnswerSwitch(t) ==
  /\ switches[t].at = "answers" /\ switches' = [switches EXCEPT ![t] = NoSwitch]
  /\ UNCHANGED <<row, live, discarded, holder, conns, hangups, refusals>>

\* TargetSelection.cancel: the candidate is discarded,
Discard(t) ==
  /\ switches[t].at = "discards"
  /\ discarded' = discarded \union {switches[t].conn}
  /\ holder' = [g \in Targets |-> IF holder[g] = switches[t].conn THEN 0 ELSE holder[g]]
  /\ Onward(t, [at |-> "frees"])
  /\ UNCHANGED <<row, live, conns, hangups, refusals>>

\* and the reservation is given up, if it is still this one.
Cancel(t) ==
  /\ switches[t].at = "frees"
  /\ row' = (IF row.pending = t THEN [row EXCEPT !.pending = "none", !.fresh = FALSE] ELSE row)
  /\ switches' = [switches EXCEPT ![t] = NoSwitch]
  /\ UNCHANGED <<live, discarded, holder, conns, hangups, refusals>>

------------------------------------------------------------------------------
\* Variant: a client that hangs up during the activation has it cancelled.
HeedsAlways(t) == switches[t].at \in {"mints", "activates", "answers"}
\* The requests that a hangup turns to cancel: not one whose activation is asked.
Heeds(t) == switches[t].at = "mints"

\* The client hangs up.  A preparation and an activation that run are shielded:
\* the first is cancelled when it is done, the second stands.
Hangup(t) ==
  /\ switches[t].at \in {"mints", "activates", "answers"} /\ ~switches[t].told /\ HangsUp
  /\ IF Heeds(t) THEN Onward(t, [at |-> "discards", told |-> TRUE])
     ELSE Onward(t, [told |-> TRUE])
  /\ UNCHANGED <<row, live, discarded, holder, conns, refusals>>

\* A second cancellation reaches the bare await of the activation: its thread
\* goes on, while the request cancels what it prepared.
HangupAgain(t) ==
  /\ switches[t].at \in {"activates", "answers"} /\ switches[t].told /\ HangsUp
  /\ discarded' = discarded \union {switches[t].conn} /\ Onward(t, [told |-> TRUE])
  /\ holder' = [g \in Targets |-> IF holder[g] = switches[t].conn THEN 0 ELSE holder[g]]
  /\ UNCHANGED <<row, live, conns, refusals>>

\* Ninety seconds pass over a reservation.
Lapses ==
  /\ row.fresh /\ Refused /\ row' = [row EXCEPT !.fresh = FALSE]
  /\ UNCHANGED <<live, discarded, holder, conns, switches, hangups>>

\* The dashboard's process is restarted: bindings are gone, the selection stays.
Restart ==
  /\ Refused /\ live' = 0 /\ switches' = [t \in SwitchThreads |-> NoSwitch]
  /\ UNCHANGED <<row, discarded, holder, conns, hangups>>

TargetNext ==
  \/ Lapses \/ Restart
  \/ \E t \in SwitchThreads :
       \/ Reserve(t) \/ Joins(t) \/ RouteChanged(t) \/ Mints(t) \/ ActivateTarget(t) \/ AnswerSwitch(t)
       \/ Discard(t) \/ Cancel(t) \/ Hangup(t) \/ HangupAgain(t)

TargetSpec == TargetInit /\ [][TargetNext]_targetVars

------------------------------------------------------------------------------
TargetTypeOK ==
  /\ row.target \in Targets \union {NoTarget} /\ row.stack \in Seq(Targets)
  /\ row.conn \in 0..MaxConns /\ live \in 0..MaxConns /\ Len(row.stack) <= MaxStack

(* The connection the process serves is the one the durable selection names, *)
(* through races, lapses and hangups.                                        *)
LiveIsSelected == live # 0 => live = row.conn

(* A switch that was accepted is never taken back: the connection that is    *)
(* served was not discarded by the request that lost its client.             *)
SelectedIsOpen == hangups <= 1 /\ live # 0 => live \notin discarded

(* Going back goes somewhere else.                                           *)
ReturnGoesElsewhere == row.stack # <<>> => Last(row.stack) # row.target

\* What every state of a switch keeps: the live connection is of the selected target, which
\* is open, and going back goes elsewhere.
TargetSafe == TargetTypeOK /\ LiveIsSelected /\ SelectedIsOpen /\ ReturnGoesElsewhere

(* A switch is computed from the selection it replaces: it pushes the task   *)
(* that is left, pops the one returned to, or leaves the stack; no switch    *)
(* that two others overtook writes an old stack back.                        *)
StackMovesByOne ==
  [][row'.revision # row.revision =>
       \/ row'.stack = Pushed(row'.target)
       \/ row.stack # <<>> /\ row'.stack = Front(row.stack) /\ row'.target = Last(row.stack)]_targetVars

(* (Refuted: a second cancellation interrupts the bare "await activation".)  *)
(* The same with any number of hangups.                                      *)
AcceptedStands == live # 0 => live \notin discarded

(* (Refuted: joining a task again makes its connection stale before the      *)
(* switch is accepted; when the mint fails, the old connection is dead.)     *)
(* A switch that fails leaves the tab its connection.                        *)
FailedSwitchKeepsOld ==
  live # 0 /\ (\A t \in SwitchThreads : switches[t].at = "idle") => holder[row.target] = live
=============================================================================
