-------------------------- MODULE DashboardActions --------------------------
(***************************************************************************)
(* The tool calls of a dashboard task (talk_dashboard_tasks.py, the action *)
(* half of talk_dashboard_store.py, talk_run_control.py): starting a       *)
(* child job, stopping it, answering its approval, steering it.            *)
(*                                                                         *)
(* An action is a durable record of one call id.  Requests of the browser  *)
(* run on threads; each reads the record once, asks the gateway, and       *)
(* writes it back: update_action behind the generation of the tab's        *)
(* connection, record_original_receipt without it.  A tab that joins again *)
(* has a new generation and recovers what is unfinished; the process may   *)
(* die anywhere.                                                           *)
(***************************************************************************)
EXTENDS Naturals, Sequences, FiniteSets

CONSTANTS
  Job, Control,   \* call ids: one that starts the job, one that acts on it
  DashThreads,    \* requests at a time
  MaxJoins,       \* bound: generations of the tab
  MaxDashFaults   \* bound: crashes, lost and refused requests

ASSUME DashAssumption == MaxJoins \in Nat \ {0} /\ MaxDashFaults \in Nat /\ Job # Control

DashCalls == {Job, Control}
Names == {"child", "stop", "approve", "steer"}

VARIABLES
  tabSide,         \* the generation of the attachment, and the binding in _bindings
  acts,        \* acts[a]: the durable record of call id a
  requests,    \* requests[t]: a thread
  gateway,     \* the host: jobs, decisions and corrections per action
  dashFaults

dashVars == <<tabSide, acts, requests, gateway, dashFaults>>

NoAct == [name |-> "none", state |-> "none", key |-> 0, run |-> FALSE, phase |-> "none",
          body |-> 0, receipt |-> "none", host |-> FALSE]
Idle == [at |-> "idle"]

DashInit ==
  /\ tabSide = [generation |-> 0, bound |-> 0]
  /\ acts = [a \in DashCalls |-> NoAct]
  /\ requests = [t \in DashThreads |-> Idle]
  /\ gateway = [jobs |-> [a \in DashCalls |-> {}], refused |-> {}, turn |-> 1, pending |-> TRUE,
                decisions |-> [a \in DashCalls |-> 0], posted |-> [a \in DashCalls |-> {}],
                queued |-> [a \in DashCalls |-> "none"]]
  /\ dashFaults = 0

Fenced(t) == requests[t].generation = tabSide.generation
Bound(t) == Fenced(t) /\ tabSide.bound = tabSide.generation
Faulty == dashFaults < MaxDashFaults /\ dashFaults' = dashFaults + 1

\* A record with these fields, and the others as they are.
Amended(r, fields) == [f \in DOMAIN r \union DOMAIN fields |-> IF f \in DOMAIN fields THEN fields[f] ELSE r[f]]

At(t, fields) == requests' = [requests EXCEPT ![t] = Amended(@, fields)]

\* The thread goes on with the next action it recovers, or is done.
Over(t) ==
  LET r == requests[t]
  IN  requests' = [requests EXCEPT ![t] =
        IF r.todo # <<>>
        THEN [r EXCEPT !.at = "recover", !.act = Head(r.todo).act, !.seen = Head(r.todo).seen,
                       !.todo = Tail(r.todo)]
        ELSE IF r.joins THEN [r EXCEPT !.at = "activate"] ELSE Idle]

-----------------------------------------------------------------------------
(* join, activate, close, and the death of the process.                    *)

Unfinished(a) ==
  \/ acts[a].name = "steer"
  \/ acts[a].name = "child" /\ acts[a].state \in {"prepared", "submitting", "uncertain"}

Recovers(a) == IF Unfinished(a) THEN <<[act |-> a, seen |-> acts[a]]>> ELSE <<>>

\* attach: from here on the old binding of the tab is stale.  The records are
\* read once.
Join(t) ==
  /\ requests[t].at = "idle" /\ tabSide.generation < MaxJoins
  /\ tabSide' = [tabSide EXCEPT !.generation = @ + 1]
  /\ requests' = [requests EXCEPT ![t] =
       [at |-> "join", act |-> Job, seen |-> NoAct, generation |-> tabSide.generation + 1,
        mine |-> FALSE, joins |-> TRUE, todo |-> Recovers(Job) \o Recovers(Control)]]
  /\ UNCHANGED <<acts, gateway, dashFaults>>

Joined(t) ==
  /\ requests[t].at = "join"
  /\ \/ Over(t) /\ UNCHANGED dashFaults
     \/ requests' = [requests EXCEPT ![t] = Idle] /\ Faulty
  /\ UNCHANGED <<tabSide, acts, gateway>>

\* A binding of the tab replaces the one that was there.
Activate(t) ==
  /\ requests[t].at = "activate"
  /\ tabSide' = [tabSide EXCEPT !.bound = requests[t].generation]
  /\ requests' = [requests EXCEPT ![t] = Idle]
  /\ UNCHANGED <<acts, gateway, dashFaults>>

CloseTab ==
  /\ tabSide.bound # 0 /\ tabSide.bound = tabSide.generation
  /\ tabSide' = [tabSide EXCEPT !.bound = 0]
  /\ UNCHANGED <<acts, requests, gateway, dashFaults>>

Dies ==
  /\ Faulty
  /\ tabSide' = [tabSide EXCEPT !.bound = 0]
  /\ requests' = [t \in DashThreads |-> Idle]
  /\ UNCHANGED <<acts, gateway>>

\* _recover: an action found submitting is uncertain, and dispatched again.
Recover(t) ==
  /\ requests[t].at = "recover"
  /\ LET a == requests[t].act
     IN  \/ /\ acts[a].name = "steer"
            /\ At(t, [at |-> "steer", seen |-> acts[a]]) /\ UNCHANGED <<acts, dashFaults>>
         \/ /\ acts[a].name = "child" /\ requests[t].seen.state # "submitting"
            /\ At(t, [at |-> "child"]) /\ UNCHANGED <<acts, dashFaults>>
         \/ /\ acts[a].name = "child" /\ requests[t].seen.state = "submitting"
            /\ IF Fenced(t)
               THEN /\ acts' = [acts EXCEPT ![a].state = "uncertain"]
                    /\ At(t, [at |-> "child", seen |-> acts'[a]])
               ELSE requests' = [requests EXCEPT ![t] = Idle] /\ UNCHANGED acts
            /\ UNCHANGED dashFaults
  /\ UNCHANGED <<tabSide, gateway>>

-----------------------------------------------------------------------------
(* tool: the binding is checked and the action prepared.                   *)

\* Variant: the record of the call id is not looked for.
PriorNone(a) == FALSE

\* prepare_action returns the record that is there.
Prior(a) == acts[a].name # "none"

Tool(t, a, name) ==
  /\ requests[t].at = "idle" /\ tabSide.bound # 0 /\ tabSide.bound = tabSide.generation
  /\ acts[a].name \in {"none", name} /\ (a = Job <=> name = "child")
  /\ name = "steer" => acts[Job].run
  /\ acts' = IF Prior(a) THEN acts
             ELSE [acts EXCEPT ![a] = [NoAct EXCEPT !.name = name, !.state = "prepared",
                                                    !.key = acts[a].key + 1]]
  /\ acts'[a].key <= 2
  /\ requests' = [requests EXCEPT ![t] =
       [at |-> name, act |-> a, seen |-> acts'[a], generation |-> tabSide.generation,
        mine |-> TRUE, joins |-> FALSE, todo |-> <<>>]]
  /\ UNCHANGED <<tabSide, gateway, dashFaults>>

\* record_original_receipt of a state: no generation is asked for.
Records(t, fields) == acts' = [acts EXCEPT ![requests[t].act] = Amended(@, fields)]

-----------------------------------------------------------------------------
(* _dispatch of a child job.                                               *)

DispatchChecks(t) ==
  /\ requests[t].at = "child"
  /\ IF requests[t].seen.state \in {"prepared", "uncertain"} /\ Fenced(t)
     THEN /\ Records(t, [state |-> "submitting"])
          /\ At(t, [at |-> "dispatch", seen |-> acts'[requests[t].act]])
     ELSE Over(t) /\ UNCHANGED acts
  /\ UNCHANGED <<tabSide, gateway, dashFaults>>

Runs(a, key) == [gateway EXCEPT !.jobs[a] = @ \union {key}]

\* Variant: a request nobody answered is a failure.
UnansweredFails(reply) == "failed"

\* A retryable failure leaves the action uncertain.
Unanswered(reply) == IF reply = "refused" THEN "failed" ELSE "uncertain"

\* The host starts the job of the idempotency key or replays it, refuses, or
\* is not reached; the answer may be lost.
Dispatch(t) ==
  /\ requests[t].at = "dispatch"
  /\ LET a == requests[t].act
         k == requests[t].seen.key
     IN  \/ /\ gateway' = Runs(a, k) /\ UNCHANGED dashFaults
            /\ At(t, [at |-> "dispatched", news |-> "accepted"])
         \/ /\ Faulty /\ gateway' = Runs(a, k)
            /\ At(t, [at |-> "dispatched", news |-> Unanswered("lost")])
         \/ /\ Faulty /\ UNCHANGED gateway
            /\ At(t, [at |-> "dispatched", news |-> Unanswered("lost")])
         \/ /\ Faulty /\ gateway' = [gateway EXCEPT !.refused = @ \union {a}]
            /\ At(t, [at |-> "dispatched", news |-> Unanswered("refused")])
  /\ UNCHANGED <<tabSide, acts>>

Dispatched(t) ==
  /\ requests[t].at = "dispatched"
  /\ Records(t, [state |-> requests[t].news,
                 run |-> acts[requests[t].act].run \/ requests[t].news = "accepted"])
  /\ Over(t)
  /\ UNCHANGED <<tabSide, gateway, dashFaults>>

-----------------------------------------------------------------------------
(* _stop_work: an action found submitting reads the run and posts nothing. *)

StopBegins(t) ==
  /\ requests[t].at = "stop"
  /\ IF requests[t].seen.state = "prepared" /\ acts[Job].run /\ Fenced(t)
     THEN Records(t, [state |-> "submitting"]) /\ At(t, [at |-> "stopping"])
     ELSE Over(t) /\ UNCHANGED acts
  /\ UNCHANGED <<tabSide, gateway, dashFaults>>

\* The stop was posted; a failure leaves the action submitting.
StopPosts(t) ==
  /\ requests[t].at = "stopping"
  /\ \/ At(t, [at |-> "stopped"]) /\ UNCHANGED dashFaults
     \/ Over(t) /\ Faulty
  /\ UNCHANGED <<tabSide, acts, gateway>>

StopReturns(t) ==
  /\ requests[t].at = "stopped"
  /\ acts' = IF Fenced(t) THEN [acts EXCEPT ![requests[t].act].state = "returned"] ELSE acts
  /\ Over(t)
  /\ UNCHANGED <<tabSide, gateway, dashFaults>>

-----------------------------------------------------------------------------
(* _resolve_approval.                                                      *)

\* Variant: whoever asks claims the decision.
ClaimsAny(a) == acts[a].state \in {"prepared", "approval_checking", "approval_submitting"}

\* claim_approval: one thread, once.
Claims(a) == acts[a].state = "prepared"

ClaimApproval(t) ==
  /\ requests[t].at = "approve"
  /\ IF Fenced(t) /\ Claims(requests[t].act)
     THEN Records(t, [state |-> "approval_checking"]) /\ At(t, [at |-> "reads"])
     ELSE Over(t) /\ UNCHANGED acts
  /\ UNCHANGED <<tabSide, gateway, dashFaults>>

\* The current approvals are read, and the one that matches is frozen.
FreezeApproval(t) ==
  /\ requests[t].at = "reads"
  /\ \/ /\ acts[Job].run /\ gateway.pending /\ Fenced(t)
        /\ acts[requests[t].act].state = "approval_checking"
        /\ Records(t, [state |-> "approval_submitting"]) /\ At(t, [at |-> "decides"])
        /\ UNCHANGED dashFaults
     \/ /\ ~(acts[Job].run /\ gateway.pending /\ Fenced(t))
        /\ Records(t, [state |-> "failed"]) /\ Over(t) /\ UNCHANGED dashFaults
     \/ Records(t, [state |-> "failed"]) /\ Over(t) /\ Faulty
  /\ UNCHANGED <<tabSide, gateway>>

\* The binding is checked again before the decision is posted.
Decide(t) ==
  /\ requests[t].at = "decides"
  /\ IF Bound(t)
     THEN /\ \/ UNCHANGED dashFaults \/ Faulty
          /\ \/ gateway' = [gateway EXCEPT !.decisions[requests[t].act] = IF @ < 2 THEN @ + 1 ELSE @,
                                           !.pending = FALSE]
             \/ dashFaults' # dashFaults /\ UNCHANGED gateway
          /\ At(t, [at |-> "decided"]) /\ UNCHANGED acts
     ELSE Records(t, [state |-> "failed"]) /\ Over(t) /\ UNCHANGED <<gateway, dashFaults>>
  /\ UNCHANGED tabSide

Decided(t) ==
  /\ requests[t].at = "decided"
  /\ Records(t, [state |-> "returned"]) /\ Over(t)
  /\ UNCHANGED <<tabSide, gateway, dashFaults>>

-----------------------------------------------------------------------------
(* steer_action.                                                           *)

\* record_original_receipt of a control receipt: of another body nothing is
\* taken, and a settled receipt yields only to the host, and only if unknown.
Keeps(t, news) ==
  LET r == acts[requests[t].act]
  IN  \/ r.body # requests[t].seen.body
      \/ r.phase = "settled" /\ ~(r.receipt = "unknown" /\ r.host /\ news.host)

Saves(t, news) ==
  acts' = IF Keeps(t, news) THEN acts
          ELSE [acts EXCEPT ![requests[t].act] = Amended(@,
                  [receipt |-> news.receipt, host |-> news.host, phase |-> news.phase,
                   state |-> IF news.phase = "settled" THEN "returned" ELSE "uncertain"])]

Observed(receipt, phase) == [receipt |-> receipt, host |-> FALSE, phase |-> phase]
FromHost(a) == [receipt |-> gateway.queued[a], host |-> TRUE, phase |-> "settled"]

SettledForGood(r) == r.phase = "settled" /\ ~(r.receipt = "unknown" /\ r.host)

\* A correction with a body: its receipt is read first.
SteerLooks(t) ==
  /\ requests[t].at = "steer"
  /\ LET a    == requests[t].act
         r    == requests[t].seen
         mine == requests[t].mine /\ r.phase # "settled"
     IN  \/ SettledForGood(r) /\ Over(t) /\ UNCHANGED <<acts, dashFaults>>
         \/ /\ ~SettledForGood(r) /\ r.body # 0
            /\ \/ /\ gateway.queued[a] # "none"
                  /\ Saves(t, FromHost(a)) /\ Over(t) /\ UNCHANGED dashFaults
               \/ /\ gateway.queued[a] = "none" /\ mine
                  /\ At(t, [at |-> "steers"]) /\ UNCHANGED <<acts, dashFaults>>
               \/ /\ gateway.queued[a] = "none" /\ ~mine
                  /\ Over(t) /\ UNCHANGED <<acts, dashFaults>>
               \/ /\ Saves(t, Observed("unknown", "unconfirmed")) /\ Over(t) /\ Faulty
         \/ /\ ~SettledForGood(r) /\ r.body = 0 /\ ~mine
            /\ Over(t) /\ UNCHANGED <<acts, dashFaults>>
         \/ /\ ~SettledForGood(r) /\ r.body = 0 /\ mine
            /\ \/ /\ At(t, [at |-> "freezes", turn |-> gateway.turn])
                  /\ UNCHANGED <<acts, dashFaults>>
               \/ /\ \E n \in {Observed("rejected", "settled"), Observed("unknown", "pending_origin")} :
                       Saves(t, n)
                  /\ Over(t) /\ Faulty
  /\ UNCHANGED <<tabSide, gateway>>

\* Variant: the last thread's body stands.
FrozenLast(t) == requests[t].turn

\* freeze_control: the first body stands.
Frozen(t) == IF acts[requests[t].act].body = 0 THEN requests[t].turn ELSE acts[requests[t].act].body

FreezeControl(t) ==
  /\ requests[t].at = "freezes"
  /\ IF Fenced(t)
     THEN /\ Records(t, [body |-> Frozen(t)])
          /\ At(t, [at |-> "steers", seen |-> acts'[requests[t].act]])
     ELSE Over(t) /\ UNCHANGED acts
  /\ UNCHANGED <<tabSide, gateway, dashFaults>>

\* authorize, and the action is submitting, whatever its record says by now.
SteerSubmits(t) ==
  /\ requests[t].at = "steers"
  /\ IF Bound(t)
     THEN /\ Records(t, [state |-> "submitting", phase |-> "submitting"])
          /\ At(t, [at |-> "posts", seen |-> acts'[requests[t].act]])
     ELSE Over(t) /\ UNCHANGED acts
  /\ UNCHANGED <<tabSide, gateway, dashFaults>>

\* The host queues a correction of the turn it was written for, once.
SteerPosts(t) ==
  /\ requests[t].at = "posts"
  /\ LET a == requests[t].act
         b == requests[t].seen.body
     IN  \/ /\ gateway' = [gateway EXCEPT !.posted[a] = @ \union {b},
                  !.queued[a] = IF @ = "none" THEN (IF b = gateway.turn THEN "queued" ELSE "rejected")
                                ELSE @]
            /\ \/ /\ UNCHANGED dashFaults
                  /\ At(t, [at |-> "saves", news |-> [receipt |-> gateway'.queued[a], host |-> TRUE,
                                                      phase |-> "settled"]])
               \/ Faulty /\ At(t, [at |-> "saves", news |-> Observed("unknown", "unconfirmed")])
         \/ /\ Faulty /\ UNCHANGED gateway
            /\ At(t, [at |-> "saves", news |-> Observed("unknown", "unconfirmed")])
  /\ UNCHANGED <<tabSide, acts>>

SteerSaves(t) ==
  /\ requests[t].at = "saves"
  /\ Saves(t, requests[t].news) /\ Over(t)
  /\ UNCHANGED <<tabSide, gateway, dashFaults>>

\* The job is in another turn.
TurnMoves ==
  /\ gateway.turn < 2 /\ acts[Job].run
  /\ gateway' = [gateway EXCEPT !.turn = @ + 1]
  /\ UNCHANGED <<tabSide, acts, requests, dashFaults>>

DashNext ==
  \/ CloseTab \/ Dies \/ TurnMoves
  \/ \E t \in DashThreads :
       \/ Join(t) \/ Joined(t) \/ Activate(t) \/ Recover(t)
       \/ \E a \in DashCalls, name \in Names : Tool(t, a, name)
       \/ DispatchChecks(t) \/ Dispatch(t) \/ Dispatched(t)
       \/ StopBegins(t) \/ StopPosts(t) \/ StopReturns(t)
       \/ ClaimApproval(t) \/ FreezeApproval(t) \/ Decide(t) \/ Decided(t)
       \/ SteerLooks(t) \/ FreezeControl(t) \/ SteerSubmits(t) \/ SteerPosts(t) \/ SteerSaves(t)

DashSpec == DashInit /\ [][DashNext]_dashVars

-----------------------------------------------------------------------------
DashTypeOK ==
  /\ tabSide.generation \in 0 .. MaxJoins /\ tabSide.bound \in 0 .. tabSide.generation
  /\ \A a \in DashCalls : acts[a].key \in 0 .. 2 /\ acts[a].body \in 0 .. 2
  /\ dashFaults \in 0 .. MaxDashFaults

\* However often a call is retried, recovered or raced by a second request, the
\* host runs one job for it.
OneJobPerCall == \A a \in DashCalls : Cardinality(gateway.jobs[a]) <= 1

InFlight(a) == \E t \in DashThreads : requests[t].at # "idle" /\ requests[t].act = a

\* A job the host may run is never forgotten, unless a request for it was
\* refused: its run is recorded or the action is one that recovery submits again.
JobsAreKnown ==
  \A a \in DashCalls :
    gateway.jobs[a] # {} /\ a \notin gateway.refused /\ ~InFlight(a) =>
      acts[a].run \/ acts[a].state \in {"submitting", "uncertain"}

\* A call posts one decision at most, and one that was told refused posted none.
OneDecision ==
  \A a \in DashCalls :
    /\ gateway.decisions[a] <= 1
    /\ acts[a].name = "approve" /\ acts[a].state = "failed" => gateway.decisions[a] = 0

\* Every post of a correction is for the turn that was frozen first.
SameBody == \A a \in DashCalls : Cardinality(gateway.posted[a]) <= 1

\* The four together, and the types.
DashSafe == DashTypeOK /\ OneJobPerCall /\ JobsAreKnown /\ OneDecision /\ SameBody

\* (Refuted: a request that was refused, or whose answer was lost, writes its
\* state over the one a concurrent request recorded.)  An accepted job stays
\* accepted.
AcceptedSticks ==
  [][\A a \in DashCalls : acts[a].state = "accepted" => acts'[a].state = "accepted"]_dashVars

\* (Refuted: update_action puts the phase back to submitting, and the answer of
\* the second post is lost.)  A receipt of the host is not replaced by a guess.
ReceiptSticks ==
  [][\A a \in DashCalls : acts[a].host /\ acts[a].receipt = "queued" => acts'[a].receipt = "queued"]_dashVars

\* (Refuted: attach moves the generation before the rest of join may fail.)  A
\* tab that is bound has the generation of the store when no join is under way.
FailedJoinKeepsOld ==
  tabSide.bound # 0 /\ (\A t \in DashThreads : requests[t].at = "idle") => tabSide.bound = tabSide.generation
=============================================================================
