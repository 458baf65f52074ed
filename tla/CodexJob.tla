------------------------------- MODULE CodexJob -------------------------------
(***************************************************************************)
(* One background job given to a Codex app server (talk_codex_worker.py,   *)
(* talk_codex_store.py, talk_codex_wire.py, talk_codex_provider.py).       *)
(*                                                                         *)
(* The job is a row on disk held under a lease.  What is about to be asked *)
(* of Codex is written first, what it answered afterwards; a run that      *)
(* comes upon a step whose answer is not recorded looks for its outcome in *)
(* the thread and never repeats the step.  Steering, cancelling and        *)
(* approvals reach the run from other threads.                             *)
(***************************************************************************)
EXTENDS Naturals, Sequences, FiniteSets

CONSTANTS
  Runners,       \* processes that may run the job
  SteerActions,  \* action ids of steering controls
  MaxRuns,       \* bound: runs of the job
  MaxAsks,       \* bound: approvals Codex asks for
  MaxCodexFaults \* bound: lost answers, refused writes, failed servers, crashes, lapsed leases

ASSUME CodexAssumption ==
  /\ MaxRuns \in Nat /\ MaxAsks \in Nat /\ MaxCodexFaults \in Nat
  /\ "none" \notin Runners \cup SteerActions

VARIABLES
  job,       \* the durable record
  runner,    \* runner[w]: the run in progress there
  codex,     \* the thread on Codex's disk and the turn in it
  order,     \* [authorized, cancelled]: the owner of the job
  runs,      \* runs begun
  codexFaults

codexVars == <<job, runner, codex, order, runs, codexFaults>>

Ends == {"completed", "failed", "interrupted"}
RunnerIdle == [at |-> "idle", lease |-> 0, state |-> "none", wire |-> <<>>, answer |-> "none",
         pending |-> {}, resolved |-> {}, control |-> "none", cancelSent |-> FALSE]

CodexInit ==
  /\ job = [state |-> "prepared", thread |-> FALSE, turn |-> FALSE, lease |-> 0, held |-> FALSE,
            controls |-> [a \in SteerActions |-> "none"]]
  /\ runner = [w \in Runners |-> RunnerIdle]
  /\ codex = [threads |-> 0, turns |-> 0, turn |-> "none", in |-> "none",
              asked |-> 0, waits |-> 0, told |-> [n \in 1..MaxAsks |-> 0],
              steered |-> [a \in SteerActions |-> 0]]
  /\ order = [authorized |-> TRUE, cancelled |-> FALSE]
  /\ runs = 0 /\ codexFaults = 0

CodexFault == codexFaults < MaxCodexFaults /\ codexFaults' = codexFaults + 1
\* Variant: a run writes whether it still holds the lease or not.
HoldsAlways(w) == w \in Runners
Holds(w) == job.lease = runner[w].lease /\ job.held
WorkAuthorized == order.authorized /\ ~order.cancelled

\* A step of a run: its record, then where it goes on.
RunnerGoes(w, at) == runner' = [runner EXCEPT ![w].at = at]
Writes(fields) == job' = [f \in DOMAIN job |-> IF f \in DOMAIN fields THEN fields[f] ELSE job[f]]

-----------------------------------------------------------------------------
(* Beginning a run.                                                        *)

Leasable == job.lease = 0 \/ ~job.held

ClaimJob(w) ==
  /\ runner[w].at = "idle" /\ runs < MaxRuns /\ Leasable
  /\ runs' = runs + 1
  /\ Writes([lease |-> runs + 1, held |-> TRUE])
  /\ runner' = [runner EXCEPT ![w] = [RunnerIdle EXCEPT !.at = "claimed", !.lease = runs + 1, !.state = job.state]]
  /\ UNCHANGED <<codex, order, codexFaults>>

\* What the record says decides: nothing to do, nothing known, cancelled, or a server is started.
BeginTurn(w) ==
  LET s == runner[w].state
  IN /\ runner[w].at = "claimed"
     /\ \/ s \in Ends /\ RunnerGoes(w, "release") /\ UNCHANGED <<job, codexFaults>>
        \/ s \notin Ends \cup {"prepared", "thread_ready"} /\ ~job.thread
           /\ RunnerGoes(w, "fail") /\ UNCHANGED <<job, codexFaults>>
        \/ s \in {"prepared", "thread_ready"} /\ order.cancelled /\ ~job.turn
           /\ UNCHANGED codexFaults
           /\ IF Holds(w) THEN Writes([state |-> "interrupted"]) /\ RunnerGoes(w, "release")
              ELSE RunnerGoes(w, "fail") /\ UNCHANGED job
        \/ /\ s \in {"prepared", "thread_ready"} => ~order.cancelled \/ job.turn
           /\ s \notin Ends /\ (s = "prepared" \/ job.thread)
           /\ \/ RunnerGoes(w, IF s = "prepared" THEN "thread" ELSE "read") /\ UNCHANGED codexFaults
              \/ CodexFault /\ RunnerGoes(w, "fail")            \* no server
           /\ UNCHANGED job
     /\ UNCHANGED <<codex, order, runs>>

\* Variant: a step is asked for without being written first.
ReportsNothing(w, state) == UNCHANGED job
Reports(w, state) == Writes([state |-> state])

\* The record says what is about to be asked.
AnnounceJob(w) ==
  LET s == IF runner[w].at = "thread" THEN "thread_starting" ELSE "turn_starting"
  IN /\ runner[w].at \in {"thread", "ready"}
     /\ runner[w].at = "ready" => ~order.cancelled /\ job.state = "thread_ready"
     /\ IF Holds(w) THEN Reports(w, s) /\ RunnerGoes(w, IF runner[w].at = "thread" THEN "askThread" ELSE "askTurn")
        ELSE RunnerGoes(w, "fail") /\ UNCHANGED job
     /\ UNCHANGED <<codex, order, runs, codexFaults>>

\* The write is made if the owner still wants the work; Codex acts; the answer may be lost.
AskThread(w) ==
  /\ runner[w].at = "askThread"
  /\ \/ WorkAuthorized /\ codex' = [codex EXCEPT !.threads = @ + 1]
        /\ \/ RunnerGoes(w, "threadAnswered") /\ UNCHANGED codexFaults
           \/ CodexFault /\ RunnerGoes(w, "fail")
     \/ ~WorkAuthorized /\ RunnerGoes(w, "fail") /\ UNCHANGED <<codex, codexFaults>>
  /\ UNCHANGED <<job, order, runs>>

AskTurn(w) ==
  /\ runner[w].at = "askTurn"
  /\ \/ WorkAuthorized /\ codex' = [codex EXCEPT !.turns = @ + 1, !.turn = "running", !.in = w]
        /\ \/ RunnerGoes(w, "turnAnswered") /\ UNCHANGED codexFaults
           \/ CodexFault /\ RunnerGoes(w, "fail")
     \/ ~WorkAuthorized /\ RunnerGoes(w, "fail") /\ UNCHANGED <<codex, codexFaults>>
  /\ UNCHANGED <<job, order, runs>>

Answered(w) ==
  LET thread == runner[w].at = "threadAnswered"
  IN /\ runner[w].at \in {"threadAnswered", "turnAnswered"}
     /\ IF ~Holds(w) THEN RunnerGoes(w, "fail") /\ UNCHANGED job
        ELSE IF thread THEN Writes([thread |-> TRUE, state |-> "thread_ready"]) /\ RunnerGoes(w, "ready")
        ELSE Writes([turn |-> TRUE, state |-> "running"]) /\ RunnerGoes(w, "loop")
     /\ UNCHANGED <<codex, order, runs, codexFaults>>

Unmatched == job.state = "thread_ready"

\* A run that comes later: _recover_turn looks for the turn in the thread, resumes, and looks
\* whether it is still at work.
Recover(w) ==
  LET status == IF codex.turn \in Ends THEN codex.turn ELSE "running"
  IN /\ runner[w].at = "read"
     /\ \/ order.authorized
           /\ \/ codex.turn # "none" /\ ~Holds(w) /\ RunnerGoes(w, "fail") /\ UNCHANGED job
              \/ codex.turn # "none" /\ Holds(w) /\ Writes([turn |-> TRUE, state |-> status])
                 /\ RunnerGoes(w, IF status \in Ends THEN "release" ELSE IF codex.in = w THEN "loop" ELSE "fail")
              \/ codex.turn = "none" /\ RunnerGoes(w, IF Unmatched THEN "ready" ELSE "fail") /\ UNCHANGED job
           /\ UNCHANGED codexFaults
        \/ ~order.authorized /\ RunnerGoes(w, "fail") /\ UNCHANGED <<job, codexFaults>>
        \/ CodexFault /\ RunnerGoes(w, "fail") /\ UNCHANGED job
     /\ UNCHANGED <<codex, order, runs>>

\* A cancelled run that has not asked for its turn.
CancelReady(w) ==
  /\ runner[w].at = "ready" /\ order.cancelled /\ job.state = "thread_ready"
  /\ IF Holds(w) THEN Writes([state |-> "interrupted"]) /\ RunnerGoes(w, "release")
     ELSE RunnerGoes(w, "fail") /\ UNCHANGED job
  /\ UNCHANGED <<codex, order, runs, codexFaults>>

-----------------------------------------------------------------------------
(* The turn.                                                               *)

EndJob(status) == [end |-> status, ask |-> 0]
Emits(w, event) == runner' = [runner EXCEPT ![w].wire = Append(@, event)]

TurnEnds(status) ==
  /\ codex.turn = "running" /\ codex.in \in Runners
  /\ codex' = [codex EXCEPT !.turn = status, !.waits = 0]
  /\ Emits(codex.in, EndJob(status))
  /\ UNCHANGED <<job, order, runs, codexFaults>>

AsksApproval ==
  /\ codex.turn = "running" /\ codex.in \in Runners /\ codex.waits = 0 /\ codex.asked < MaxAsks
  /\ codex' = [codex EXCEPT !.asked = @ + 1, !.waits = codex.asked + 1]
  /\ Emits(codex.in, [end |-> "none", ask |-> codex.asked + 1])
  /\ UNCHANGED <<job, order, runs, codexFaults>>

\* _event: an end of the turn is recorded, an approval becomes pending.
HandleEvent(w) ==
  LET e == Head(runner[w].wire)
      TakenTo(at, pending) ==
        runner' = [runner EXCEPT ![w].wire = Tail(@), ![w].at = at, ![w].pending = pending]
  IN /\ runner[w].at = "loop" /\ runner[w].wire # <<>> /\ job.state \notin Ends
     /\ IF e.end \in Ends
        THEN IF Holds(w) THEN Writes([state |-> e.end]) /\ TakenTo("loop", {})
             ELSE TakenTo("fail", runner[w].pending) /\ UNCHANGED job
        ELSE /\ TakenTo("loop", runner[w].pending \cup ({e.ask} \ runner[w].resolved))
             /\ UNCHANGED job
     /\ UNCHANGED <<codex, order, runs, codexFaults>>

LoopEnds(w) ==
  /\ runner[w].at = "loop" /\ job.state \in Ends
  /\ RunnerGoes(w, "release")
  /\ UNCHANGED <<job, codex, order, runs, codexFaults>>

\* The probe fails, cancelling is not confirmed in time, or the renewal finds the lease lost.
LoopFails(w) ==
  /\ runner[w].at = "loop" /\ job.state \notin Ends
  /\ \/ CodexFault
     \/ ~Holds(w) /\ UNCHANGED codexFaults
  /\ RunnerGoes(w, "fail")
  /\ UNCHANGED <<job, codex, order, runs>>

\* approve: the request leaves the pending ones before the answer is sent.
Approve(w, n) ==
  /\ runner[w].at = "loop" /\ n \in runner[w].pending /\ job.state = "running" /\ Holds(w)
  /\ runner' = [runner EXCEPT ![w].pending = @ \ {n}, ![w].resolved = @ \cup {n}]
  /\ \/ WorkAuthorized /\ codex' = [codex EXCEPT !.told[n] = @ + 1,
                                    !.waits = IF @ = n THEN 0 ELSE @] /\ UNCHANGED codexFaults
     \/ ~WorkAuthorized /\ UNCHANGED <<codex, codexFaults>>
     \/ CodexFault /\ UNCHANGED codex
  /\ UNCHANGED <<job, order, runs>>

-----------------------------------------------------------------------------
(* Controls: a receipt "unknown" is written before the request goes out.   *)

\* Variant: a control is sent again although it has a receipt.
UnsentAny(a) == job.controls[a] # "queued"
Unsent(a) == job.controls[a] = "none"

Steer(w, a) ==
  /\ runner[w].at = "loop" /\ runner[w].control = "none" /\ Unsent(a)
  /\ job.state = "running" /\ WorkAuthorized
  /\ IF Holds(w) THEN Writes([controls |-> [job.controls EXCEPT ![a] = "unknown"]])
                      /\ runner' = [runner EXCEPT ![w].control = a]
     ELSE UNCHANGED <<job, runner>>
  /\ UNCHANGED <<codex, order, runs, codexFaults>>

\* Codex takes it for the turn it names, while that is running.
SteerReaches(w) ==
  LET a == runner[w].control
  IN /\ a \in SteerActions /\ runner[w].answer = "none"
     /\ \/ WorkAuthorized /\ codex.turn = "running" /\ codex.in = w
           /\ codex' = [codex EXCEPT !.steered[a] = @ + 1]
           /\ \/ runner' = [runner EXCEPT ![w].answer = "taken"] /\ UNCHANGED codexFaults
              \/ CodexFault /\ runner' = [runner EXCEPT ![w].control = "none"]
        \/ ~(WorkAuthorized /\ codex.turn = "running" /\ codex.in = w)
           /\ runner' = [runner EXCEPT ![w].control = "none"] /\ UNCHANGED <<codex, codexFaults>>
     /\ UNCHANGED <<job, order, runs>>

SteerAcked(w) ==
  /\ runner[w].answer = "taken"
  /\ IF Holds(w) THEN Writes([controls |-> [job.controls EXCEPT ![runner[w].control] = "queued"]])
     ELSE UNCHANGED job
  /\ runner' = [runner EXCEPT ![w].answer = "none", ![w].control = "none"]
  /\ UNCHANGED <<codex, order, runs, codexFaults>>

\* turn/interrupt, once, in the loop.
CancelTurn(w) ==
  /\ runner[w].at = "loop" /\ order.cancelled /\ ~runner[w].cancelSent
  /\ runner[w].control = "none" /\ job.state = "running" /\ Holds(w)
  /\ runner' = [runner EXCEPT ![w].cancelSent = TRUE,
        ![w].wire = IF codex.turn = "running" /\ codex.in = w THEN Append(@, EndJob("interrupted")) ELSE @]
  /\ codex' = IF codex.turn = "running" /\ codex.in = w
              THEN [codex EXCEPT !.turn = "interrupted", !.waits = 0] ELSE codex
  /\ UNCHANGED <<job, order, runs, codexFaults>>

OwnerCancels == ~order.cancelled /\ order' = [order EXCEPT !.cancelled = TRUE]
                /\ UNCHANGED <<job, runner, codex, runs, codexFaults>>
OwnerRetires == order.authorized /\ order' = [order EXCEPT !.authorized = FALSE]
                /\ UNCHANGED <<job, runner, codex, runs, codexFaults>>

-----------------------------------------------------------------------------
(* Ending a run.                                                           *)

WireDrained(w) == {runner[w].wire[n].end : n \in DOMAIN runner[w].wire} \cap Ends

\* What has already arrived still counts; otherwise the outcome is unknown.
FailRun(w) ==
  /\ runner[w].at = "fail"
  /\ IF job.state \in Ends \/ ~Holds(w) THEN UNCHANGED job
     ELSE Writes([state |-> IF WireDrained(w) # {} THEN CHOOSE e \in WireDrained(w) : TRUE ELSE "unknown"])
  /\ RunnerGoes(w, "release")
  /\ UNCHANGED <<codex, order, runs, codexFaults>>

\* The server of a run that is over takes its turn down with it, or had finished it.
Down(w, left) == IF codex.in = w /\ codex.turn = "running"
                 THEN [codex EXCEPT !.in = "none", !.waits = 0, !.turn = left] ELSE codex

Released(w) == IF job.lease = runner[w].lease THEN [job EXCEPT !.lease = 0, !.held = FALSE] ELSE job

Release(w) ==
  /\ runner[w].at = "release"
  /\ job' = Released(w)
  /\ \E left \in {"running", "completed", "interrupted"} : codex' = Down(w, left)
  /\ runner' = [runner EXCEPT ![w] = RunnerIdle]
  /\ UNCHANGED <<order, runs, codexFaults>>

CrashRun(w) ==
  /\ runner[w].at # "idle" /\ CodexFault
  /\ \E left \in {"running", "completed", "interrupted"} : codex' = Down(w, left)
  /\ runner' = [runner EXCEPT ![w] = RunnerIdle]
  /\ UNCHANGED <<job, order, runs>>

\* Thirty seconds without a renewal: the machine slept, or the run is dead.
LeaseLapses ==
  /\ job.held /\ CodexFault /\ Writes([held |-> FALSE])
  /\ UNCHANGED <<runner, codex, order, runs>>

CodexNext ==
  \/ \E w \in Runners :
       \/ ClaimJob(w) \/ BeginTurn(w) \/ AnnounceJob(w) \/ AskThread(w) \/ AskTurn(w) \/ Answered(w)
       \/ Recover(w) \/ CancelReady(w) \/ HandleEvent(w) \/ LoopEnds(w) \/ LoopFails(w)
       \/ SteerReaches(w) \/ SteerAcked(w) \/ CancelTurn(w) \/ FailRun(w) \/ Release(w) \/ CrashRun(w)
       \/ \E n \in 1..MaxAsks : Approve(w, n)
       \/ \E a \in SteerActions : Steer(w, a)
  \/ \E status \in {"completed", "failed"} : TurnEnds(status)
  \/ AsksApproval \/ OwnerCancels \/ OwnerRetires \/ LeaseLapses

CodexSpec == CodexInit /\ [][CodexNext]_codexVars

-----------------------------------------------------------------------------
CodexTypeOK ==
  /\ job.turn => job.thread
  /\ \A w \in Runners : runner[w].at = "idle" => runner[w].wire = <<>>
  /\ codex.waits <= codex.asked

\* The work is given to Codex at most once: one thread and one turn for the job, whatever
\* answer was lost, whichever run crashed or lost its lease.
GivenOnce == codex.threads <= 1 /\ codex.turns <= 1

\* What the record says of an end is what happened to the turn; interrupted is also said of a
\* job that was cancelled before it had one.
EndIsTrue ==
  /\ job.state \in {"completed", "failed"} => codex.turn = job.state
  /\ job.state = "interrupted" => codex.turn \in {"none", "interrupted"}

\* Codex is steered with each control once, and a receipt says it was only if it was.
SteeredOnce ==
  \A a \in SteerActions : codex.steered[a] <= 1 /\ (job.controls[a] = "queued" => codex.steered[a] = 1)

\* An approval is answered once.
ApprovedOnce == \A n \in 1..MaxAsks : codex.told[n] <= 1

\* What every state of a job keeps: thread and turn are asked for once, a recorded end is
\* the turn's own, a correction goes in once and an approval is answered once.
CodexSafe == CodexTypeOK /\ GivenOnce /\ EndIsTrue /\ SteeredOnce /\ ApprovedOnce

\* An end that was recorded stays.
EndIsFinal == [][job.state \in Ends => job'.state = job.state]_codexVars

\* (Refuted: an answer that could not be sent is neither pending nor accepted a second time;
\* Codex goes on waiting for it.)
WaitsForSomeone ==
  codex.waits # 0 /\ codex.in \in Runners /\ runner[codex.in].at = "loop" =>
    LET r == runner[codex.in]
    IN codex.waits \in r.pending \/ \E n \in DOMAIN r.wire : r.wire[n].ask = codex.waits
=============================================================================
