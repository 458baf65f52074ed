---------------------------- MODULE WorkControl ----------------------------
(***************************************************************************)
(* One background run on the lane that carries it, and the tool calls that *)
(* stop it (talk_host.py, talk_apiserver.py, talk_progress.py, and the     *)
(* process handles of talk_runs.py).                                       *)
(*                                                                         *)
(* The worker thread drives the work: a child process (the detached lane)  *)
(* or a run of the api server.  A stop is a tool call that waits briefly   *)
(* for its effect, records a pending receipt and leaves the rest to a      *)
(* daemon.  The worker's polls and the host's hooks project a phase on the *)
(* run: each reads the run, decides, and writes later.                     *)
(***************************************************************************)
EXTENDS Naturals

CONSTANTS
  Stops,      \* tool calls that try to stop the run
  Hooks       \* host hook threads that project a phase

VARIABLES
  route,      \* the lane that took the run
  thread,     \* where the worker thread stands
  work,       \* the process or remote run itself
  handle,     \* TRUE: _PROCESSES holds the process
  run,        \* the entry of _RUNS (status, lane, address, receipt, phase), and
              \* bound: _RUN_BY_SESSION knows the session that works on it
  calls,      \* calls[c]: where a stop stands, and whether it holds the process
  answers,    \* answers[c]: what the server made of the stop of c
  due         \* due[t]: the phase thread t decided to write

callVars == <<calls, answers>>
workVars == <<route, thread, work, handle, run, calls, answers, due>>

Landings == {"done", "failed"}
Phases   == {"accepted", "executing", "blocked", "complete", "failed", "stopped"}
Ends     == {"complete", "failed", "stopped"}
Ended    == {"succeeded", "died", "cancelled"}
Writers  == Hooks \union {"worker"}

Runs == [status: {"running"} \union Landings, lane: {"", "api"}, address: BOOLEAN,
         receipt: {"", "pending", "accepted", "failed", "no answer", "exited",
                   "finished", "unconfirmed"},
         phase: {""} \union Phases, bound: BOOLEAN]

StopCalls == [at: {"idle", "posting", "late post", "captured", "signaled",
                   "confirming", "late look", "late confirm", "over"},
              held: BOOLEAN]

WorkerOK ==
  /\ route \in {"api", "detached"}
  /\ thread \in {"new", "spawned", "waiting", "killed", "reaped", "starting",
                 "started", "polling", "returned", "done"}
  /\ work \in {"none", "running", "stopping"} \union Ended
  /\ handle \in BOOLEAN /\ (handle => thread \in {"waiting", "killed", "reaped"})

StopsOK ==
  /\ calls \in [Stops -> StopCalls]
  /\ answers \in [Stops -> {"none", "ok", "error"}]

WorkTypeOK ==
  /\ WorkerOK /\ StopsOK
  /\ run \in Runs
  /\ due \in [Writers -> {""} \union Phases]

WorkInit ==
  /\ route \in {"api", "detached"}
  /\ thread = "new" /\ work = "none" /\ handle = FALSE
  /\ run = [status |-> "running", lane |-> "", address |-> FALSE, receipt |-> "", phase |-> "",
            bound |-> FALSE]
  /\ calls = [c \in Stops |-> [at |-> "idle", held |-> FALSE]]
  /\ answers = [c \in Stops |-> "none"]
  /\ due = [t \in Writers |-> ""]

\* finish_run: the first landing wins.
Finish(status) ==
  run' = IF run.status = "running" THEN [run EXCEPT !.status = status] ELSE run

-----------------------------------------------------------------------------
(* The detached lane: _detached_agent_worker.                              *)

\* Popen; an exception lands the run through _run_worker.
Spawn ==
  /\ route = "detached" /\ thread = "new"
  /\ \/ work' = "running" /\ thread' = "spawned" /\ UNCHANGED run
     \/ Finish("failed") /\ thread' = "done" /\ UNCHANGED work
  /\ UNCHANGED <<route, handle, callVars, due>>

Register ==
  /\ thread = "spawned"
  /\ handle' = TRUE /\ thread' = "waiting"
  /\ UNCHANGED <<route, work, run, callVars, due>>

\* communicate returns, or its budget runs out and the child is killed.
CommunicateReturns ==
  /\ thread \in {"waiting", "killed"} /\ work \in Ended
  /\ thread' = "reaped"
  /\ UNCHANGED <<route, work, handle, run, callVars, due>>

\* Variant: the budget is spent without a kill.
ExpiresUnkilled ==
  /\ thread = "waiting" /\ work \notin Ended
  /\ thread' = "killed" /\ UNCHANGED work
  /\ UNCHANGED <<route, handle, run, callVars, due>>

CommunicateExpires ==
  /\ thread = "waiting" /\ work \notin Ended
  /\ thread' = "killed" /\ work' = "died"
  /\ UNCHANGED <<route, handle, run, callVars, due>>

\* Variant: a process that did not succeed stays in _PROCESSES.
ReleaseOnSuccess ==
  /\ thread = "reaped"
  /\ handle' = (work # "succeeded") /\ thread' = "returned"
  /\ UNCHANGED <<route, work, run, callVars, due>>

\* release_process, in a finally: the child was reaped.
Release ==
  /\ thread = "reaped"
  /\ handle' = FALSE /\ thread' = "returned"
  /\ UNCHANGED <<route, work, run, callVars, due>>

\* The exit code decides; a remote end of any kind is an answer.
WorkerReturns ==
  /\ thread = "returned" /\ due["worker"] = ""
  /\ Finish(IF route = "detached" /\ work # "succeeded" THEN "failed" ELSE "done")
  /\ thread' = "done"
  /\ UNCHANGED <<route, work, handle, callVars, due>>

-----------------------------------------------------------------------------
(* The api lane: _api_server_worker over run_to_completion.                *)

LaneNoted ==
  /\ route = "api" /\ thread = "new"
  /\ run' = [run EXCEPT !.lane = "api"]
  /\ thread' = "starting"
  /\ UNCHANGED <<route, work, handle, callVars, due>>

LaneErrs ==
  /\ Finish("failed")
  /\ thread' = "done"

\* POST /v1/runs.
RemoteStarts ==
  /\ thread = "starting"
  /\ \/ work' = "running" /\ thread' = "started" /\ UNCHANGED run
     \/ LaneErrs /\ UNCHANGED work
  /\ UNCHANGED <<route, handle, callVars, due>>

\* _on_start: the address of the remote run is recorded.
Addressed ==
  /\ thread = "started"
  /\ run' = [run EXCEPT !.address = TRUE]
  /\ thread' = "polling"
  /\ UNCHANGED <<route, work, handle, callVars, due>>

\* set_run_phase reads the run: a landed run and a terminal phase stay as
\* they are, the same phase is not written again.
MayPhase(phase) ==
  /\ run.status \notin Landings
  /\ run.phase \notin Ends
  /\ run.phase # phase

PhaseOf == CASE work = "succeeded" -> "complete"
             [] work = "died"      -> "failed"
             [] work = "cancelled" -> "stopped"

\* One GET: it names the session, its event (if it has a phase) is projected,
\* then a terminal state ends the loop.
Poll ==
  /\ thread = "polling" /\ due["worker"] = ""
  /\ run' = [run EXCEPT !.bound = TRUE]
  /\ \/ UNCHANGED due
     \/ \E phase \in IF work \in Ended THEN {PhaseOf} ELSE Phases \ Ends :
          MayPhase(phase) /\ due' = [due EXCEPT !["worker"] = phase]
  /\ thread' = IF work \in Ended THEN "returned" ELSE "polling"
  /\ UNCHANGED <<route, work, handle, callVars>>

\* The budget is spent, or the server cannot be read.
PollFails ==
  /\ thread = "polling" /\ due["worker"] = ""
  /\ LaneErrs
  /\ UNCHANGED <<route, work, handle, callVars, due>>

\* The hook of a session that runs this work: _run_for_session, set_run_phase.
HookReads(h) ==
  /\ run.bound /\ due[h] = ""
  /\ \E phase \in {"executing", "blocked"} :
       /\ MayPhase(phase)
       /\ due' = [due EXCEPT ![h] = phase]
  /\ UNCHANGED <<route, thread, work, handle, run, callVars>>

\* The annotate_run of set_run_phase.
PhaseWritten(t) ==
  /\ due[t] # ""
  /\ run' = [run EXCEPT !.phase = due[t]]
  /\ due' = [due EXCEPT ![t] = ""]
  /\ UNCHANGED <<route, thread, work, handle, callVars>>

-----------------------------------------------------------------------------
(* The work itself.                                                        *)

WorkEnds ==
  /\ work \in {"running", "stopping"}
  /\ \/ work' \in {"succeeded", "died"}
     \/ work = "stopping" /\ route = "api" /\ work' = "cancelled"
  /\ UNCHANGED <<route, thread, handle, run, callVars, due>>

-----------------------------------------------------------------------------
(* stop_work.                                                              *)

At(c, where) == calls' = [calls EXCEPT ![c].at = where]

Receipt(c, what) ==
  /\ run' = [run EXCEPT !.receipt = what]
  /\ At(c, "over")

\* A run that landed, or whose address is not known, is refused; a run with no
\* lane noted is taken for a process.
StopReads(c) ==
  /\ calls[c].at = "idle"
  /\ \/ /\ run.status \in Landings \/ (run.lane = "api" /\ ~run.address)
        /\ At(c, "over")
     \/ /\ run.status \notin Landings /\ run.lane = "api" /\ run.address
        /\ At(c, "posting")
     \/ /\ run.status \notin Landings /\ run.lane = ""
        /\ calls' = [calls EXCEPT ![c] = [at |-> "captured", held |-> handle]]
  /\ UNCHANGED <<route, thread, work, handle, run, answers, due>>

\* The daemon's POST .../stop is answered: 2xx, or an error that may or may
\* not have reached the server.
ServerAnswers(c) ==
  /\ calls[c].at \in {"posting", "late post"} /\ answers[c] = "none"
  /\ \/ /\ answers' = [answers EXCEPT ![c] = "ok"]
        /\ work' = IF work = "running" THEN "stopping" ELSE work
     \/ /\ answers' = [answers EXCEPT ![c] = "error"]
        /\ work' \in IF work = "running" THEN {"running", "stopping"} ELSE {work}
  /\ UNCHANGED <<route, thread, handle, run, calls, due>>

StopHears(c) ==
  /\ calls[c].at = "posting"
  /\ \/ answers[c] = "ok" /\ Receipt(c, "accepted")
     \/ answers[c] = "error" /\ At(c, "over") /\ UNCHANGED run
  /\ UNCHANGED <<route, thread, work, handle, answers, due>>

\* The courtesy wait is over: the receipt is promised before it is pursued.
Promise(c, next) ==
  /\ run' = [run EXCEPT !.receipt = "pending"]
  /\ At(c, next)

StopStopsWaiting(c) ==
  /\ calls[c].at = "posting" /\ answers[c] = "none"
  /\ Promise(c, "late post")
  /\ UNCHANGED <<route, thread, work, handle, answers, due>>

LateAnswer(c) ==
  /\ calls[c].at = "late post"
  /\ Receipt(c, CASE answers[c] = "ok" -> "accepted"
                  [] answers[c] = "error" -> "failed"
                  [] OTHER -> "no answer")
  /\ UNCHANGED <<route, thread, work, handle, answers, due>>

\* terminate_process looks the handle up again and polls it.
Terminate(c) ==
  /\ calls[c].at = "captured"
  /\ \/ /\ handle /\ work \notin Ended
        /\ work' = "stopping" /\ At(c, "signaled")
     \/ /\ ~handle \/ work \in Ended
        /\ At(c, "over") /\ UNCHANGED work
  /\ UNCHANGED <<route, thread, handle, run, answers, due>>

\* wait_process polls the captured process, or else the one _PROCESSES holds
\* now; without either it answers None at once.
HasProcess(c) == calls[c].held \/ handle

StopConfirms(c) ==
  /\ calls[c].at = "signaled"
  /\ \/ HasProcess(c) /\ At(c, "confirming") /\ UNCHANGED run
     \/ ~HasProcess(c) /\ Promise(c, "late look")
  /\ UNCHANGED <<route, thread, work, handle, answers, due>>

StopStopsConfirming(c) ==
  /\ calls[c].at = "confirming" /\ work \notin Ended
  /\ Promise(c, "late look")
  /\ UNCHANGED <<route, thread, work, handle, answers, due>>

\* Variant: the signal is taken for the death.
ConfirmedBySignal(c) ==
  /\ calls[c].at \in {"confirming", "late confirm"}
  /\ Receipt(c, "exited")
  /\ UNCHANGED <<route, thread, work, handle, answers, due>>

Confirmed(c) ==
  /\ calls[c].at \in {"confirming", "late confirm"} /\ work \in Ended
  /\ Receipt(c, "exited")
  /\ UNCHANGED <<route, thread, work, handle, answers, due>>

LateConfirms(c) ==
  /\ calls[c].at = "late look" /\ HasProcess(c)
  /\ At(c, "late confirm")
  /\ UNCHANGED <<route, thread, work, handle, run, answers, due>>

\* No exit code, or nothing to poll.
SawNoExit(c) ==
  \/ calls[c].at = "late look" /\ ~HasProcess(c)
  \/ calls[c].at = "late confirm" /\ work \notin Ended

\* Variant: the daemon that saw no exit says nothing.
LateSilence(c) ==
  /\ SawNoExit(c)
  /\ At(c, "over")
  /\ UNCHANGED <<route, thread, work, handle, run, answers, due>>

\* The daemon consults the run before it speaks of uncertainty.
LateUnconfirmed(c) ==
  /\ SawNoExit(c)
  /\ Receipt(c, IF run.status \in Landings THEN "finished" ELSE "unconfirmed")
  /\ UNCHANGED <<route, thread, work, handle, answers, due>>

-----------------------------------------------------------------------------
WorkerStep ==
  \/ Spawn \/ Register \/ CommunicateReturns \/ CommunicateExpires \/ Release
  \/ WorkerReturns \/ LaneNoted \/ RemoteStarts \/ Addressed \/ Poll \/ PollFails
  \/ PhaseWritten("worker")

StopStep(c) ==
  \/ StopReads(c) \/ ServerAnswers(c) \/ StopHears(c) \/ StopStopsWaiting(c)
  \/ LateAnswer(c) \/ Terminate(c) \/ StopConfirms(c) \/ StopStopsConfirming(c)
  \/ Confirmed(c) \/ LateConfirms(c) \/ LateUnconfirmed(c)

WorkNext ==
  \/ WorkerStep
  \/ WorkEnds
  \/ \E c \in Stops : StopStep(c)
  \/ \E h \in Hooks : HookReads(h) \/ PhaseWritten(h)

WorkSpec == WorkInit /\ [][WorkNext]_workVars

\* Threads run, waits are bounded, and polling and a POST have a time budget.
\* The work itself, the operator and the hooks owe nothing.
WorkFairness ==
  /\ WF_workVars(WorkerStep)
  /\ SF_workVars(PollFails)
  /\ \A c \in Stops : WF_workVars(calls[c].at # "idle" /\ StopStep(c))

FairWork == WorkSpec /\ WorkFairness

-----------------------------------------------------------------------------
(* Properties.                                                             *)

\* A receipt never claims more than happened: "exited" only of a process that
\* is gone, "finished" only of a run that landed, "accepted" only when the
\* server took a stop of this run.  Nor does the phase report an end of work
\* that goes on, or a stop of work that ended by itself.
ReceiptsAreTrue ==
  /\ run.receipt = "exited" => work \in Ended
  /\ run.receipt = "finished" => run.status \in Landings
  /\ run.receipt = "accepted" => \E c \in Stops : answers[c] = "ok"
  /\ run.phase \in Ends => work \in Ended
  /\ run.phase = "stopped" => work = "cancelled"

\* Every run lands, whatever its process, its server, its stops and its hooks
\* do: its resource keys do not stay taken.
EveryRunLands == thread # "new" ~> run.status \in Landings

\* A receipt that was promised is delivered.
PromisesAreKept == run.receipt = "pending" ~> run.receipt # "pending"

\* What every state of a run keeps.
WorkSafe == WorkTypeOK /\ ReceiptsAreTrue

\* Every wait ends: runs land, and receipts that were promised are delivered.
EveryWaitEnds == EveryRunLands /\ PromisesAreKept

\* A phase that reports an end is not rewritten.  (Refuted: set_run_phase
\* decides on a phase it read before another thread wrote the end.)
EndsAreSticky ==
  [][run.phase \in Ends => run'.phase = run.phase]_workVars
=============================================================================
