---------------------------- MODULE CodexJobProofs ----------------------------
(***************************************************************************)
(* Proofs about CodexJob, for every number of processes, runs, controls    *)
(* and approvals, and however many answers are lost, runs crash and leases *)
(* lapse: the work is given to Codex once, the recorded end is the turn's  *)
(* own and stays, and no control and no approval is given twice.           *)
(*                                                                         *)
(* A step of a run is written by the holder of the lease only.  What holds *)
(* the argument together is what the record says while a run stands        *)
(* between a write and what it wrote of (HolderInv), and that nobody       *)
(* stands there while the record says that it was not begun (AskInv).      *)
(***************************************************************************)
EXTENDS CodexJob, TLAPS

JobStates == {"prepared", "thread_starting", "thread_ready", "turn_starting", "running",
              "unknown"} \cup Ends
Places == {"idle", "claimed", "thread", "askThread", "threadAnswered", "ready", "askTurn",
           "turnAnswered", "read", "loop", "fail", "release"}
Receipts == {"none", "unknown", "queued"}
Events == [end: Ends \cup {"none"}, ask: 0 .. MaxAsks]
Jobs == [state: JobStates, thread: BOOLEAN, turn: BOOLEAN, lease: Nat, held: BOOLEAN,
         controls: [SteerActions -> Receipts]]
RunnerStates == [at: Places, lease: Nat, state: JobStates \cup {"none"}, wire: Seq(Events),
                 answer: {"none", "taken"}, pending: SUBSET (0 .. MaxAsks),
                 resolved: SUBSET (0 .. MaxAsks), control: SteerActions \cup {"none"},
                 cancelSent: BOOLEAN]
Threads == [threads: Nat, turns: Nat, turn: Ends \cup {"none", "running"},
            in: Runners \cup {"none"}, asked: 0 .. MaxAsks, waits: 0 .. MaxAsks,
            told: [1 .. MaxAsks -> Nat], steered: [SteerActions -> Nat]]

Typed ==
  /\ job \in Jobs /\ runner \in [Runners -> RunnerStates] /\ codex \in Threads
  /\ order \in [authorized: BOOLEAN, cancelled: BOOLEAN] /\ runs \in Nat

\* A lease is of one run.
LeaseInv ==
  /\ job.lease <= runs /\ (job.held => job.lease > 0)
  /\ \A w \in Runners :
       /\ runner[w].lease <= runs
       /\ runner[w].at = "idle" <=> runner[w].lease = 0
  /\ \A v, w \in Runners : runner[v].lease = runner[w].lease /\ runner[v].lease > 0 => v = w

\* What the record says while the holder of the lease stands somewhere.
HolderInv ==
  \A w \in Runners : Holds(w) =>
    LET at == runner[w].at
    IN  /\ at \in {"claimed", "read"} => job.state = runner[w].state
        /\ at = "read" => job.state \notin Ends
        /\ at = "thread" => job.state = "prepared"
        /\ at \in {"askThread", "threadAnswered"} => job.state = "thread_starting"
        /\ at = "ready" => job.state = "thread_ready"
        /\ at \in {"askTurn", "turnAnswered"} => job.state = "turn_starting"
        /\ at = "loop" => job.state \in {"running"} \cup Ends

\* Nobody asks for what the record does not say was begun, and one asks who asks.
Asking(w, at) == runner[w].at = at
AskInv ==
  /\ job.state = "prepared" => codex.threads = 0
  /\ \A w \in Runners : Asking(w, "askThread") =>
       /\ codex.threads = 0 /\ job.state # "prepared"
       /\ \A v \in Runners : Asking(v, "askThread") => v = w
  /\ job.state \in {"prepared", "thread_starting", "thread_ready"} => codex.turns = 0
  /\ \A w \in Runners : Asking(w, "askTurn") =>
       /\ codex.turns = 0 /\ job.state \in {"turn_starting", "unknown"}
       /\ \A v \in Runners : Asking(v, "askTurn") => v = w
  /\ \A w \in Runners : Asking(w, "turnAnswered") => codex.turns > 0
  /\ codex.turns = 0 <=> codex.turn = "none"
  /\ \A w \in Runners :
       runner[w].at \in {"read", "ready", "askTurn", "turnAnswered"} => job.thread

\* What has arrived of a turn is what it came to, and it arrives at a run in progress.
WireInv ==
  /\ \A w \in Runners : \A k \in 1 .. Len(runner[w].wire) :
       runner[w].wire[k].end \in Ends => codex.turn = runner[w].wire[k].end
  /\ \A w \in Runners : runner[w].at = "idle" => runner[w].wire = <<>>
  /\ codex.turn = "running" /\ codex.in \in Runners => runner[codex.in].at # "idle"

\* An approval is in one place, and not answered before it has left it.
Wired(w, k, n) == k \in 1 .. Len(runner[w].wire) /\ runner[w].wire[k].ask = n
Pends(w, n) == n \in runner[w].pending
ApprovalInv ==
  /\ codex.waits <= codex.asked
  /\ \A n \in 1 .. MaxAsks : codex.told[n] <= 1 /\ (codex.told[n] > 0 => n <= codex.asked)
  /\ \A n \in 1 .. MaxAsks, w \in Runners :
       /\ Pends(w, n) =>
            /\ n <= codex.asked /\ codex.told[n] = 0
            /\ \A v \in Runners : Pends(v, n) => v = w
       /\ \A k \in Nat : Wired(w, k, n) =>
            /\ n <= codex.asked /\ codex.told[n] = 0
            /\ \A v \in Runners : ~Pends(v, n)
            /\ \A v \in Runners, j \in Nat : Wired(v, j, n) => v = w /\ j = k

\* A control that has no receipt was not sent, and one run sends it.
Sends(w, a) == runner[w].control = a
ControlInv ==
  /\ \A a \in SteerActions :
       /\ codex.steered[a] <= 1
       /\ job.controls[a] = "queued" => codex.steered[a] = 1
       /\ job.controls[a] = "none" => codex.steered[a] = 0 /\ \A w \in Runners : ~Sends(w, a)
       /\ \A v, w \in Runners : Sends(v, a) /\ Sends(w, a) => v = w
       /\ \A w \in Runners : Sends(w, a) /\ runner[w].answer = "none" => codex.steered[a] = 0
       /\ \A w \in Runners : Sends(w, a) /\ runner[w].answer = "taken" => codex.steered[a] = 1
  /\ \A w \in Runners : runner[w].answer = "taken" => runner[w].control \in SteerActions

RecordInv == GivenOnce /\ EndIsTrue /\ (job.turn => job.thread)

CodexInv ==
  Typed /\ LeaseInv /\ HolderInv /\ AskInv /\ WireInv /\ ApprovalInv /\ ControlInv /\ RecordInv

-----------------------------------------------------------------------------
(* What a write, a move and an idle run do to the state.                   *)

\* The record, field by field; a step that says no more keeps the controls.
JobIs(state, thread, turn, lease, held) ==
  /\ job' \in Jobs /\ job'.state = state /\ job'.thread = thread /\ job'.turn = turn
  /\ job'.lease = lease /\ job'.held = held /\ job'.controls = job.controls
JobSame == JobIs(job.state, job.thread, job.turn, job.lease, job.held)

\* The record that is not written stays.
LEMMA JobUnwritten ==
  ASSUME job \in Jobs, UNCHANGED job
  PROVE  JobSame
BY DEF JobSame, JobIs

\* A state.
LEMMA WritesState ==
  ASSUME job \in Jobs, NEW s \in JobStates, Writes([state |-> s])
  PROVE  JobIs(s, job.thread, job.turn, job.lease, job.held)
<1>1. DOMAIN job = {"state", "thread", "turn", "lease", "held", "controls"}
  BY DEF Jobs
<1>2. DOMAIN [state |-> s] = {"state"}
  OBVIOUS
<1>3. job' = [f \in {"state", "thread", "turn", "lease", "held", "controls"} |->
               IF f \in {"state"} THEN [state |-> s][f] ELSE job[f]]
  BY <1>1, <1>2 DEF Writes
<1>4. /\ job'.state = s
      /\ job'.thread = job.thread /\ job'.turn = job.turn
      /\ job'.lease = job.lease /\ job'.held = job.held /\ job'.controls = job.controls
  BY <1>3
<1>5. job' \in Jobs
  BY <1>3, <1>4 DEF Jobs
<1> QED
  BY <1>4, <1>5 DEF JobIs

\* A lease that is taken.
LEMMA WritesLease ==
  ASSUME job \in Jobs, NEW n \in Nat, Writes([lease |-> n, held |-> TRUE])
  PROVE  JobIs(job.state, job.thread, job.turn, n, TRUE)
<1>1. DOMAIN job = {"state", "thread", "turn", "lease", "held", "controls"}
  BY DEF Jobs
<1>2. DOMAIN [lease |-> n, held |-> TRUE] = {"lease", "held"}
  OBVIOUS
<1>3. job' = [f \in {"state", "thread", "turn", "lease", "held", "controls"} |->
               IF f \in {"lease", "held"} THEN [lease |-> n, held |-> TRUE][f] ELSE job[f]]
  BY <1>1, <1>2 DEF Writes
<1>4. /\ job'.lease = n /\ job'.held = TRUE
      /\ job'.state = job.state /\ job'.thread = job.thread /\ job'.turn = job.turn
      /\ job'.controls = job.controls
  BY <1>3
<1>5. job' \in Jobs
  BY <1>3, <1>4 DEF Jobs
<1> QED
  BY <1>4, <1>5 DEF JobIs

\* A lease that lapses.
LEMMA WritesHeld ==
  ASSUME job \in Jobs, Writes([held |-> FALSE])
  PROVE  JobIs(job.state, job.thread, job.turn, job.lease, FALSE)
<1>1. DOMAIN job = {"state", "thread", "turn", "lease", "held", "controls"}
  BY DEF Jobs
<1>2. DOMAIN [held |-> FALSE] = {"held"}
  OBVIOUS
<1>3. job' = [f \in {"state", "thread", "turn", "lease", "held", "controls"} |->
               IF f \in {"held"} THEN [held |-> FALSE][f] ELSE job[f]]
  BY <1>1, <1>2 DEF Writes
<1>4. /\ job'.held = FALSE
      /\ job'.state = job.state /\ job'.thread = job.thread /\ job'.turn = job.turn
      /\ job'.lease = job.lease /\ job'.controls = job.controls
  BY <1>3
<1>5. job' \in Jobs
  BY <1>3, <1>4 DEF Jobs
<1> QED
  BY <1>4, <1>5 DEF JobIs

\* The thread.
LEMMA WritesThread ==
  ASSUME job \in Jobs, NEW s \in JobStates, Writes([thread |-> TRUE, state |-> s])
  PROVE  JobIs(s, TRUE, job.turn, job.lease, job.held)
<1>1. DOMAIN job = {"state", "thread", "turn", "lease", "held", "controls"}
  BY DEF Jobs
<1>2. DOMAIN [thread |-> TRUE, state |-> s] = {"thread", "state"}
  OBVIOUS
<1>3. job' = [f \in {"state", "thread", "turn", "lease", "held", "controls"} |->
               IF f \in {"thread", "state"} THEN [thread |-> TRUE, state |-> s][f] ELSE job[f]]
  BY <1>1, <1>2 DEF Writes
<1>4. /\ job'.thread = TRUE /\ job'.state = s
      /\ job'.turn = job.turn
      /\ job'.lease = job.lease /\ job'.held = job.held /\ job'.controls = job.controls
  BY <1>3
<1>5. job' \in Jobs
  BY <1>3, <1>4 DEF Jobs
<1> QED
  BY <1>4, <1>5 DEF JobIs

\* The turn.
LEMMA WritesTurn ==
  ASSUME job \in Jobs, NEW s \in JobStates, Writes([turn |-> TRUE, state |-> s])
  PROVE  JobIs(s, job.thread, TRUE, job.lease, job.held)
<1>1. DOMAIN job = {"state", "thread", "turn", "lease", "held", "controls"}
  BY DEF Jobs
<1>2. DOMAIN [turn |-> TRUE, state |-> s] = {"turn", "state"}
  OBVIOUS
<1>3. job' = [f \in {"state", "thread", "turn", "lease", "held", "controls"} |->
               IF f \in {"turn", "state"} THEN [turn |-> TRUE, state |-> s][f] ELSE job[f]]
  BY <1>1, <1>2 DEF Writes
<1>4. /\ job'.turn = TRUE /\ job'.state = s
      /\ job'.thread = job.thread
      /\ job'.lease = job.lease /\ job'.held = job.held /\ job'.controls = job.controls
  BY <1>3
<1>5. job' \in Jobs
  BY <1>3, <1>4 DEF Jobs
<1> QED
  BY <1>4, <1>5 DEF JobIs

\* The controls.
LEMMA WritesControls ==
  ASSUME job \in Jobs, NEW c \in [SteerActions -> Receipts], Writes([controls |-> c])
  PROVE  /\ job' \in Jobs /\ job'.controls = c /\ job'.state = job.state
         /\ job'.thread = job.thread /\ job'.turn = job.turn
         /\ job'.lease = job.lease /\ job'.held = job.held
<1>1. DOMAIN job = {"state", "thread", "turn", "lease", "held", "controls"}
  BY DEF Jobs
<1>2. DOMAIN [controls |-> c] = {"controls"}
  OBVIOUS
<1>3. job' = [job EXCEPT !.controls = c]
  BY <1>1, <1>2 DEF Writes, Jobs
<1> QED
  BY <1>3 DEF Jobs

\* What a step may leave alone of a run.
SameRun(w) ==
  /\ runner'[w].at = runner[w].at /\ runner'[w].lease = runner[w].lease
  /\ runner'[w].state = runner[w].state
SameWire(w) == runner'[w].wire = runner[w].wire /\ runner'[w].pending = runner[w].pending
SameControl(w) == runner'[w].control = runner[w].control /\ runner'[w].answer = runner[w].answer
Others(w) ==
  /\ runner' \in [Runners -> RunnerStates]
  /\ \A v \in Runners : v # w => runner'[v] = runner[v]
GoesTo(w, at) ==
  /\ Others(w) /\ runner'[w].at = at
  /\ runner'[w].lease = runner[w].lease /\ runner'[w].state = runner[w].state
  /\ SameWire(w) /\ SameControl(w)

\* One run changes.
LEMMA OneChanges ==
  ASSUME runner \in [Runners -> RunnerStates], NEW w \in Runners, NEW r \in RunnerStates,
         runner' = [runner EXCEPT ![w] = r]
  PROVE  Others(w) /\ runner'[w] = r
BY DEF Others

\* A run goes on.
LEMMA Goes ==
  ASSUME runner \in [Runners -> RunnerStates], NEW w \in Runners, NEW at \in Places,
         RunnerGoes(w, at)
  PROVE  GoesTo(w, at)
<1>1. PICK q \in RunnerStates : q = runner[w]
  OBVIOUS
<1>2. PICK r \in RunnerStates : r = [q EXCEPT !.at = at]
  BY DEF RunnerStates
<1>3. runner' = [runner EXCEPT ![w] = r]
  BY <1>1, <1>2 DEF RunnerGoes
<1>4. /\ r.at = at /\ r.lease = q.lease /\ r.state = q.state /\ r.wire = q.wire
      /\ r.pending = q.pending /\ r.control = q.control /\ r.answer = q.answer
  BY <1>2 DEF RunnerStates
<1> QED
  BY <1>1, <1>3, <1>4, OneChanges DEF GoesTo, SameWire, SameControl

\* No event has arrived.
LEMMA NoEvents == <<>> \in Seq(Events)
OBVIOUS

\* A run is over.
LEMMA Idles ==
  ASSUME runner \in [Runners -> RunnerStates], NEW w \in Runners,
         runner' = [runner EXCEPT ![w] = RunnerIdle]
  PROVE  /\ Others(w) /\ runner'[w].at = "idle" /\ runner'[w].lease = 0
         /\ runner'[w].wire = <<>> /\ runner'[w].pending = {}
         /\ runner'[w].control = "none" /\ runner'[w].answer = "none"
<1>1. PICK r \in RunnerStates : r = RunnerIdle
  BY NoEvents DEF RunnerStates, RunnerIdle, Places
<1>2. runner' = [runner EXCEPT ![w] = r]
  BY <1>1
<1>3. /\ r.at = "idle" /\ r.lease = 0 /\ r.wire = <<>> /\ r.pending = {}
      /\ r.control = "none" /\ r.answer = "none"
  BY <1>1 DEF RunnerIdle
<1>4. Others(w) /\ runner'[w] = r
  BY <1>2, OneChanges
<1> QED
  BY <1>3, <1>4

-----------------------------------------------------------------------------
(* How the runs, the record and the turn move in a step.                   *)

\* What a step keeps: of the record, of the turn, of a run that has not gone on.
JobKept ==
  /\ job' \in Jobs /\ job'.state = job.state /\ job'.thread = job.thread /\ job'.turn = job.turn
  /\ job'.lease = job.lease /\ (job'.held => job.held)
TurnSame ==
  /\ codex' \in Threads /\ codex'.threads = codex.threads /\ codex'.turns = codex.turns
  /\ codex'.turn = codex.turn
TurnKept ==
  /\ codex' \in Threads /\ codex'.threads = codex.threads /\ codex'.turns = codex.turns
  /\ codex'.turn = codex.turn \/ (codex.turn = "running" /\ codex'.turn \in Ends)

\* A run begins, rests, goes on, asks, and notes.
Begins(w) ==
  /\ runner[w].at = "idle" /\ runner'[w].at = "claimed" /\ runner'[w].lease = runs + 1
  /\ runner'[w].state = job.state /\ runs' = runs + 1 /\ TurnSame
  /\ JobIs(job.state, job.thread, job.turn, runs + 1, TRUE)
Rests(w) ==
  /\ runner'[w].at = "idle" /\ runner'[w].lease = 0 /\ runs' = runs /\ TurnKept
  /\ JobSame \/ JobIs(job.state, job.thread, job.turn, 0, FALSE)
Walks(w) ==
  /\ runner'[w].lease = runner[w].lease /\ runner'[w].state = runner[w].state
  /\ runs' = runs /\ TurnSame /\ JobSame
  /\ runner[w].at # "idle"
  /\ \/ runner'[w].at \in {"fail", "release"}
     \/ runner[w].at = "claimed" /\ runner'[w].at = "thread" /\ runner[w].state = "prepared"
     \/ /\ runner[w].at = "claimed" /\ runner'[w].at = "read"
        /\ runner[w].state \notin Ends /\ job.thread
     \/ runner[w].at = "read" /\ runner'[w].at = "ready" /\ job.state = "thread_ready"
Asks(w) ==
  /\ runner'[w].lease = runner[w].lease /\ runner'[w].state = runner[w].state
  /\ runs' = runs /\ JobSame /\ codex' \in Threads
  /\ \/ /\ runner[w].at = "askThread" /\ runner'[w].at \in {"threadAnswered", "fail"}
        /\ codex'.threads = codex.threads + 1 /\ codex'.turns = codex.turns
        /\ codex'.turn = codex.turn
     \/ /\ runner[w].at = "askTurn" /\ runner'[w].at \in {"turnAnswered", "fail"}
        /\ codex'.threads = codex.threads /\ codex'.turns = codex.turns + 1
        /\ codex'.turn = "running"
Says(state) == JobIs(state, job.thread, job.turn, job.lease, job.held)
Notes(w) ==
  /\ runner'[w].lease = runner[w].lease /\ runner'[w].state = runner[w].state
  /\ runs' = runs /\ TurnSame /\ Holds(w)
  /\ \/ /\ runner[w].at = "thread" /\ runner'[w].at = "askThread" /\ Says("thread_starting")
     \/ /\ runner[w].at = "ready" /\ runner'[w].at = "askTurn" /\ Says("turn_starting")
     \/ /\ runner[w].at = "threadAnswered" /\ runner'[w].at = "ready"
        /\ JobIs("thread_ready", TRUE, job.turn, job.lease, job.held)
     \/ /\ runner[w].at = "turnAnswered" /\ runner'[w].at = "loop"
        /\ JobIs("running", job.thread, TRUE, job.lease, job.held)
     \/ /\ runner[w].at \in {"claimed", "ready"} /\ runner'[w].at = "release"
        /\ job.state \in {"prepared", "thread_ready"} /\ Says("interrupted")
     \/ /\ runner[w].at = "read" /\ codex.turn # "none"
        /\ \E s \in {"running"} \cup Ends :
             /\ JobIs(s, job.thread, TRUE, job.lease, job.held) /\ (s \in Ends => s = codex.turn)
             /\ runner'[w].at \in {"release", "fail"} \/ (runner'[w].at = "loop" /\ s = "running")
     \/ /\ runner[w].at \in {"loop", "fail"} /\ job.state \notin Ends
        /\ \/ runner[w].at = "loop" /\ runner'[w].at = "loop"
           \/ runner[w].at = "fail" /\ runner'[w].at = "release"
        /\ \E s \in {"unknown"} \cup Ends :
             /\ Says(s) /\ (s \in Ends => s = codex.turn)
             /\ s = "unknown" => runner[w].at = "fail"

RunStep ==
  /\ runner' \in [Runners -> RunnerStates] /\ runs' \in Nat
  /\ order' \in [authorized: BOOLEAN, cancelled: BOOLEAN]
  /\ \/ (\A v \in Runners : SameRun(v)) /\ JobKept /\ TurnKept /\ runs' = runs
     \/ \E w \in Runners :
          /\ \A v \in Runners : v # w => SameRun(v)
          /\ Begins(w) \/ Rests(w) \/ Walks(w) \/ Asks(w) \/ Notes(w)

\* A run goes on and no more is done.
LEMMA WalkingIsStep ==
  ASSUME Typed, NEW w \in Runners, NEW at \in Places, RunnerGoes(w, at),
         UNCHANGED <<job, codex, order, runs>>, runner[w].at # "idle",
         \/ at \in {"fail", "release"}
         \/ runner[w].at = "claimed" /\ at = "thread" /\ runner[w].state = "prepared"
         \/ /\ runner[w].at = "claimed" /\ at = "read"
            /\ runner[w].state \notin Ends /\ job.thread
         \/ runner[w].at = "read" /\ at = "ready" /\ job.state = "thread_ready"
  PROVE  RunStep
<1>1. GoesTo(w, at)
  BY Goes DEF Typed
<1>2. JobSame /\ TurnSame
  BY JobUnwritten DEF Typed, TurnSame
<1>3. Walks(w)
  BY <1>1, <1>2 DEF Walks, GoesTo
<1> QED
  BY <1>1, <1>3 DEF RunStep, GoesTo, Others, SameRun, Typed

\* A run notes something as it goes on.
LEMMA NotingIsStep ==
  ASSUME Typed, NEW w \in Runners, NEW at \in Places, GoesTo(w, at), Notes(w), UNCHANGED order
  PROVE  RunStep
BY DEF RunStep, GoesTo, Others, SameRun, Typed, Notes

\* The runs stand where they stood.
LEMMA StandingIsStep ==
  ASSUME Typed, runner' \in [Runners -> RunnerStates], \A v \in Runners : SameRun(v),
         JobKept, TurnKept, UNCHANGED runs,
         order' \in [authorized: BOOLEAN, cancelled: BOOLEAN]
  PROVE  RunStep
BY DEF RunStep, Typed

\* An event arrives at a run.
LEMMA Arrives ==
  ASSUME runner \in [Runners -> RunnerStates], NEW w \in Runners, NEW e \in Events, Emits(w, e)
  PROVE  /\ Others(w) /\ SameRun(w) /\ SameControl(w)
         /\ runner'[w].wire = Append(runner[w].wire, e) /\ runner'[w].pending = runner[w].pending
<1>1. PICK q \in RunnerStates : q = runner[w]
  OBVIOUS
<1>2. PICK t \in Seq(Events) : t = q.wire
  BY DEF RunnerStates
<1>7. Append(t, e) \in Seq(Events)
  OBVIOUS
<1>3. PICK s \in Seq(Events) : s = Append(q.wire, e)
  BY <1>2, <1>7
<1>4. PICK r \in RunnerStates : r = [q EXCEPT !.wire = s]
  BY DEF RunnerStates
<1>5. runner' = [runner EXCEPT ![w] = r]
  BY <1>1, <1>3, <1>4 DEF Emits
<1>6. /\ r.at = q.at /\ r.lease = q.lease /\ r.state = q.state /\ r.wire = s
      /\ r.pending = q.pending /\ r.control = q.control /\ r.answer = q.answer
  BY <1>4 DEF RunnerStates
<1> QED
  BY <1>1, <1>3, <1>5, <1>6, OneChanges DEF SameRun, SameControl

\* A run takes an event from its wire.
LEMMA Takes ==
  ASSUME runner \in [Runners -> RunnerStates], NEW w \in Runners, NEW at \in Places,
         NEW P \in SUBSET (0 .. MaxAsks), runner[w].wire # <<>>,
         runner' = [runner EXCEPT ![w].wire = Tail(@), ![w].at = at, ![w].pending = P]
  PROVE  /\ Others(w) /\ runner'[w].at = at /\ SameControl(w)
         /\ runner'[w].lease = runner[w].lease /\ runner'[w].state = runner[w].state
         /\ runner'[w].wire = Tail(runner[w].wire) /\ runner'[w].pending = P
<1>1. PICK q \in RunnerStates : q = runner[w]
  OBVIOUS
<1>2. PICK t \in Seq(Events) : t = q.wire /\ t # <<>>
  BY <1>1 DEF RunnerStates
<1>3. Tail(t) \in Seq(Events)
  BY <1>2
<1>4. PICK s \in Seq(Events) : s = Tail(q.wire)
  BY <1>2, <1>3
<1>5. PICK r \in RunnerStates : r = [q EXCEPT !.wire = s, !.at = at, !.pending = P]
  BY DEF RunnerStates
<1>6. runner' = [runner EXCEPT ![w] = r]
  BY <1>1, <1>4, <1>5
<1>7. /\ r.at = at /\ r.lease = q.lease /\ r.state = q.state /\ r.wire = s
      /\ r.pending = P /\ r.control = q.control /\ r.answer = q.answer
  BY <1>5 DEF RunnerStates
<1> QED
  BY <1>1, <1>4, <1>6, <1>7, OneChanges DEF SameControl

\* The first event of a wire, and what handling it does.
Handled(w, e) ==
  /\ Others(w) /\ SameControl(w) /\ runner[w].at = "loop" /\ runner[w].wire # <<>>
  /\ runner'[w].lease = runner[w].lease /\ runner'[w].state = runner[w].state
  /\ runner'[w].wire = Tail(runner[w].wire)
  /\ runner'[w].pending \subseteq runner[w].pending \cup {e.ask}
  /\ UNCHANGED <<codex, order, runs>> /\ job.state \notin Ends
  /\ \/ runner'[w].at = "loop" /\ e.end \in Ends /\ Holds(w) /\ Writes([state |-> e.end])
     \/ runner'[w].at \in {"loop", "fail"} /\ UNCHANGED job
\* An event is handled so.
LEMMA Handles ==
  ASSUME Typed, NEW w \in Runners, HandleEvent(w)
  PROVE  \E e \in Events : e = runner[w].wire[1] /\ Handled(w, e)
<1>0. /\ runner[w].at = "loop" /\ runner[w].wire # <<>> /\ job.state \notin Ends
      /\ UNCHANGED <<codex, order, runs>>
  BY DEF HandleEvent
<1>1. PICK q \in RunnerStates : q = runner[w]
  BY DEF Typed
<1>2. PICK e \in Events : e = runner[w].wire[1] /\ e = Head(runner[w].wire)
  <2>1. PICK t \in Seq(Events) : t = q.wire /\ t # <<>>
    BY <1>0, <1>1 DEF RunnerStates
  <2>2. t[1] \in Events /\ Head(t) = t[1]
    BY <2>1
  <2> QED
    BY <1>1, <2>1, <2>2
<1>3. /\ q.pending \in SUBSET (0 .. MaxAsks) /\ q.resolved \in SUBSET (0 .. MaxAsks)
      /\ e.ask \in 0 .. MaxAsks
  BY DEF RunnerStates, Events
<1>4. PICK P \in SUBSET (0 .. MaxAsks), at \in {"loop", "fail"} :
        /\ runner' = [runner EXCEPT ![w].wire = Tail(@), ![w].at = at, ![w].pending = P]
        /\ P \subseteq q.pending \cup {e.ask}
        /\ \/ at = "loop" /\ e.end \in Ends /\ Holds(w) /\ Writes([state |-> e.end])
           \/ UNCHANGED job
  <2>1. CASE e.end \in Ends /\ Holds(w)
    <3>1. PICK P \in SUBSET (0 .. MaxAsks) : P = {}
      OBVIOUS
    <3>2. /\ runner' = [runner EXCEPT ![w].wire = Tail(@), ![w].at = "loop", ![w].pending = P]
          /\ Writes([state |-> e.end])
      BY <1>2, <2>1, <3>1 DEF HandleEvent
    <3> QED
      BY <2>1, <3>1, <3>2
  <2>2. CASE e.end \in Ends /\ ~Holds(w)
    <3>1. PICK P \in SUBSET (0 .. MaxAsks) : P = q.pending
      BY <1>3
    <3>2. /\ runner' = [runner EXCEPT ![w].wire = Tail(@), ![w].at = "fail", ![w].pending = P]
          /\ UNCHANGED job
      BY <1>1, <1>2, <2>2, <3>1 DEF HandleEvent
    <3> QED
      BY <3>1, <3>2
  <2>3. CASE e.end \notin Ends
    <3>1. PICK P \in SUBSET (0 .. MaxAsks) : P = q.pending \cup ({e.ask} \ q.resolved)
      BY <1>3
    <3>2. /\ runner' = [runner EXCEPT ![w].wire = Tail(@), ![w].at = "loop", ![w].pending = P]
          /\ UNCHANGED job
      BY <1>1, <1>2, <2>3, <3>1 DEF HandleEvent
    <3> QED
      BY <3>1, <3>2
  <2> QED
    BY <2>1, <2>2, <2>3
<1>5. at \in Places /\ runner \in [Runners -> RunnerStates]
  BY DEF Places, Typed
<1>6. /\ Others(w) /\ runner'[w].at = at /\ SameControl(w)
      /\ runner'[w].lease = runner[w].lease /\ runner'[w].state = runner[w].state
      /\ runner'[w].wire = Tail(runner[w].wire) /\ runner'[w].pending = P
  BY <1>0, <1>4, <1>5, Takes
<1> QED
  BY <1>0, <1>1, <1>2, <1>4, <1>6 DEF Handled

-----------------------------------------------------------------------------
(* What moves on the wires, among the approvals and among the controls.    *)

SameTalk == codex'.asked = codex.asked /\ codex'.told = codex.told
OneTalks(w) == \A v \in Runners : v # w => SameWire(v)
EndArrives(w) ==
  /\ SameTalk /\ OneTalks(w) /\ runner'[w].pending = runner[w].pending
  /\ \E s \in Ends :
       /\ codex'.turn = s /\ codex.turn = "running"
       /\ runner'[w].wire = Append(runner[w].wire, [end |-> s, ask |-> 0])
AskArrives(w) ==
  /\ OneTalks(w) /\ runner'[w].pending = runner[w].pending
  /\ codex'.asked = codex.asked + 1 /\ codex'.told = codex.told
  /\ runner'[w].wire = Append(runner[w].wire, [end |-> "none", ask |-> codex.asked + 1])
EventTaken(w) ==
  /\ SameTalk /\ OneTalks(w) /\ runner[w].wire # <<>>
  /\ runner'[w].wire = Tail(runner[w].wire)
  /\ runner'[w].pending \subseteq runner[w].pending \cup {runner[w].wire[1].ask}
Told(w, n) ==
  /\ Pends(w, n) /\ OneTalks(w) /\ codex'.asked = codex.asked
  /\ runner'[w].wire = runner[w].wire /\ runner'[w].pending = runner[w].pending \ {n}
  /\ codex'.told[n] \in {codex.told[n], codex.told[n] + 1}
  /\ \A m \in 1 .. MaxAsks : m # n => codex'.told[m] = codex.told[m]
Wireless ==
  /\ SameTalk
  /\ \A v \in Runners :
       \/ SameWire(v)
       \/ runner'[v].wire = <<>> /\ runner'[v].pending = {}

WireStep ==
  /\ runner' \in [Runners -> RunnerStates] /\ codex' \in Threads
  /\ codex.turn \in Ends => codex'.turn = codex.turn
  /\ codex'.waits \in {codex.waits, 0, codex'.asked} /\ codex'.asked >= codex.asked
  /\ \A v \in Runners :
       /\ runner'[v].at = "idle" =>
            runner'[v].wire = <<>> \/ (runner[v].at = "idle" /\ SameWire(v))
       /\ codex'.turn = "running" /\ codex'.in = v => runner'[v].at # "idle"
  /\ \/ Wireless
     \/ \E w \in Runners : EndArrives(w) \/ AskArrives(w) \/ EventTaken(w)
     \/ \E w \in Runners, n \in 1 .. MaxAsks : Told(w, n)

\* A control is named in its receipt, reaches Codex, and is acknowledged.
Named(w, a) ==
  /\ job.controls[a] = "none" /\ job'.controls = [job.controls EXCEPT ![a] = "unknown"]
  /\ codex'.steered = codex.steered /\ runner[w].control = "none"
  /\ runner'[w].control = a /\ runner'[w].answer = runner[w].answer
Reaches(w, a) ==
  /\ Sends(w, a) /\ runner[w].answer = "none" /\ job'.controls = job.controls
  /\ codex'.steered = [codex.steered EXCEPT ![a] = @ + 1]
  /\ \/ runner'[w].control = a /\ runner'[w].answer = "taken"
     \/ runner'[w].control = "none" /\ runner'[w].answer = "none"
Acked(w, a) ==
  /\ Sends(w, a) /\ runner[w].answer = "taken" /\ codex'.steered = codex.steered
  /\ \/ job'.controls = job.controls
     \/ job'.controls = [job.controls EXCEPT ![a] = "queued"]
  /\ runner'[w].control = "none" /\ runner'[w].answer = "none"
Uncontrolled ==
  /\ job'.controls = job.controls /\ codex'.steered = codex.steered
  /\ \A v \in Runners :
       SameControl(v) \/ (runner'[v].control = "none" /\ runner'[v].answer = "none")

ControlStep ==
  /\ job' \in Jobs /\ runner' \in [Runners -> RunnerStates] /\ codex' \in Threads
  /\ \/ Uncontrolled
     \/ \E w \in Runners, a \in SteerActions :
          /\ \A v \in Runners : v # w => SameControl(v)
          /\ Named(w, a) \/ Reaches(w, a) \/ Acked(w, a)

\* A run that goes on and gives nothing to the wires, the approvals and the controls.
TurnMoves ==
  /\ codex' \in Threads /\ SameTalk /\ codex'.steered = codex.steered
  /\ codex'.waits \in {codex.waits, 0}
  /\ codex.turn \in Ends => codex'.turn = codex.turn
\* Such a run is still, but for where it stands.
LEMMA GoingIsQuiet ==
  ASSUME CodexInv, NEW w \in Runners, NEW at \in Places \ {"idle"}, GoesTo(w, at),
         TurnMoves, job' \in Jobs, job'.controls = job.controls,
         codex'.turn = "running" =>
           codex'.in = w \/ (codex.turn = "running" /\ codex'.in = codex.in)
  PROVE  WireStep /\ ControlStep
<1>1. /\ runner' \in [Runners -> RunnerStates] /\ \A v \in Runners : SameWire(v) /\ SameControl(v)
      /\ runner'[w].at # "idle"
      /\ \A v \in Runners : v # w => runner'[v] = runner[v]
  BY DEF GoesTo, Others, SameWire, SameControl
<1>2. WireStep
  <2>1. \A v \in Runners :
          /\ runner'[v].at = "idle" => runner[v].at = "idle" /\ SameWire(v)
          /\ codex'.turn = "running" /\ codex'.in = v => runner'[v].at # "idle"
    BY <1>1 DEF CodexInv, WireInv
  <2>2. codex'.asked >= codex.asked
    BY DEF TurnMoves, SameTalk, CodexInv, Typed, Threads
  <2> QED
    BY <1>1, <2>1, <2>2 DEF WireStep, Wireless, TurnMoves
<1>3. ControlStep
  BY <1>1 DEF ControlStep, Uncontrolled, TurnMoves
<1> QED
  BY <1>2, <1>3

\* A run that is over.
LEMMA IdlingIsQuiet ==
  ASSUME CodexInv, NEW w \in Runners, Others(w), runner'[w].wire = <<>>,
         runner'[w].pending = {}, runner'[w].control = "none", runner'[w].answer = "none",
         TurnMoves, job' \in Jobs, job'.controls = job.controls,
         codex'.turn = "running" =>
           /\ codex.turn = "running" /\ codex'.in \in {codex.in, "none"}
           /\ runner'[w].at = "idle" => codex'.in # w
  PROVE  WireStep /\ ControlStep
<1>1. "none" \notin Runners /\ runner' \in [Runners -> RunnerStates]
  BY CodexAssumption DEF Others
<1>2. \A v \in Runners : v # w => runner'[v] = runner[v] /\ SameWire(v) /\ SameControl(v)
  BY DEF Others, SameWire, SameControl
<1>3. WireStep
  <2>1. \A v \in Runners :
          /\ runner'[v].at = "idle" =>
               runner'[v].wire = <<>> \/ (runner[v].at = "idle" /\ SameWire(v))
          /\ codex'.turn = "running" /\ codex'.in = v => runner'[v].at # "idle"
    <3> SUFFICES ASSUME NEW v \in Runners
                 PROVE  /\ runner'[v].at = "idle" =>
                             runner'[v].wire = <<>> \/ (runner[v].at = "idle" /\ SameWire(v))
                        /\ codex'.turn = "running" /\ codex'.in = v => runner'[v].at # "idle"
      OBVIOUS
    <3>1. CASE v = w
      BY <3>1
    <3>2. CASE v # w
      BY <1>1, <1>2, <3>2 DEF CodexInv, WireInv
    <3> QED
      BY <3>1, <3>2
  <2>2. codex'.asked >= codex.asked
    BY DEF TurnMoves, SameTalk, CodexInv, Typed, Threads
  <2> QED
    BY <1>1, <1>2, <2>1, <2>2 DEF WireStep, Wireless, TurnMoves
<1>4. ControlStep
  BY <1>1, <1>2 DEF ControlStep, Uncontrolled, TurnMoves
<1> QED
  BY <1>3, <1>4

\* What is true of every step: how the runs, the wires and the controls move.
AllSteps == RunStep /\ WireStep /\ ControlStep

\* A run goes on and no more is done.
LEMMA Walking ==
  ASSUME CodexInv, NEW w \in Runners, NEW at \in Places \ {"idle"}, RunnerGoes(w, at),
         UNCHANGED <<job, codex, order, runs>>, runner[w].at # "idle",
         \/ at \in {"fail", "release"}
         \/ runner[w].at = "claimed" /\ at = "thread" /\ runner[w].state = "prepared"
         \/ /\ runner[w].at = "claimed" /\ at = "read"
            /\ runner[w].state \notin Ends /\ job.thread
         \/ runner[w].at = "read" /\ at = "ready" /\ job.state = "thread_ready"
  PROVE  AllSteps
<1>1. Typed
  BY DEF CodexInv
<1>2. RunStep
  BY <1>1, WalkingIsStep
<1>3. GoesTo(w, at)
  BY <1>1, Goes DEF Typed
<1>4. TurnMoves /\ job' \in Jobs /\ job'.controls = job.controls /\ codex' = codex
  BY <1>1 DEF Typed, TurnMoves, SameTalk
<1> QED
  BY <1>2, <1>3, <1>4, GoingIsQuiet DEF AllSteps

\* A run notes something and goes on.
LEMMA Noting ==
  ASSUME CodexInv, NEW w \in Runners, NEW at \in Places \ {"idle"}, GoesTo(w, at), Notes(w),
         job' \in Jobs, job'.controls = job.controls, UNCHANGED <<codex, order>>
  PROVE  AllSteps
<1>1. Typed
  BY DEF CodexInv
<1>2. RunStep
  BY <1>1, NotingIsStep
<1>4. TurnMoves /\ codex' = codex
  BY <1>1 DEF Typed, TurnMoves, SameTalk
<1> QED
  BY <1>2, <1>4, GoingIsQuiet DEF AllSteps

-----------------------------------------------------------------------------
(* What the other changes of a run and of the turn come to.                *)

\* The run that begins.
Claimed(w, l, s) ==
  runner' = [runner EXCEPT
    ![w] = [RunnerIdle EXCEPT !.at = "claimed", !.lease = l, !.state = s]]

\* A run begins.
LEMMA Claims ==
  ASSUME runner \in [Runners -> RunnerStates], NEW w \in Runners, NEW l \in Nat,
         NEW s \in JobStates,
         Claimed(w, l, s)
  PROVE  Others(w) /\ runner'[w].at = "claimed" /\ runner'[w].lease = l /\ runner'[w].state = s
         /\ runner'[w].wire = <<>> /\ runner'[w].pending = {}
         /\ runner'[w].control = "none" /\ runner'[w].answer = "none"
<1>1. PICK q \in RunnerStates : q = runner[w]
  OBVIOUS
<1>6. PICK i \in RunnerStates : i = RunnerIdle
  BY NoEvents DEF RunnerStates, RunnerIdle, Places
<1>2. PICK r \in RunnerStates : r = [RunnerIdle EXCEPT !.at = "claimed", !.lease = l, !.state = s]
  BY <1>6 DEF RunnerStates, Places
<1>3. runner' = [runner EXCEPT ![w] = r]
  BY <1>6, <1>1, <1>2 DEF Claimed
<1>4. /\ r.at = "claimed" /\ r.lease = l /\ r.state = s /\ r.wire = <<>> /\ r.pending = {}
      /\ r.control = "none" /\ r.answer = "none"
  BY <1>2 DEF RunnerStates, RunnerIdle
<1>5. Others(w) /\ runner'[w] = r
  BY <1>3, OneChanges
<1> QED
  BY <1>6, <1>1, <1>4, <1>5 DEF SameRun

\* An approval is taken from the pending ones.
LEMMA Answers ==
  ASSUME runner \in [Runners -> RunnerStates], NEW w \in Runners, NEW n \in 1 .. MaxAsks,
         runner' = [runner EXCEPT ![w].pending = @ \ {n}, ![w].resolved = @ \cup {n}]
  PROVE  Others(w) /\ SameRun(w) /\ SameControl(w) /\ runner'[w].wire = runner[w].wire
         /\ runner'[w].pending = runner[w].pending \ {n}
<1>1. PICK q \in RunnerStates : q = runner[w]
  OBVIOUS
<1>6. PICK P \in SUBSET (0 .. MaxAsks), R \in SUBSET (0 .. MaxAsks) :
        P = q.pending \ {n} /\ R = q.resolved \cup {n}
  <2>1. /\ q.pending \in SUBSET (0 .. MaxAsks) /\ q.resolved \in SUBSET (0 .. MaxAsks)
        /\ n \in 0 .. MaxAsks
    BY CodexAssumption DEF RunnerStates
  <2> QED
    BY <2>1
<1>2. PICK r \in RunnerStates : r = [q EXCEPT !.pending = P, !.resolved = R]
  BY <1>6 DEF RunnerStates, Places
<1>3. runner' = [runner EXCEPT ![w] = r]
  BY <1>6, <1>1, <1>2
<1>4. /\ r.at = q.at /\ r.lease = q.lease /\ r.state = q.state /\ r.wire = q.wire
      /\ r.pending = P /\ r.control = q.control /\ r.answer = q.answer
  BY <1>2 DEF RunnerStates, RunnerIdle
<1>5. Others(w) /\ runner'[w] = r
  BY <1>3, OneChanges
<1> QED
  BY <1>6, <1>1, <1>4, <1>5 DEF SameRun, SameWire, SameControl

\* A control is taken up, or given up.
LEMMA Controlled ==
  ASSUME runner \in [Runners -> RunnerStates], NEW w \in Runners,
         NEW c \in SteerActions \cup {"none"},
         runner' = [runner EXCEPT ![w].control = c]
  PROVE  Others(w) /\ SameRun(w) /\ SameWire(w)
         /\ runner'[w].control = c /\ runner'[w].answer = runner[w].answer
<1>1. PICK q \in RunnerStates : q = runner[w]
  OBVIOUS
<1>2. PICK r \in RunnerStates : r = [q EXCEPT !.control = c]
  BY DEF RunnerStates, Places
<1>3. runner' = [runner EXCEPT ![w] = r]
  BY <1>1, <1>2
<1>4. /\ r.at = q.at /\ r.lease = q.lease /\ r.state = q.state /\ r.wire = q.wire
      /\ r.pending = q.pending /\ r.control = c /\ r.answer = q.answer
  BY <1>2 DEF RunnerStates, RunnerIdle
<1>5. Others(w) /\ runner'[w] = r
  BY <1>3, OneChanges
<1> QED
  BY <1>1, <1>4, <1>5 DEF SameRun, SameWire, SameControl

\* A control is accepted.
LEMMA AnswerComes ==
  ASSUME runner \in [Runners -> RunnerStates], NEW w \in Runners,
         runner' = [runner EXCEPT ![w].answer = "taken"]
  PROVE  Others(w) /\ SameRun(w) /\ SameWire(w)
         /\ runner'[w].control = runner[w].control /\ runner'[w].answer = "taken"
<1>1. PICK q \in RunnerStates : q = runner[w]
  OBVIOUS
<1>2. PICK r \in RunnerStates : r = [q EXCEPT !.answer = "taken"]
  BY DEF RunnerStates, Places
<1>3. runner' = [runner EXCEPT ![w] = r]
  BY <1>1, <1>2
<1>4. /\ r.at = q.at /\ r.lease = q.lease /\ r.state = q.state /\ r.wire = q.wire
      /\ r.pending = q.pending /\ r.control = q.control /\ r.answer = "taken"
  BY <1>2 DEF RunnerStates, RunnerIdle
<1>5. Others(w) /\ runner'[w] = r
  BY <1>3, OneChanges
<1> QED
  BY <1>1, <1>4, <1>5 DEF SameRun, SameWire, SameControl

\* A control is done with.
LEMMA ControlOver ==
  ASSUME runner \in [Runners -> RunnerStates], NEW w \in Runners,
         runner' = [runner EXCEPT ![w].answer = "none", ![w].control = "none"]
  PROVE  Others(w) /\ SameRun(w) /\ SameWire(w)
         /\ runner'[w].control = "none" /\ runner'[w].answer = "none"
<1>1. PICK q \in RunnerStates : q = runner[w]
  OBVIOUS
<1>2. PICK r \in RunnerStates : r = [q EXCEPT !.answer = "none", !.control = "none"]
  BY DEF RunnerStates, Places
<1>3. runner' = [runner EXCEPT ![w] = r]
  BY <1>1, <1>2
<1>4. /\ r.at = q.at /\ r.lease = q.lease /\ r.state = q.state /\ r.wire = q.wire
      /\ r.pending = q.pending /\ r.control = "none" /\ r.answer = "none"
  BY <1>2 DEF RunnerStates, RunnerIdle
<1>5. Others(w) /\ runner'[w] = r
  BY <1>3, OneChanges
<1> QED
  BY <1>1, <1>4, <1>5 DEF SameRun, SameWire, SameControl

\* Cancelling is asked for.
LEMMA CancelGoes ==
  ASSUME runner \in [Runners -> RunnerStates], NEW w \in Runners, NEW s \in Seq(Events),
         runner' = [runner EXCEPT ![w].cancelSent = TRUE, ![w].wire = s]
  PROVE  Others(w) /\ SameRun(w) /\ SameControl(w)
         /\ runner'[w].wire = s /\ runner'[w].pending = runner[w].pending
<1>1. PICK q \in RunnerStates : q = runner[w]
  OBVIOUS
<1>2. PICK r \in RunnerStates : r = [q EXCEPT !.cancelSent = TRUE, !.wire = s]
  BY DEF RunnerStates, Places
<1>3. runner' = [runner EXCEPT ![w] = r]
  BY <1>1, <1>2
<1>4. /\ r.at = q.at /\ r.lease = q.lease /\ r.state = q.state /\ r.wire = s
      /\ r.pending = q.pending /\ r.control = q.control /\ r.answer = q.answer
  BY <1>2 DEF RunnerStates, RunnerIdle
<1>5. Others(w) /\ runner'[w] = r
  BY <1>3, OneChanges
<1> QED
  BY <1>1, <1>4, <1>5 DEF SameRun, SameWire, SameControl

\* A thread is begun.
LEMMA ThreadStarts ==
  ASSUME codex \in Threads,
         codex' = [codex EXCEPT !.threads = @ + 1]
  PROVE  /\ codex' \in Threads
         /\ codex'.threads = codex.threads + 1 /\ codex'.turns = codex.turns
         /\ codex'.turn = codex.turn /\ codex'.in = codex.in /\ SameTalk
         /\ codex'.waits = codex.waits /\ codex'.steered = codex.steered
<1>1. PICK k \in Nat : k = codex.threads + 1
  BY DEF Threads, Ends
<1>2. codex' = [codex EXCEPT !.threads = k]
  BY <1>1 DEF Threads
<1>3. codex' \in Threads
  BY <1>2 DEF Threads
<1>4. codex'.threads = k
  BY <1>2 DEF Threads
<1>5. /\ codex'.turns = codex.turns /\ codex'.turn = codex.turn /\ codex'.in = codex.in
      /\ codex'.asked = codex.asked /\ codex'.waits = codex.waits /\ codex'.told = codex.told
      /\ codex'.steered = codex.steered
  BY <1>2 DEF Threads
<1> QED
  BY <1>1, <1>3, <1>4, <1>5 DEF SameTalk, TurnSame, Threads

\* A turn is begun.
LEMMA TurnStarts ==
  ASSUME codex \in Threads, NEW w \in Runners,
         codex' = [codex EXCEPT !.turns = @ + 1, !.turn = "running", !.in = w]
  PROVE  /\ codex' \in Threads
         /\ codex'.threads = codex.threads /\ codex'.turns = codex.turns + 1
         /\ codex'.turn = "running" /\ codex'.in = w /\ SameTalk
         /\ codex'.waits = codex.waits /\ codex'.steered = codex.steered
<1>1. PICK k \in Nat : k = codex.turns + 1
  BY DEF Threads, Ends
<1>2. PICK t \in Ends \cup {"none", "running"} : t = "running"
  BY DEF Threads, Ends
<1>3. PICK v \in Runners \cup {"none"} : v = w
  BY DEF Threads, Ends
<1>4. codex' = [codex EXCEPT !.turns = k, !.turn = t, !.in = v]
  BY <1>1, <1>2, <1>3 DEF Threads
<1>5. codex' \in Threads
  BY <1>4 DEF Threads
<1>6. codex'.turns = k /\ codex'.turn = t /\ codex'.in = v
  BY <1>4 DEF Threads
<1>7. /\ codex'.threads = codex.threads /\ codex'.asked = codex.asked /\ codex'.waits = codex.waits
      /\ codex'.told = codex.told /\ codex'.steered = codex.steered
  BY <1>4 DEF Threads
<1> QED
  BY <1>1, <1>2, <1>3, <1>5, <1>6, <1>7 DEF SameTalk, TurnSame, Threads

\* A turn is at its end.
LEMMA TurnStops ==
  ASSUME codex \in Threads, NEW s \in Ends,
         codex' = [codex EXCEPT !.turn = s, !.waits = 0]
  PROVE  /\ codex' \in Threads
         /\ codex'.threads = codex.threads /\ codex'.turns = codex.turns
         /\ codex'.turn = s /\ codex'.in = codex.in /\ SameTalk
         /\ codex'.waits = 0 /\ codex'.steered = codex.steered
<1>1. PICK t \in Ends \cup {"none", "running"} : t = s
  BY DEF Threads, Ends
<1>2. PICK k \in 0 .. MaxAsks : k = 0
  BY CodexAssumption DEF Threads, Ends
<1>3. codex' = [codex EXCEPT !.turn = t, !.waits = k]
  BY <1>1, <1>2 DEF Threads
<1>4. codex' \in Threads
  BY <1>3 DEF Threads
<1>5. codex'.turn = t /\ codex'.waits = k
  BY <1>3 DEF Threads
<1>6. /\ codex'.threads = codex.threads /\ codex'.turns = codex.turns /\ codex'.in = codex.in
      /\ codex'.asked = codex.asked /\ codex'.told = codex.told /\ codex'.steered = codex.steered
  BY <1>3 DEF Threads
<1> QED
  BY <1>1, <1>2, <1>4, <1>5, <1>6 DEF SameTalk, TurnSame, Threads

\* An approval is asked for.
LEMMA ApprovalAsked ==
  ASSUME codex \in Threads, codex.asked < MaxAsks,
         codex' = [codex EXCEPT !.asked = @ + 1, !.waits = codex.asked + 1]
  PROVE  /\ codex' \in Threads
         /\ TurnSame /\ codex'.in = codex.in
         /\ codex'.asked = codex.asked + 1 /\ codex'.told = codex.told
         /\ codex'.waits = codex.asked + 1 /\ codex'.steered = codex.steered
<1>1. PICK k \in 0 .. MaxAsks : k = codex.asked + 1
  BY CodexAssumption DEF Threads, Ends
<1>2. PICK j \in 0 .. MaxAsks : j = codex.asked + 1
  BY CodexAssumption DEF Threads, Ends
<1>3. codex' = [codex EXCEPT !.asked = k, !.waits = j]
  BY <1>1, <1>2 DEF Threads
<1>4. codex' \in Threads
  BY <1>3 DEF Threads
<1>5. codex'.asked = k /\ codex'.waits = j
  BY <1>3 DEF Threads
<1>6. /\ codex'.threads = codex.threads /\ codex'.turns = codex.turns /\ codex'.turn = codex.turn
      /\ codex'.in = codex.in /\ codex'.told = codex.told /\ codex'.steered = codex.steered
  BY <1>3 DEF Threads
<1> QED
  BY <1>1, <1>2, <1>4, <1>5, <1>6 DEF SameTalk, TurnSame, Threads

\* An approval is answered.
LEMMA ApprovalTold ==
  ASSUME codex \in Threads, NEW n \in 1 .. MaxAsks,
         codex' = [codex EXCEPT !.told[n] = @ + 1, !.waits = IF @ = n THEN 0 ELSE @]
  PROVE  /\ codex' \in Threads
         /\ TurnSame /\ codex'.in = codex.in
         /\ codex'.asked = codex.asked /\ codex'.told[n] = codex.told[n] + 1
         /\ \A m \in 1 .. MaxAsks : m # n => codex'.told[m] = codex.told[m]
         /\ codex'.waits \in {codex.waits, 0} /\ codex'.steered = codex.steered
<1>1. PICK t \in [1 .. MaxAsks -> Nat] : t = [codex.told EXCEPT ![n] = @ + 1]
  <2>1. PICK u \in [1 .. MaxAsks -> Nat] : u = codex.told
    BY DEF Threads
  <2>2. [u EXCEPT ![n] = @ + 1] \in [1 .. MaxAsks -> Nat]
    OBVIOUS
  <2> QED
    BY <2>1, <2>2
<1>2. PICK k \in 0 .. MaxAsks : k = IF codex.waits = n THEN 0 ELSE codex.waits
  BY CodexAssumption DEF Threads, Ends
<1>3. codex' = [codex EXCEPT !.told = t, !.waits = k]
  BY <1>1, <1>2 DEF Threads
<1>4. codex' \in Threads
  BY <1>3 DEF Threads
<1>5. codex'.told = t /\ codex'.waits = k
  BY <1>3 DEF Threads
<1>6. /\ codex'.threads = codex.threads /\ codex'.turns = codex.turns /\ codex'.turn = codex.turn
      /\ codex'.in = codex.in /\ codex'.asked = codex.asked /\ codex'.steered = codex.steered
  BY <1>3 DEF Threads
<1> QED
  BY <1>1, <1>2, <1>4, <1>5, <1>6 DEF SameTalk, TurnSame, Threads

\* A control is taken for the turn.
LEMMA ControlTaken ==
  ASSUME codex \in Threads, NEW a \in SteerActions,
         codex' = [codex EXCEPT !.steered[a] = @ + 1]
  PROVE  /\ codex' \in Threads
         /\ TurnSame /\ codex'.in = codex.in
         /\ codex'.waits = codex.waits /\ SameTalk
         /\ codex'.steered = [codex.steered EXCEPT ![a] = @ + 1]
<1>1. PICK t \in [SteerActions -> Nat] : t = [codex.steered EXCEPT ![a] = @ + 1]
  BY DEF Threads, Ends
<1>2. codex' = [codex EXCEPT !.steered = t]
  BY <1>1 DEF Threads
<1>3. codex' \in Threads
  BY <1>2 DEF Threads
<1>4. codex'.steered = t
  BY <1>2 DEF Threads
<1>5. /\ codex'.threads = codex.threads /\ codex'.turns = codex.turns /\ codex'.turn = codex.turn
      /\ codex'.in = codex.in /\ codex'.asked = codex.asked /\ codex'.waits = codex.waits
      /\ codex'.told = codex.told
  BY <1>2 DEF Threads
<1> QED
  BY <1>1, <1>3, <1>4, <1>5 DEF SameTalk, TurnSame, Threads

\* The server of a run goes down.
LEMMA Downed ==
  ASSUME codex \in Threads, NEW w \in Runners,
         NEW left \in {"running", "completed", "interrupted"}, codex' = Down(w, left)
  PROVE  /\ TurnKept /\ TurnMoves
         /\ codex'.turn = "running" =>
              /\ codex.turn = "running" /\ codex'.in \in {codex.in, "none"} /\ codex'.in # w
<1>1. CASE codex.in = w /\ codex.turn = "running"
  <2>1. codex' = [codex EXCEPT !.in = "none", !.waits = 0, !.turn = left]
    BY <1>1 DEF Down
  <2>3. PICK t \in Ends \cup {"none", "running"}, k \in 0 .. MaxAsks, v \in Runners \cup {"none"} :
          t = left /\ k = 0 /\ v = "none"
    BY CodexAssumption DEF Ends
  <2>4. codex' = [codex EXCEPT !.in = v, !.waits = k, !.turn = t]
    BY <2>1, <2>3
  <2>5. codex' \in Threads
    BY <2>4 DEF Threads
  <2>2. /\ codex'.threads = codex.threads /\ codex'.turns = codex.turns
        /\ codex'.turn = left /\ codex'.in = "none" /\ SameTalk
        /\ codex'.waits = 0 /\ codex'.steered = codex.steered
    BY <2>3, <2>4 DEF Threads, SameTalk
  <2> QED
    BY <1>1, <2>2, <2>5, CodexAssumption DEF TurnKept, TurnMoves, Ends
<1>2. CASE ~(codex.in = w /\ codex.turn = "running")
  <2>1. codex' = codex
    BY <1>2 DEF Down
  <2> QED
    BY <1>2, <2>1 DEF TurnKept, TurnMoves, SameTalk
<1> QED
  BY <1>1, <1>2

\* A lease is given back.
LEMMA GivenBack ==
  ASSUME job \in Jobs, NEW w \in Runners, job' = Released(w)
  PROVE  JobSame \/ JobIs(job.state, job.thread, job.turn, 0, FALSE)
<1>1. CASE job' = job
  BY <1>1 DEF JobSame, JobIs
<1>2. CASE job' = [job EXCEPT !.lease = 0, !.held = FALSE]
  <2>1. PICK n \in Nat, h \in BOOLEAN : n = 0 /\ h = FALSE
    OBVIOUS
  <2>2. job' = [job EXCEPT !.lease = n, !.held = h]
    BY <1>2, <2>1
  <2>3. job' \in Jobs
    BY <2>2 DEF Jobs
  <2> QED
    BY <2>1, <2>2, <2>3 DEF JobIs, Jobs
<1> QED
  BY <1>1, <1>2 DEF Released

-----------------------------------------------------------------------------
(* Every step is such a step.                                              *)

\* A run goes to its end.
LEMMA Failing ==
  ASSUME CodexInv, NEW w \in Runners, NEW at \in {"fail", "release"}, RunnerGoes(w, at),
         UNCHANGED <<job, codex, order, runs>>, runner[w].at # "idle"
  PROVE  AllSteps
BY Walking DEF Places

\* A run writes a state and goes on.
LEMMA Saying ==
  ASSUME CodexInv, NEW w \in Runners, NEW at \in Places \ {"idle"}, NEW s \in JobStates,
         Holds(w), RunnerGoes(w, at), Writes([state |-> s]), UNCHANGED <<codex, order, runs>>,
         \/ runner[w].at = "thread" /\ at = "askThread" /\ s = "thread_starting"
         \/ runner[w].at = "ready" /\ at = "askTurn" /\ s = "turn_starting"
         \/ /\ runner[w].at \in {"claimed", "ready"} /\ at = "release"
            /\ job.state \in {"prepared", "thread_ready"} /\ s = "interrupted"
         \/ /\ runner[w].at = "fail" /\ at = "release" /\ job.state \notin Ends
            /\ s \in {"unknown"} \cup Ends /\ (s \in Ends => s = codex.turn)
  PROVE  AllSteps
<1>1. Typed
  BY DEF CodexInv
<1>2. JobIs(s, job.thread, job.turn, job.lease, job.held)
  BY <1>1, WritesState DEF Typed
<1>3. GoesTo(w, at)
  BY <1>1, Goes DEF Typed
<1>4. TurnSame
  BY <1>1 DEF Typed, TurnSame
<1>5. Notes(w)
  BY <1>2, <1>3, <1>4 DEF Notes, Says, GoesTo
<1>6. job' \in Jobs /\ job'.controls = job.controls
  BY <1>2 DEF JobIs
<1> QED
  BY <1>3, <1>5, <1>6, Noting

\* A run begins.
LEMMA ClaimMoves == ASSUME CodexInv, NEW w \in Runners, ClaimJob(w) PROVE AllSteps
<1>0. Typed
  BY DEF CodexInv
<1>1. runner[w].at = "idle" /\ runs' = runs + 1 /\ UNCHANGED <<codex, order>>
  BY DEF ClaimJob
<1>2. runs + 1 \in Nat /\ job.state \in JobStates
  BY <1>0 DEF Typed, Jobs
<1>3. /\ Others(w) /\ runner'[w].at = "claimed" /\ runner'[w].lease = runs + 1
      /\ runner'[w].state = job.state /\ runner'[w].wire = <<>> /\ runner'[w].pending = {}
      /\ runner'[w].control = "none" /\ runner'[w].answer = "none"
  <2>1. PICK l \in Nat, s \in JobStates : l = runs + 1 /\ s = job.state
    BY <1>2
  <2>2. Claimed(w, l, s)
    BY <2>1 DEF Claimed, ClaimJob
  <2>3. runner \in [Runners -> RunnerStates]
    BY <1>0 DEF Typed
  <2>4. /\ Others(w) /\ runner'[w].at = "claimed" /\ runner'[w].lease = l
        /\ runner'[w].state = s /\ runner'[w].wire = <<>> /\ runner'[w].pending = {}
        /\ runner'[w].control = "none" /\ runner'[w].answer = "none"
    BY <2>2, <2>3, Claims
  <2> QED
    BY <2>1, <2>4
<1>4. JobIs(job.state, job.thread, job.turn, runs + 1, TRUE)
  BY <1>0, <1>2, WritesLease DEF ClaimJob, Typed
<1>5. TurnSame /\ TurnMoves /\ codex' = codex
  BY <1>0, <1>1 DEF Typed, TurnSame, TurnMoves, SameTalk
<1>6. Begins(w)
  BY <1>1, <1>3, <1>4, <1>5 DEF Begins
<1>7. RunStep
  BY <1>0, <1>1, <1>2, <1>3, <1>6 DEF RunStep, Others, SameRun, Typed
<1>8. job' \in Jobs /\ job'.controls = job.controls
  BY <1>4 DEF JobIs
<1> QED
  BY <1>3, <1>5, <1>7, <1>8, IdlingIsQuiet DEF AllSteps

\* What the record says decides.
LEMMA BeginMoves == ASSUME CodexInv, NEW w \in Runners, BeginTurn(w) PROVE AllSteps
<1>0. runner[w].at = "claimed" /\ UNCHANGED <<codex, order, runs>>
  BY DEF BeginTurn
<1>1. CASE \E at \in {"fail", "release"} : RunnerGoes(w, at) /\ UNCHANGED job
  BY <1>0, <1>1, Failing
<1>2. CASE /\ runner[w].state \in {"prepared", "thread_ready"} /\ Holds(w)
           /\ Writes([state |-> "interrupted"]) /\ RunnerGoes(w, "release")
  <2>1. job.state \in {"prepared", "thread_ready"}
    BY <1>0, <1>2 DEF CodexInv, HolderInv
  <2> QED
    BY <1>0, <1>2, <2>1, Saying DEF Places, JobStates, Ends
<1>3. CASE runner[w].state = "prepared" /\ RunnerGoes(w, "thread") /\ UNCHANGED job
  BY <1>0, <1>3, Walking DEF Places
<1>4. CASE /\ runner[w].state \notin Ends /\ job.thread
           /\ RunnerGoes(w, "read") /\ UNCHANGED job
  BY <1>0, <1>4, Walking DEF Places
<1> QED
  BY <1>1, <1>2, <1>3, <1>4 DEF BeginTurn

\* What is about to be asked is written.
LEMMA AnnounceMoves == ASSUME CodexInv, NEW w \in Runners, AnnounceJob(w) PROVE AllSteps
<1>0. runner[w].at \in {"thread", "ready"} /\ UNCHANGED <<codex, order, runs>>
  BY DEF AnnounceJob
<1>1. CASE Holds(w) /\ runner[w].at = "thread"
  <2>1. Writes([state |-> "thread_starting"]) /\ RunnerGoes(w, "askThread")
    BY <1>1 DEF AnnounceJob, Reports
  <2> QED
    BY <1>0, <1>1, <2>1, Saying DEF Places, JobStates
<1>2. CASE Holds(w) /\ runner[w].at = "ready"
  <2>1. Writes([state |-> "turn_starting"]) /\ RunnerGoes(w, "askTurn")
    BY <1>2 DEF AnnounceJob, Reports
  <2> QED
    BY <1>0, <1>2, <2>1, Saying DEF Places, JobStates
<1>3. CASE ~Holds(w)
  BY <1>0, <1>3, Failing DEF AnnounceJob
<1> QED
  BY <1>0, <1>1, <1>2, <1>3

\* The thread and the turn are asked for.
LEMMA AskMoves ==
  ASSUME CodexInv, NEW w \in Runners, AskThread(w) \/ AskTurn(w)
  PROVE  AllSteps
<1>0. Typed /\ runner[w].at # "idle" /\ UNCHANGED <<job, order, runs>>
  BY DEF CodexInv, AskThread, AskTurn
<1>1. CASE RunnerGoes(w, "fail") /\ UNCHANGED codex
  BY <1>0, <1>1, Failing
<1>5. JobSame /\ job' \in Jobs /\ job'.controls = job.controls
  BY <1>0, JobUnwritten DEF JobSame, JobIs, Typed
<1>2. CASE /\ runner[w].at = "askThread" /\ codex' = [codex EXCEPT !.threads = @ + 1]
           /\ \E at \in {"threadAnswered", "fail"} : RunnerGoes(w, at)
  <2>1. PICK at \in {"threadAnswered", "fail"} : RunnerGoes(w, at)
    BY <1>2
  <2>2. GoesTo(w, at) /\ at \in Places \ {"idle"}
    BY <1>0, <2>1, Goes DEF Typed, Places
  <2>3. /\ codex' \in Threads /\ codex'.threads = codex.threads + 1
        /\ codex'.turns = codex.turns /\ codex'.turn = codex.turn /\ codex'.in = codex.in
        /\ SameTalk /\ codex'.waits = codex.waits /\ codex'.steered = codex.steered
    BY <1>0, <1>2, ThreadStarts DEF Typed
  <2>4. Asks(w)
    BY <1>0, <1>2, <1>5, <2>2, <2>3 DEF Asks, GoesTo
  <2>5. RunStep
    BY <1>0, <2>2, <2>4 DEF RunStep, GoesTo, Others, SameRun, Typed
  <2>6. TurnMoves
    BY <2>3 DEF TurnMoves
  <2> QED
    BY <1>5, <2>2, <2>3, <2>5, <2>6, GoingIsQuiet DEF AllSteps
<1>3. CASE /\ runner[w].at = "askTurn"
           /\ codex' = [codex EXCEPT !.turns = @ + 1, !.turn = "running", !.in = w]
           /\ \E at \in {"turnAnswered", "fail"} : RunnerGoes(w, at)
  <2>1. PICK at \in {"turnAnswered", "fail"} : RunnerGoes(w, at)
    BY <1>3
  <2>2. GoesTo(w, at) /\ at \in Places \ {"idle"}
    BY <1>0, <2>1, Goes DEF Typed, Places
  <2>3. /\ codex' \in Threads /\ codex'.threads = codex.threads
        /\ codex'.turns = codex.turns + 1 /\ codex'.turn = "running" /\ codex'.in = w
        /\ SameTalk /\ codex'.waits = codex.waits /\ codex'.steered = codex.steered
    BY <1>0, <1>3, TurnStarts DEF Typed
  <2>4. Asks(w)
    BY <1>0, <1>3, <1>5, <2>2, <2>3 DEF Asks, GoesTo
  <2>5. RunStep
    BY <1>0, <2>2, <2>4 DEF RunStep, GoesTo, Others, SameRun, Typed
  <2>6. codex.turn = "none"
    BY <1>3 DEF CodexInv, AskInv, Asking
  <2>7. TurnMoves
    BY <2>3, <2>6 DEF TurnMoves, Ends
  <2> QED
    BY <1>5, <2>2, <2>3, <2>5, <2>7, GoingIsQuiet DEF AllSteps
<1> QED
  BY <1>1, <1>2, <1>3 DEF AskThread, AskTurn

\* An answer is recorded.
LEMMA AnsweredMoves == ASSUME CodexInv, NEW w \in Runners, Answered(w) PROVE AllSteps
<1>0. /\ Typed /\ runner[w].at \in {"threadAnswered", "turnAnswered"}
      /\ UNCHANGED <<codex, order, runs>>
  BY DEF CodexInv, Answered
<1>1. CASE ~Holds(w)
  BY <1>0, <1>1, Failing DEF Answered
<1>5. TurnSame
  BY <1>0 DEF Typed, TurnSame
<1>2. CASE Holds(w) /\ runner[w].at = "threadAnswered"
  <2>1. Writes([thread |-> TRUE, state |-> "thread_ready"]) /\ RunnerGoes(w, "ready")
    BY <1>2 DEF Answered
  <2>2. GoesTo(w, "ready") /\ "ready" \in Places \ {"idle"}
    BY <1>0, <2>1, Goes DEF Typed, Places
  <2>3. JobIs("thread_ready", TRUE, job.turn, job.lease, job.held)
    BY <1>0, <2>1, WritesThread DEF Typed, JobStates
  <2>4. Notes(w)
    BY <1>0, <1>2, <1>5, <2>2, <2>3 DEF Notes, GoesTo
  <2>5. job' \in Jobs /\ job'.controls = job.controls
    BY <2>3 DEF JobIs
  <2> QED
    BY <1>0, <2>2, <2>4, <2>5, Noting
<1>3. CASE Holds(w) /\ runner[w].at = "turnAnswered"
  <2>1. Writes([turn |-> TRUE, state |-> "running"]) /\ RunnerGoes(w, "loop")
    BY <1>3 DEF Answered
  <2>2. GoesTo(w, "loop") /\ "loop" \in Places \ {"idle"}
    BY <1>0, <2>1, Goes DEF Typed, Places
  <2>3. JobIs("running", job.thread, TRUE, job.lease, job.held)
    BY <1>0, <2>1, WritesTurn DEF Typed, JobStates
  <2>4. Notes(w)
    BY <1>0, <1>3, <1>5, <2>2, <2>3 DEF Notes, GoesTo
  <2>5. job' \in Jobs /\ job'.controls = job.controls
    BY <2>3 DEF JobIs
  <2> QED
    BY <1>0, <2>2, <2>4, <2>5, Noting
<1> QED
  BY <1>0, <1>1, <1>2, <1>3

\* A run that comes later looks for the turn.
LEMMA RecoverMoves == ASSUME CodexInv, NEW w \in Runners, Recover(w) PROVE AllSteps
<1>0. Typed /\ runner[w].at = "read" /\ UNCHANGED <<codex, order, runs>>
  BY DEF CodexInv, Recover
<1>1. CASE RunnerGoes(w, "fail") /\ UNCHANGED job
  BY <1>0, <1>1, Failing
<1>2. CASE job.state = "thread_ready" /\ RunnerGoes(w, "ready") /\ UNCHANGED job
  BY <1>0, <1>2, Walking DEF Places
<1>3. CASE /\ codex.turn # "none" /\ Holds(w)
           /\ \E s \in {"running"} \cup Ends, at \in {"release", "fail", "loop"} :
                /\ Writes([turn |-> TRUE, state |-> s]) /\ RunnerGoes(w, at)
                /\ (s \in Ends => s = codex.turn) /\ (at = "loop" => s = "running")
  <2>1. PICK s \in {"running"} \cup Ends, at \in {"release", "fail", "loop"} :
          /\ Writes([turn |-> TRUE, state |-> s]) /\ RunnerGoes(w, at)
          /\ (s \in Ends => s = codex.turn) /\ (at = "loop" => s = "running")
    BY <1>3
  <2>2. GoesTo(w, at) /\ at \in Places \ {"idle"} /\ s \in JobStates
    BY <1>0, <2>1, Goes DEF Typed, Places, JobStates
  <2>3. JobIs(s, job.thread, TRUE, job.lease, job.held)
    BY <1>0, <2>1, <2>2, WritesTurn DEF Typed
  <2>4. TurnSame
    BY <1>0 DEF Typed, TurnSame
  <2>5. Notes(w)
    <3>1. runner'[w].at = at /\ runner'[w].lease = runner[w].lease
          /\ runner'[w].state = runner[w].state
      BY <2>2 DEF GoesTo
    <3> QED
      BY <1>0, <1>3, <2>1, <2>3, <2>4, <3>1 DEF Notes
  <2>6. job' \in Jobs /\ job'.controls = job.controls
    BY <2>3 DEF JobIs
  <2> QED
    BY <1>0, <2>2, <2>5, <2>6, Noting
<1>4. PICK s \in {"running"} \cup Ends : s = IF codex.turn \in Ends THEN codex.turn ELSE "running"
  OBVIOUS
<1>5. /\ s \in Ends => s = codex.turn /\ codex.turn # "none"
      /\ s \notin Ends => s = "running"
  BY <1>4 DEF Ends
<1>6. \/ RunnerGoes(w, "fail") /\ UNCHANGED job
      \/ job.state = "thread_ready" /\ RunnerGoes(w, "ready") /\ UNCHANGED job
      \/ /\ codex.turn # "none" /\ Holds(w) /\ Writes([turn |-> TRUE, state |-> s])
         /\ RunnerGoes(w, IF s \in Ends THEN "release" ELSE IF codex.in = w THEN "loop" ELSE "fail")
  BY <1>4, Zenon DEF Recover, Unmatched
<1> QED
  BY <1>1, <1>2, <1>3, <1>5, <1>6

\* A run that stays where it is.
LEMMA InPlace ==
  ASSUME CodexInv, NEW w \in Runners, Others(w), SameRun(w), JobKept, TurnKept,
         UNCHANGED <<order, runs>>
  PROVE  RunStep
<1>1. \A v \in Runners : SameRun(v)
  BY DEF Others, SameRun
<1>2. Typed /\ order' \in [authorized: BOOLEAN, cancelled: BOOLEAN]
  BY DEF CodexInv, Typed
<1> QED
  BY <1>1, <1>2, StandingIsStep DEF Others

\* What one run takes, gets or answers is a step of the wires.
LEMMA OneWire ==
  ASSUME CodexInv, NEW w \in Runners, Others(w), runner'[w].at # "idle", codex' \in Threads,
         codex.turn \in Ends => codex'.turn = codex.turn,
         codex'.waits \in {codex.waits, 0, codex'.asked}, codex'.asked >= codex.asked,
         codex'.turn = "running" => codex.turn = "running" /\ codex'.in = codex.in,
         \/ Wireless \/ EndArrives(w) \/ AskArrives(w) \/ EventTaken(w)
         \/ \E n \in 1 .. MaxAsks : Told(w, n)
  PROVE  WireStep
<1>1. runner' \in [Runners -> RunnerStates]
  BY DEF Others
<1>2. \A v \in Runners :
        /\ runner'[v].at = "idle" => runner[v].at = "idle" /\ SameWire(v)
        /\ codex'.turn = "running" /\ codex'.in = v => runner'[v].at # "idle"
  BY DEF Others, SameWire, CodexInv, WireInv
<1>3. \/ Wireless
      \/ \E v \in Runners : EndArrives(v) \/ AskArrives(v) \/ EventTaken(v)
      \/ \E v \in Runners, n \in 1 .. MaxAsks : Told(v, n)
  OBVIOUS
<1> QED
  BY <1>1, <1>2, <1>3 DEF WireStep

\* A run whose neighbours are not concerned.
LEMMA OthersSame ==
  ASSUME NEW w \in Runners, Others(w)
  PROVE  /\ runner' \in [Runners -> RunnerStates] /\ OneTalks(w)
         /\ \A v \in Runners : v # w => SameWire(v) /\ SameControl(v)
BY DEF Others, OneTalks, SameWire, SameControl

\* The controls are not touched by a run that keeps its own.
LEMMA NoControl ==
  ASSUME NEW w \in Runners, Others(w), SameControl(w), job' \in Jobs,
         job'.controls = job.controls, codex' \in Threads, codex'.steered = codex.steered
  PROVE  ControlStep
<1>1. \A v \in Runners : SameControl(v)
  BY OthersSame
<1> QED
  BY <1>1, OthersSame DEF ControlStep, Uncontrolled

\* The record and the turn that are left alone.
LEMMA LeftAlone ==
  ASSUME CodexInv
  PROVE  /\ UNCHANGED job => /\ JobKept /\ JobSame /\ job' \in Jobs
                             /\ job'.controls = job.controls
         /\ UNCHANGED codex => /\ TurnKept /\ TurnSame /\ SameTalk /\ codex' \in Threads
                               /\ codex'.steered = codex.steered
                               /\ codex'.waits = codex.waits /\ codex'.asked >= codex.asked
                               /\ codex'.in = codex.in /\ codex'.turn = codex.turn
<1>1. job \in Jobs /\ codex \in Threads /\ codex.asked >= codex.asked
  BY DEF CodexInv, Typed, Threads
<1>2. UNCHANGED job => JobSame
  BY <1>1, JobUnwritten
<1> QED
  BY <1>1, <1>2 DEF JobKept, TurnKept, TurnSame, SameTalk

\* A cancelled run that has not asked for its turn.
LEMMA CancelReadyMoves == ASSUME CodexInv, NEW w \in Runners, CancelReady(w) PROVE AllSteps
<1>0. /\ runner[w].at = "ready" /\ job.state = "thread_ready"
      /\ UNCHANGED <<codex, order, runs>>
  BY DEF CancelReady
<1>1. CASE Holds(w)
  <2>1. Writes([state |-> "interrupted"]) /\ RunnerGoes(w, "release")
    BY <1>1 DEF CancelReady
  <2> QED
    BY <1>0, <1>1, <2>1, Saying DEF Places, JobStates, Ends
<1>2. CASE ~Holds(w)
  BY <1>0, <1>2, Failing DEF CancelReady
<1> QED
  BY <1>1, <1>2

\* An event is handled.
LEMMA HandleMoves == ASSUME CodexInv, NEW w \in Runners, HandleEvent(w) PROVE AllSteps
<1>0. Typed
  BY DEF CodexInv
<1>1. PICK e \in Events : e = runner[w].wire[1] /\ Handled(w, e)
  BY <1>0, Handles
<1>2. /\ Others(w) /\ SameControl(w) /\ runner[w].at = "loop" /\ runner[w].wire # <<>>
      /\ runner'[w].lease = runner[w].lease /\ runner'[w].state = runner[w].state
      /\ runner'[w].wire = Tail(runner[w].wire)
      /\ runner'[w].pending \subseteq runner[w].pending \cup {e.ask}
      /\ UNCHANGED <<codex, order, runs>> /\ job.state \notin Ends
      /\ runner'[w].at \in {"loop", "fail"}
  BY <1>1 DEF Handled
<1>3. /\ TurnKept /\ TurnSame /\ SameTalk /\ codex' \in Threads
      /\ codex'.steered = codex.steered /\ codex'.waits = codex.waits
      /\ codex'.asked >= codex.asked /\ codex'.in = codex.in /\ codex'.turn = codex.turn
  BY <1>2, LeftAlone
<1>4. EventTaken(w)
  BY <1>1, <1>2, <1>3, OthersSame DEF EventTaken
<1>5. WireStep
  BY <1>2, <1>3, <1>4, OneWire
<1>6. CASE UNCHANGED job
  <2>1. JobKept /\ JobSame /\ job' \in Jobs /\ job'.controls = job.controls
    BY <1>6, LeftAlone
  <2>2. ControlStep
    BY <1>2, <1>3, <2>1, NoControl
  <2>3. CASE runner'[w].at = "loop"
    BY <1>2, <1>3, <1>5, <2>1, <2>2, <2>3, InPlace DEF AllSteps, SameRun
  <2>4. CASE runner'[w].at = "fail"
    <3>1. Walks(w)
      BY <1>2, <1>3, <2>1, <2>4 DEF Walks
    <3> QED
      BY <1>0, <1>2, <1>5, <2>2, <3>1 DEF AllSteps, RunStep, Others, SameRun, Typed
  <2> QED
    BY <1>2, <2>3, <2>4
<1>7. CASE /\ runner'[w].at = "loop" /\ e.end \in Ends /\ Holds(w)
           /\ Writes([state |-> e.end])
  <2>1. PICK s \in Ends : s = e.end
    BY <1>7
  <2>2. s = codex.turn
    <3>1. 1 \in 1 .. Len(runner[w].wire)
      <4>1. PICK t \in Seq(Events) : t = runner[w].wire /\ t # <<>>
        BY <1>0, <1>2 DEF Typed, RunnerStates
      <4> QED
        BY <4>1
    <3> QED
      BY <1>1, <2>1, <3>1 DEF CodexInv, WireInv
  <2>3. Says(s) /\ job' \in Jobs /\ job'.controls = job.controls
    <3>1. s \in JobStates /\ job \in Jobs /\ Writes([state |-> s])
      BY <1>0, <1>7, <2>1 DEF Typed, JobStates
    <3> QED
      BY <3>1, WritesState DEF Says, JobIs
  <2>4. Notes(w)
    <3>1. Holds(w) /\ runner'[w].at = "loop" /\ s \in {"unknown"} \cup Ends /\ s # "unknown"
      BY <1>7, <2>1 DEF Ends
    <3> QED
      BY <1>2, <1>3, <2>1, <2>2, <2>3, <3>1 DEF Notes
  <2>5. RunStep
    BY <1>0, <1>2, <2>4 DEF RunStep, Others, SameRun, Typed
  <2>6. ControlStep
    BY <1>2, <1>3, <2>3, NoControl
  <2> QED
    BY <1>5, <2>5, <2>6 DEF AllSteps
<1> QED
  BY <1>1, <1>6, <1>7 DEF Handled

\* The loop ends.
LEMMA LoopMoves ==
  ASSUME CodexInv, NEW w \in Runners, LoopEnds(w) \/ LoopFails(w)
  PROVE  AllSteps
BY Failing DEF LoopEnds, LoopFails

\* An approval is answered, or cannot be.
LEMMA ApproveMoves ==
  ASSUME CodexInv, NEW w \in Runners, NEW n \in 1 .. MaxAsks, Approve(w, n)
  PROVE  AllSteps
<1>0. /\ Typed /\ runner[w].at = "loop" /\ n \in runner[w].pending
      /\ UNCHANGED <<job, order, runs>>
  BY DEF CodexInv, Approve
<1>1. /\ Others(w) /\ SameRun(w) /\ SameControl(w) /\ runner'[w].wire = runner[w].wire
      /\ runner'[w].pending = runner[w].pending \ {n}
  BY <1>0, Answers DEF Approve, Typed
<1>2. /\ codex' \in Threads /\ codex'.turn = codex.turn /\ TurnKept
      /\ codex'.in = codex.in /\ codex'.asked = codex.asked
      /\ codex'.told[n] \in {codex.told[n], codex.told[n] + 1}
      /\ \A m \in 1 .. MaxAsks : m # n => codex'.told[m] = codex.told[m]
      /\ codex'.waits \in {codex.waits, 0} /\ codex'.steered = codex.steered
  <2>1. CASE codex' = [codex EXCEPT !.told[n] = @ + 1, !.waits = IF @ = n THEN 0 ELSE @]
    <3>1. codex \in Threads
      BY <1>0 DEF Typed
    <3> QED
      BY <2>1, <3>1, ApprovalTold DEF TurnKept, TurnSame
  <2>2. CASE UNCHANGED codex
    BY <2>2, LeftAlone DEF SameTalk
  <2> QED
    BY <2>1, <2>2 DEF Approve
<1>3. Told(w, n)
  BY <1>0, <1>1, <1>2, OthersSame DEF Told, Pends
<1>4. codex'.asked >= codex.asked
  BY <1>0, <1>2 DEF Typed, Threads
<1>5. runner'[w].at # "idle"
  BY <1>0, <1>1 DEF SameRun
<1>6. WireStep
  BY <1>1, <1>2, <1>3, <1>4, <1>5, OneWire
<1>7. JobKept /\ job' \in Jobs /\ job'.controls = job.controls
  BY <1>0, LeftAlone
<1>8. RunStep
  BY <1>0, <1>1, <1>2, <1>7, InPlace
<1>9. ControlStep
  BY <1>1, <1>2, <1>7, NoControl
<1> QED
  BY <1>6, <1>8, <1>9 DEF AllSteps

\* A turn comes to its end, and an approval is asked for.
LEMMA TurnEndMoves ==
  ASSUME CodexInv, NEW s \in {"completed", "failed"}, TurnEnds(s)
  PROVE  AllSteps
<1>0. Typed /\ codex.turn = "running" /\ UNCHANGED <<job, order, runs>>
  BY DEF CodexInv, TurnEnds
<1>1. PICK w \in Runners : w = codex.in /\ runner[w].at # "idle"
  <2>1. codex.in \in Runners /\ codex.turn = "running"
    BY DEF TurnEnds
  <2>2. PICK w \in Runners : w = codex.in
    BY <2>1
  <2>3. runner[w].at # "idle"
    BY <2>1, <2>2 DEF CodexInv, WireInv
  <2> QED
    BY <2>2, <2>3
<1>2. PICK e \in Events : e = [end |-> s, ask |-> 0]
  <2>1. PICK t \in Ends \cup {"none"}, n \in 0 .. MaxAsks : t = s /\ n = 0
    BY <1>0, CodexAssumption DEF Typed, Threads, Ends
  <2>2. PICK e \in Events : e = [end |-> t, ask |-> n]
    BY DEF Events
  <2> QED
    BY <2>1, <2>2
<1>3. /\ Others(w) /\ SameRun(w) /\ SameControl(w)
      /\ runner'[w].wire = Append(runner[w].wire, e) /\ runner'[w].pending = runner[w].pending
  <2>1. Emits(w, e)
    BY <1>1, <1>2 DEF TurnEnds, EndJob
  <2> QED
    BY <1>0, <2>1, Arrives DEF Typed
<1>4. s \in Ends
  BY DEF Ends
<1>5. /\ codex' \in Threads /\ codex'.threads = codex.threads /\ codex'.turns = codex.turns
      /\ codex'.turn = s /\ codex'.in = codex.in /\ SameTalk
      /\ codex'.waits = 0 /\ codex'.steered = codex.steered
  BY <1>0, <1>4, TurnStops DEF Typed, TurnEnds
<1>6. EndArrives(w)
  BY <1>0, <1>2, <1>3, <1>4, <1>5, OthersSame DEF EndArrives
<1>7. /\ codex'.asked >= codex.asked /\ runner'[w].at # "idle" /\ codex'.turn # "running"
      /\ codex.turn \notin Ends /\ TurnKept
  BY <1>0, <1>1, <1>3, <1>4, <1>5 DEF Typed, Threads, SameRun, SameTalk, Ends, TurnKept
<1>8. WireStep
  BY <1>3, <1>5, <1>6, <1>7, OneWire
<1>9. JobKept /\ job' \in Jobs /\ job'.controls = job.controls
  BY <1>0, LeftAlone
<1>10. RunStep
  BY <1>0, <1>3, <1>7, <1>9, InPlace
<1>11. ControlStep
  BY <1>3, <1>5, <1>9, NoControl
<1> QED
  BY <1>8, <1>10, <1>11 DEF AllSteps

\* An approval is asked for.
LEMMA AsksMoves == ASSUME CodexInv, AsksApproval PROVE AllSteps
<1>0. /\ Typed /\ codex.turn = "running" /\ codex.asked < MaxAsks
      /\ UNCHANGED <<job, order, runs>>
  BY DEF CodexInv, AsksApproval
<1>1. PICK w \in Runners : w = codex.in /\ runner[w].at # "idle"
  <2>1. codex.in \in Runners /\ codex.turn = "running"
    BY DEF AsksApproval
  <2>2. PICK w \in Runners : w = codex.in
    BY <2>1
  <2>3. runner[w].at # "idle"
    BY <2>1, <2>2 DEF CodexInv, WireInv
  <2> QED
    BY <2>2, <2>3
<1>2. PICK e \in Events : e = [end |-> "none", ask |-> codex.asked + 1]
  <2>1. PICK t \in Ends \cup {"none"}, n \in 0 .. MaxAsks : t = "none" /\ n = codex.asked + 1
    BY <1>0, CodexAssumption DEF Typed, Threads, Ends
  <2>2. PICK e \in Events : e = [end |-> t, ask |-> n]
    BY DEF Events
  <2> QED
    BY <2>1, <2>2
<1>3. /\ Others(w) /\ SameRun(w) /\ SameControl(w)
      /\ runner'[w].wire = Append(runner[w].wire, e) /\ runner'[w].pending = runner[w].pending
  <2>1. Emits(w, e)
    BY <1>1, <1>2 DEF AsksApproval
  <2> QED
    BY <1>0, <2>1, Arrives DEF Typed
<1>5. /\ codex' \in Threads /\ TurnSame /\ codex'.in = codex.in
      /\ codex'.asked = codex.asked + 1 /\ codex'.told = codex.told
      /\ codex'.waits = codex.asked + 1 /\ codex'.steered = codex.steered
  BY <1>0, ApprovalAsked DEF Typed, AsksApproval
<1>6. AskArrives(w)
  BY <1>0, <1>2, <1>3, <1>5, OthersSame DEF AskArrives
<1>7. /\ codex'.asked >= codex.asked /\ runner'[w].at # "idle" /\ TurnKept
      /\ codex'.turn = codex.turn
  BY <1>0, <1>1, <1>3, <1>5 DEF Typed, Threads, SameRun, TurnKept, TurnSame
<1>8. WireStep
  BY <1>3, <1>5, <1>6, <1>7, OneWire
<1>9. JobKept /\ job' \in Jobs /\ job'.controls = job.controls
  BY <1>0, LeftAlone
<1>10. RunStep
  BY <1>0, <1>3, <1>7, <1>9, InPlace
<1>11. ControlStep
  BY <1>3, <1>5, <1>9, NoControl
<1> QED
  BY <1>8, <1>10, <1>11 DEF AllSteps

\* The wires are not touched by runs that stay where they are.
LEMMA NoWire ==
  ASSUME CodexInv, runner' \in [Runners -> RunnerStates],
         \A v \in Runners : SameRun(v) /\ SameWire(v), codex' \in Threads, SameTalk,
         codex'.turn = codex.turn, codex'.in = codex.in, codex'.waits = codex.waits
  PROVE  WireStep
<1>1. \A v \in Runners :
        /\ runner'[v].at = "idle" => runner[v].at = "idle" /\ SameWire(v)
        /\ codex'.turn = "running" /\ codex'.in = v => runner'[v].at # "idle"
  BY DEF SameRun, CodexInv, WireInv
<1>2. codex'.asked >= codex.asked
  BY DEF SameTalk, CodexInv, Typed, Threads
<1> QED
  BY <1>1, <1>2 DEF WireStep, Wireless

\* A control is taken up.
LEMMA SteerMoves ==
  ASSUME CodexInv, NEW w \in Runners, NEW a \in SteerActions, Steer(w, a)
  PROVE  AllSteps
<1>0. /\ Typed /\ runner[w].control = "none" /\ job.controls[a] = "none"
      /\ UNCHANGED <<codex, order, runs>>
  BY DEF CodexInv, Steer, Unsent
<1>1. /\ TurnKept /\ SameTalk /\ codex' \in Threads /\ codex'.steered = codex.steered
      /\ codex'.waits = codex.waits /\ codex'.in = codex.in /\ codex'.turn = codex.turn
  BY <1>0, LeftAlone
<1>2. CASE /\ Writes([controls |-> [job.controls EXCEPT ![a] = "unknown"]])
           /\ runner' = [runner EXCEPT ![w].control = a]
  <2>1. PICK c \in [SteerActions -> Receipts] : c = [job.controls EXCEPT ![a] = "unknown"]
    <3>1. PICK d \in [SteerActions -> Receipts] : d = job.controls
      BY <1>0 DEF Typed, Jobs
    <3>2. [d EXCEPT ![a] = "unknown"] \in [SteerActions -> Receipts]
      BY DEF Receipts
    <3> QED
      BY <3>1, <3>2
  <2>2. /\ job' \in Jobs /\ job'.controls = c /\ job'.state = job.state
        /\ job'.thread = job.thread /\ job'.turn = job.turn
        /\ job'.lease = job.lease /\ job'.held = job.held
    BY <1>0, <1>2, <2>1, WritesControls DEF Typed
  <2>3. PICK k \in SteerActions \cup {"none"} : k = a
    OBVIOUS
  <2>4. /\ Others(w) /\ SameRun(w) /\ SameWire(w)
        /\ runner'[w].control = a /\ runner'[w].answer = runner[w].answer
    BY <1>0, <1>2, <2>3, Controlled DEF Typed
  <2>5. Named(w, a)
    BY <1>0, <1>1, <2>1, <2>2, <2>4 DEF Named
  <2>6. ControlStep
    BY <1>1, <2>2, <2>4, <2>5, OthersSame DEF ControlStep
  <2>7. WireStep
    BY <1>1, <2>4, OthersSame, NoWire DEF Others, SameRun
  <2>8. RunStep
    BY <1>0, <1>1, <2>2, <2>4, InPlace DEF JobKept
  <2> QED
    BY <2>6, <2>7, <2>8 DEF AllSteps
<1>3. CASE UNCHANGED <<job, runner>>
  <2>1. \A v \in Runners : SameRun(v) /\ SameWire(v) /\ SameControl(v)
    BY <1>3 DEF SameRun, SameWire, SameControl
  <2>2. /\ JobKept /\ job' \in Jobs /\ job'.controls = job.controls
        /\ runner' \in [Runners -> RunnerStates]
        /\ order' \in [authorized: BOOLEAN, cancelled: BOOLEAN]
    BY <1>0, <1>3, LeftAlone DEF Typed
  <2>3. RunStep
    BY <1>0, <1>1, <2>1, <2>2, StandingIsStep
  <2>4. WireStep
    BY <1>1, <2>1, <2>2, NoWire
  <2>5. ControlStep
    BY <1>1, <2>1, <2>2 DEF ControlStep, Uncontrolled
  <2> QED
    BY <2>3, <2>4, <2>5 DEF AllSteps
<1> QED
  BY <1>2, <1>3 DEF Steer

\* A control reaches Codex, or comes too late.
LEMMA ReachMoves == ASSUME CodexInv, NEW w \in Runners, SteerReaches(w) PROVE AllSteps
<1>0. Typed /\ runner[w].answer = "none" /\ UNCHANGED <<job, order, runs>>
  BY DEF CodexInv, SteerReaches
<1>1. PICK a \in SteerActions : a = runner[w].control
  BY DEF SteerReaches
<1>2. JobKept /\ job' \in Jobs /\ job'.controls = job.controls
  BY <1>0, LeftAlone
<1>3. /\ Others(w) /\ SameRun(w) /\ SameWire(w)
      /\ \/ runner'[w].control = runner[w].control /\ runner'[w].answer = "taken"
            /\ codex' = [codex EXCEPT !.steered[a] = @ + 1]
         \/ runner'[w].control = "none" /\ runner'[w].answer = "none"
            /\ (codex' = [codex EXCEPT !.steered[a] = @ + 1] \/ UNCHANGED codex)
  <2>1. CASE runner' = [runner EXCEPT ![w].answer = "taken"]
    <3>1. \/ codex' = [codex EXCEPT !.steered[a] = @ + 1]
          \/ runner' = [runner EXCEPT ![w].control = "none"]
      BY <1>1 DEF SteerReaches
    <3>2. /\ Others(w) /\ SameRun(w) /\ SameWire(w)
          /\ runner'[w].control = runner[w].control /\ runner'[w].answer = "taken"
      BY <1>0, <2>1, AnswerComes DEF Typed
    <3>3. codex' = [codex EXCEPT !.steered[a] = @ + 1]
      <4>1. CASE runner' = [runner EXCEPT ![w].control = "none"]
        <5>1. PICK k \in SteerActions \cup {"none"} : k = "none"
          OBVIOUS
        <5>2. runner'[w].control = "none"
          BY <1>0, <4>1, <5>1, Controlled DEF Typed
        <5> QED
          BY <1>1, <3>2, <5>2, CodexAssumption
      <4> QED
        BY <3>1, <4>1
    <3> QED
      BY <3>2, <3>3
  <2>2. CASE runner' = [runner EXCEPT ![w].control = "none"]
    <3>1. PICK k \in SteerActions \cup {"none"} : k = "none"
      OBVIOUS
    <3>2. /\ Others(w) /\ SameRun(w) /\ SameWire(w)
          /\ runner'[w].control = "none" /\ runner'[w].answer = runner[w].answer
      BY <1>0, <2>2, <3>1, Controlled DEF Typed
    <3>3. codex' = [codex EXCEPT !.steered[a] = @ + 1] \/ UNCHANGED codex
      BY <1>1 DEF SteerReaches
    <3> QED
      BY <1>0, <3>2, <3>3
  <2> QED
    BY <1>1, <2>1, <2>2 DEF SteerReaches
<1>4. /\ TurnKept /\ SameTalk /\ codex' \in Threads /\ codex'.waits = codex.waits
      /\ codex'.in = codex.in /\ codex'.turn = codex.turn
      /\ \/ UNCHANGED codex
         \/ codex'.steered = [codex.steered EXCEPT ![a] = @ + 1]
  <2>1. CASE codex' = [codex EXCEPT !.steered[a] = @ + 1]
    <3>1. codex \in Threads
      BY <1>0 DEF Typed
    <3> QED
      BY <2>1, <3>1, ControlTaken DEF TurnSame, TurnKept
  <2>2. CASE UNCHANGED codex
    BY <2>2, LeftAlone
  <2> QED
    BY <1>3, <2>1, <2>2
<1>5. WireStep
  BY <1>3, <1>4, OthersSame, NoWire DEF Others, SameRun
<1>6. RunStep
  BY <1>0, <1>2, <1>3, <1>4, InPlace
<1>7. ControlStep
  <2>1. CASE codex'.steered = [codex.steered EXCEPT ![a] = @ + 1]
    <3>1. Reaches(w, a)
      BY <1>0, <1>1, <1>2, <1>3, <2>1 DEF Reaches, Sends
    <3> QED
      BY <1>2, <1>3, <1>4, <3>1, OthersSame DEF ControlStep
  <2>2. CASE UNCHANGED codex /\ runner'[w].control = "none" /\ runner'[w].answer = "none"
    <3>1. codex'.steered = codex.steered
      BY <2>2
    <3>2. \A v \in Runners :
            SameControl(v) \/ (runner'[v].control = "none" /\ runner'[v].answer = "none")
      BY <1>3, <2>2, OthersSame
    <3> QED
      BY <1>2, <1>3, <1>4, <3>1, <3>2, OthersSame DEF ControlStep, Uncontrolled
  <2>3. \/ codex'.steered = [codex.steered EXCEPT ![a] = @ + 1]
        \/ UNCHANGED codex /\ runner'[w].control = "none" /\ runner'[w].answer = "none"
    <3>1. CASE codex' = [codex EXCEPT !.steered[a] = @ + 1]
      <4>1. codex \in Threads
        BY <1>0 DEF Typed
      <4> QED
        BY <3>1, <4>1, ControlTaken
    <3> QED
      BY <1>3, <3>1
  <2> QED
    BY <2>1, <2>2, <2>3
<1> QED
  BY <1>5, <1>6, <1>7 DEF AllSteps

\* A control is acknowledged.
LEMMA AckedMoves == ASSUME CodexInv, NEW w \in Runners, SteerAcked(w) PROVE AllSteps
<1>0. Typed /\ runner[w].answer = "taken" /\ UNCHANGED <<codex, order, runs>>
  BY DEF CodexInv, SteerAcked
<1>1. PICK a \in SteerActions : a = runner[w].control
  BY <1>0 DEF CodexInv, ControlInv
<1>2. /\ Others(w) /\ SameRun(w) /\ SameWire(w)
      /\ runner'[w].control = "none" /\ runner'[w].answer = "none"
  BY <1>0, ControlOver DEF SteerAcked, Typed
<1>3. /\ TurnKept /\ SameTalk /\ codex' \in Threads /\ codex'.steered = codex.steered
      /\ codex'.waits = codex.waits /\ codex'.in = codex.in /\ codex'.turn = codex.turn
  BY <1>0, LeftAlone
<1>4. /\ JobKept
      /\ \/ job'.controls = job.controls
         \/ job'.controls = [job.controls EXCEPT ![a] = "queued"]
  <2>1. CASE UNCHANGED job
    BY <2>1, LeftAlone
  <2>2. CASE Writes([controls |-> [job.controls EXCEPT ![runner[w].control] = "queued"]])
    <3>1. PICK c \in [SteerActions -> Receipts] : c = [job.controls EXCEPT ![a] = "queued"]
      <4>1. PICK d \in [SteerActions -> Receipts] : d = job.controls
        BY <1>0 DEF Typed, Jobs
      <4>2. [d EXCEPT ![a] = "queued"] \in [SteerActions -> Receipts]
        BY DEF Receipts
      <4> QED
        BY <4>1, <4>2
    <3>2. Writes([controls |-> c]) /\ job \in Jobs
      BY <1>0, <1>1, <2>2, <3>1 DEF Typed
    <3>3. /\ job' \in Jobs /\ job'.controls = c /\ job'.state = job.state
          /\ job'.thread = job.thread /\ job'.turn = job.turn
          /\ job'.lease = job.lease /\ job'.held = job.held
      BY <3>2, WritesControls
    <3> QED
      BY <3>1, <3>3 DEF JobKept
  <2> QED
    BY <2>1, <2>2 DEF SteerAcked
<1>5. Acked(w, a)
  BY <1>0, <1>1, <1>2, <1>3, <1>4 DEF Acked, Sends
<1>6. ControlStep
  BY <1>2, <1>3, <1>4, <1>5, OthersSame DEF ControlStep, JobKept
<1>7. WireStep
  BY <1>2, <1>3, OthersSame, NoWire DEF Others, SameRun
<1>8. RunStep
  BY <1>0, <1>2, <1>3, <1>4, InPlace
<1> QED
  BY <1>6, <1>7, <1>8 DEF AllSteps

\* Cancelling ends the turn that is running.
LEMMA CancelMoves == ASSUME CodexInv, NEW w \in Runners, CancelTurn(w) PROVE AllSteps
<1>0. Typed /\ runner[w].at = "loop" /\ UNCHANGED <<job, order, runs>>
  BY DEF CodexInv, CancelTurn
<1>1. JobKept /\ job' \in Jobs /\ job'.controls = job.controls
  BY <1>0, LeftAlone
<1>2. PICK t \in Seq(Events) : t = runner[w].wire
  BY <1>0 DEF Typed, RunnerStates
<1>3. CASE codex.turn = "running" /\ codex.in = w
  <2>1. PICK e \in Events : e = [end |-> "interrupted", ask |-> 0]
    <3>1. PICK i \in Ends \cup {"none"}, n \in 0 .. MaxAsks : i = "interrupted" /\ n = 0
      BY CodexAssumption DEF Ends
    <3>2. PICK e \in Events : e = [end |-> i, ask |-> n]
      BY DEF Events
    <3> QED
      BY <3>1, <3>2
  <2>2. PICK s \in Seq(Events) : s = Append(t, e)
    <3>1. Append(t, e) \in Seq(Events)
      OBVIOUS
    <3> QED
      BY <3>1
  <2>3. runner' = [runner EXCEPT ![w].cancelSent = TRUE, ![w].wire = s]
    BY <1>2, <1>3, <2>1, <2>2 DEF CancelTurn, EndJob
  <2>4. /\ Others(w) /\ SameRun(w) /\ SameControl(w)
        /\ runner'[w].wire = s /\ runner'[w].pending = runner[w].pending
    BY <1>0, <2>3, CancelGoes DEF Typed
  <2>5. "interrupted" \in Ends /\ codex.turn \notin Ends
    BY <1>3 DEF Ends
  <2>6. /\ codex' \in Threads /\ codex'.threads = codex.threads /\ codex'.turns = codex.turns
        /\ codex'.turn = "interrupted" /\ codex'.in = codex.in /\ SameTalk
        /\ codex'.waits = 0 /\ codex'.steered = codex.steered
    BY <1>0, <1>3, <2>5, TurnStops DEF Typed, CancelTurn
  <2>7. EndArrives(w)
    BY <1>2, <1>3, <2>1, <2>2, <2>4, <2>5, <2>6, OthersSame DEF EndArrives
  <2>8. /\ codex'.asked >= codex.asked /\ runner'[w].at # "idle" /\ TurnKept
        /\ codex'.turn # "running"
    BY <1>0, <1>3, <2>4, <2>5, <2>6 DEF Typed, Threads, SameRun, SameTalk, TurnKept
  <2>9. WireStep
    BY <2>4, <2>5, <2>6, <2>7, <2>8, OneWire
  <2>10. RunStep
    BY <1>0, <1>1, <2>4, <2>8, InPlace
  <2>11. ControlStep
    BY <1>1, <2>4, <2>6, NoControl
  <2> QED
    BY <2>9, <2>10, <2>11 DEF AllSteps
<1>4. CASE ~(codex.turn = "running" /\ codex.in = w)
  <2>1. codex' = codex
    BY <1>4 DEF CancelTurn
  <2>2. runner' = [runner EXCEPT ![w].cancelSent = TRUE, ![w].wire = t]
    BY <1>2, <1>4 DEF CancelTurn
  <2>4. /\ Others(w) /\ SameRun(w) /\ SameControl(w)
        /\ runner'[w].wire = t /\ runner'[w].pending = runner[w].pending
    BY <1>0, <2>2, CancelGoes DEF Typed
  <2>5. /\ TurnKept /\ SameTalk /\ codex' \in Threads /\ codex'.steered = codex.steered
        /\ codex'.waits = codex.waits /\ codex'.in = codex.in /\ codex'.turn = codex.turn
    BY <2>1, LeftAlone
  <2>6. SameWire(w)
    BY <1>2, <2>4 DEF SameWire
  <2>9. WireStep
    BY <2>4, <2>5, <2>6, OthersSame, NoWire DEF Others, SameRun
  <2>10. RunStep
    BY <1>0, <1>1, <2>4, <2>5, InPlace
  <2>11. ControlStep
    BY <1>1, <2>4, <2>5, NoControl
  <2> QED
    BY <2>9, <2>10, <2>11 DEF AllSteps
<1> QED
  BY <1>3, <1>4

\* What has arrived of the turn is what it came to.
LEMMA DrainedIsTrue ==
  ASSUME CodexInv, NEW w \in Runners, NEW e \in WireDrained(w)
  PROVE  e \in Ends /\ e = codex.turn
<1>1. PICK t \in Seq(Events) : t = runner[w].wire
  BY DEF CodexInv, Typed, RunnerStates
<1>2. e \in Ends
  BY DEF WireDrained
<1>3. PICK n \in DOMAIN runner[w].wire : e = runner[w].wire[n].end
  BY DEF WireDrained
<1>4. n \in 1 .. Len(runner[w].wire)
  BY <1>1, <1>3
<1> QED
  BY <1>2, <1>3, <1>4 DEF CodexInv, WireInv

\* A run that fails.
LEMMA FailMoves == ASSUME CodexInv, NEW w \in Runners, FailRun(w) PROVE AllSteps
<1>0. runner[w].at = "fail" /\ RunnerGoes(w, "release") /\ UNCHANGED <<codex, order, runs>>
  BY DEF FailRun
<1>1. CASE UNCHANGED job
  BY <1>0, <1>1, Failing
<1>2. CASE ~(job.state \in Ends \/ ~Holds(w))
  <2>1. PICK s \in {"unknown"} \cup Ends :
          s = IF WireDrained(w) # {} THEN CHOOSE e \in WireDrained(w) : TRUE ELSE "unknown"
    <3>1. WireDrained(w) # {} => (CHOOSE e \in WireDrained(w) : TRUE) \in WireDrained(w)
      OBVIOUS
    <3>2. WireDrained(w) \subseteq Ends
      BY DEF WireDrained
    <3> QED
      BY <3>1, <3>2
  <2>2. s \in Ends => s = codex.turn
    <3>1. CASE WireDrained(w) # {}
      <4>1. s \in WireDrained(w)
        BY <2>1, <3>1
      <4> QED
        BY <4>1, DrainedIsTrue
    <3>2. CASE WireDrained(w) = {}
      BY <2>1, <3>2 DEF Ends
    <3> QED
      BY <3>1, <3>2
  <2>3. Writes([state |-> s])
    BY <1>2, <2>1 DEF FailRun
  <2> QED
    BY <1>0, <1>2, <2>2, <2>3, Saying DEF Places, JobStates
<1> QED
  BY <1>1, <1>2 DEF FailRun

\* A run is over: it ends, or it crashes.
LEMMA OverMoves ==
  ASSUME CodexInv, NEW w \in Runners, Release(w) \/ CrashRun(w)
  PROVE  AllSteps
<1>0. /\ Typed /\ UNCHANGED <<order, runs>> /\ runner' = [runner EXCEPT ![w] = RunnerIdle]
      /\ UNCHANGED job \/ job' = Released(w)
      /\ \E left \in {"running", "completed", "interrupted"} : codex' = Down(w, left)
  BY DEF CodexInv, Release, CrashRun
<1>1. /\ Others(w) /\ runner'[w].at = "idle" /\ runner'[w].lease = 0
      /\ runner'[w].wire = <<>> /\ runner'[w].pending = {}
      /\ runner'[w].control = "none" /\ runner'[w].answer = "none"
  BY <1>0, Idles DEF Typed
<1>2. JobSame \/ JobIs(job.state, job.thread, job.turn, 0, FALSE)
  <2>1. CASE UNCHANGED job
    BY <2>1, LeftAlone
  <2>2. CASE job' = Released(w)
    BY <1>0, <2>2, GivenBack DEF Typed
  <2> QED
    BY <1>0, <2>1, <2>2
<1>3. job' \in Jobs /\ job'.controls = job.controls
  BY <1>2 DEF JobSame, JobIs
<1>4. /\ TurnKept /\ TurnMoves
      /\ codex'.turn = "running" =>
           /\ codex.turn = "running" /\ codex'.in \in {codex.in, "none"} /\ codex'.in # w
  BY <1>0, Downed DEF Typed
<1>5. Rests(w)
  BY <1>0, <1>1, <1>2, <1>4 DEF Rests
<1>6. RunStep
  BY <1>0, <1>1, <1>5 DEF RunStep, Others, SameRun, Typed
<1> QED
  BY <1>1, <1>3, <1>4, <1>6, IdlingIsQuiet DEF AllSteps

\* No run moves: the owner, the clock of the lease, and nothing at all.
LEMMA StillMoves ==
  ASSUME CodexInv, OwnerCancels \/ OwnerRetires \/ LeaseLapses \/ UNCHANGED codexVars
  PROVE  AllSteps
<1>0. Typed /\ UNCHANGED <<runner, codex, runs>>
  BY DEF CodexInv, OwnerCancels, OwnerRetires, LeaseLapses, codexVars
<1>1. order' \in [authorized: BOOLEAN, cancelled: BOOLEAN]
  BY <1>0 DEF Typed, OwnerCancels, OwnerRetires, LeaseLapses, codexVars
<1>2. JobKept /\ job' \in Jobs /\ job'.controls = job.controls
  <2>1. CASE UNCHANGED job
    BY <2>1, LeftAlone
  <2>2. CASE job.held /\ Writes([held |-> FALSE])
    <3>1. JobIs(job.state, job.thread, job.turn, job.lease, FALSE)
      BY <1>0, <2>2, WritesHeld DEF Typed
    <3> QED
      BY <2>2, <3>1 DEF JobIs, JobKept
  <2> QED
    BY <2>1, <2>2 DEF OwnerCancels, OwnerRetires, LeaseLapses, codexVars
<1>3. \A v \in Runners : SameRun(v) /\ SameWire(v) /\ SameControl(v)
  BY <1>0 DEF SameRun, SameWire, SameControl
<1>4. /\ TurnKept /\ SameTalk /\ codex' \in Threads /\ codex'.steered = codex.steered
      /\ codex'.waits = codex.waits /\ codex'.in = codex.in /\ codex'.turn = codex.turn
      /\ runner' \in [Runners -> RunnerStates]
  BY <1>0, LeftAlone DEF Typed
<1>5. RunStep
  BY <1>0, <1>1, <1>2, <1>3, <1>4, StandingIsStep
<1>6. WireStep
  BY <1>3, <1>4, NoWire
<1>7. ControlStep
  BY <1>2, <1>3, <1>4 DEF ControlStep, Uncontrolled
<1> QED
  BY <1>5, <1>6, <1>7 DEF AllSteps

\* Every step of the job is such a step.
LEMMA EveryStep == ASSUME CodexInv, [CodexNext]_codexVars PROVE AllSteps
<1>1. CASE \E w \in Runners :
             \/ ClaimJob(w) \/ BeginTurn(w) \/ AnnounceJob(w) \/ AskThread(w) \/ AskTurn(w)
             \/ Answered(w) \/ Recover(w) \/ CancelReady(w) \/ HandleEvent(w)
  BY <1>1, ClaimMoves, BeginMoves, AnnounceMoves, AskMoves, AnsweredMoves, RecoverMoves,
     CancelReadyMoves, HandleMoves
<1>2. CASE \E w \in Runners :
             \/ LoopEnds(w) \/ LoopFails(w) \/ SteerReaches(w) \/ SteerAcked(w)
             \/ CancelTurn(w) \/ FailRun(w) \/ Release(w) \/ CrashRun(w)
  BY <1>2, LoopMoves, ReachMoves, AckedMoves, CancelMoves, FailMoves, OverMoves
<1>3. CASE \E w \in Runners, n \in 1 .. MaxAsks : Approve(w, n)
  BY <1>3, ApproveMoves
<1>4. CASE \E w \in Runners, a \in SteerActions : Steer(w, a)
  BY <1>4, SteerMoves
<1>5. CASE \E status \in {"completed", "failed"} : TurnEnds(status)
  BY <1>5, TurnEndMoves
<1>6. CASE AsksApproval
  BY <1>6, AsksMoves
<1>7. CASE OwnerCancels \/ OwnerRetires \/ LeaseLapses \/ UNCHANGED codexVars
  BY <1>7, StillMoves
<1> QED
  BY <1>1, <1>2, <1>3, <1>4, <1>5, <1>6, <1>7 DEF CodexNext

-----------------------------------------------------------------------------
(* The invariant is kept.                                                  *)

\* Types.
LEMMA TypedKept == ASSUME AllSteps PROVE Typed'
BY DEF AllSteps, RunStep, ControlStep, Typed

\* A lease is of one run.
LEMMA LeaseKept == ASSUME CodexInv, RunStep PROVE LeaseInv'
<1>0. /\ runs \in Nat /\ job.lease \in Nat /\ \A v \in Runners : runner[v].lease \in Nat
      /\ LeaseInv
  BY DEF CodexInv, Typed, Jobs, RunnerStates
<1>1. CASE (\A v \in Runners : SameRun(v)) /\ JobKept /\ runs' = runs
  BY <1>0, <1>1 DEF LeaseInv, SameRun, JobKept
<1>2. ASSUME NEW w \in Runners, \A v \in Runners : v # w => SameRun(v),
             Begins(w) \/ Rests(w) \/ Walks(w) \/ Asks(w) \/ Notes(w)
      PROVE  LeaseInv'
  <2>1. CASE Begins(w)
    BY <1>0, <1>2, <2>1 DEF LeaseInv, SameRun, Begins, JobIs
  <2>2. CASE Rests(w)
    BY <1>0, <1>2, <2>2 DEF LeaseInv, SameRun, Rests, JobSame, JobIs
  <2>3. CASE Walks(w) \/ Asks(w) \/ Notes(w)
    <3>1. /\ runner'[w].lease = runner[w].lease /\ runs' = runs
          /\ job'.lease = job.lease /\ job'.held = job.held
          /\ runner[w].at # "idle" /\ runner'[w].at # "idle"
      BY <1>0, <2>3 DEF Walks, Asks, Notes, Says, JobSame, JobIs, LeaseInv
    <3> QED
      BY <1>0, <1>2, <3>1 DEF LeaseInv, SameRun
  <2> QED
    BY <1>2, <2>1, <2>2, <2>3
<1> QED
  BY <1>1, <1>2 DEF RunStep

\* One run holds the lease.
LEMMA OneHolds ==
  ASSUME CodexInv, NEW v \in Runners, NEW w \in Runners, Holds(v), Holds(w)
  PROVE  v = w
<1>1. \A u \in Runners : runner[u].lease \in Nat
  BY DEF CodexInv, Typed, RunnerStates
<1> QED
  BY <1>1 DEF CodexInv, LeaseInv, Holds

\* What the holder's place says of the record, in the state that follows.
HeldAt(v) ==
  job'.lease = runner'[v].lease /\ job'.held =>
    /\ runner'[v].at \in {"claimed", "read"} => job'.state = runner'[v].state
    /\ runner'[v].at = "read" => job'.state \notin Ends
    /\ runner'[v].at = "thread" => job'.state = "prepared"
    /\ runner'[v].at \in {"askThread", "threadAnswered"} => job'.state = "thread_starting"
    /\ runner'[v].at = "ready" => job'.state = "thread_ready"
    /\ runner'[v].at \in {"askTurn", "turnAnswered"} => job'.state = "turn_starting"
    /\ runner'[v].at = "loop" => job'.state \in {"running"} \cup Ends

\* What the record says while the holder stands somewhere.
LEMMA HolderKept == ASSUME CodexInv, RunStep PROVE HolderInv'
<1>0. /\ runs \in Nat /\ job.lease \in Nat /\ \A v \in Runners : runner[v].lease \in Nat
      /\ LeaseInv /\ HolderInv
  BY DEF CodexInv, Typed, Jobs, RunnerStates
<1>3. ASSUME NEW v \in Runners, SameRun(v), job'.lease = job.lease, job'.held => job.held,
             job'.state = job.state
      PROVE  HeldAt(v)
  BY <1>0, <1>3 DEF HolderInv, Holds, SameRun, HeldAt
<1>1. CASE (\A v \in Runners : SameRun(v)) /\ JobKept
  BY <1>1, <1>3 DEF HolderInv, Holds, JobKept, HeldAt
<1>2. ASSUME NEW w \in Runners, \A v \in Runners : v # w => SameRun(v),
             Begins(w) \/ Rests(w) \/ Walks(w) \/ Asks(w) \/ Notes(w)
      PROVE  \A v \in Runners : HeldAt(v)
  <2>1. CASE Begins(w)
    BY <1>0, <1>2, <2>1 DEF LeaseInv, SameRun, Begins, JobIs, HeldAt
  <2>2. CASE Rests(w)
    <3>1. HeldAt(w)
      BY <2>2 DEF Rests, HeldAt
    <3>2. CASE JobSame
      BY <1>2, <1>3, <3>1, <3>2 DEF JobSame, JobIs
    <3>3. CASE JobIs(job.state, job.thread, job.turn, 0, FALSE)
      BY <3>3 DEF JobIs, HeldAt
    <3> QED
      BY <2>2, <3>2, <3>3 DEF Rests
  <2>3. CASE Walks(w)
    <3>1. HeldAt(w)
      BY <1>0, <2>3 DEF HolderInv, Holds, Walks, JobSame, JobIs, HeldAt
    <3> QED
      BY <1>2, <1>3, <2>3, <3>1 DEF Walks, JobSame, JobIs
  <2>4. CASE Asks(w)
    <3>1. HeldAt(w)
      BY <1>0, <2>4 DEF HolderInv, Holds, Asks, JobSame, JobIs, HeldAt
    <3> QED
      BY <1>2, <1>3, <2>4, <3>1 DEF Asks, JobSame, JobIs
  <2>5. CASE Notes(w)
    <3>1. HeldAt(w)
      BY <1>0, <2>5 DEF HolderInv, Holds, Notes, Says, JobIs, HeldAt, Ends
    <3>2. ASSUME NEW v \in Runners, v # w PROVE HeldAt(v)
      <4>1. ~Holds(v) /\ SameRun(v)
        BY <1>2, <2>5, <3>2, OneHolds DEF Notes
      <4>2. job'.lease = job.lease /\ job'.held = job.held
        BY <2>5 DEF Notes, Says, JobIs
      <4> QED
        BY <4>1, <4>2 DEF Holds, SameRun, HeldAt
    <3> QED
      BY <3>1, <3>2
  <2> QED
    BY <1>2, <2>1, <2>2, <2>3, <2>4, <2>5
<1>4. (\A v \in Runners : HeldAt(v)) => HolderInv'
  BY DEF HolderInv, Holds, HeldAt
<1> QED
  BY <1>1, <1>2, <1>4 DEF RunStep

\* What holds of the record where a run notes something.
LEMMA NotedFrom ==
  ASSUME CodexInv, NEW w \in Runners, Notes(w)
  PROVE  /\ runner[w].at = "thread" => job.state = "prepared"
         /\ runner[w].at = "threadAnswered" => job.state = "thread_starting"
         /\ runner[w].at = "ready" => job.state = "thread_ready"
         /\ runner[w].at = "turnAnswered" => job.state = "turn_starting"
         /\ runner[w].at = "read" => job.state \notin Ends
<1>1. HolderInv /\ Holds(w)
  BY DEF CodexInv, Notes
<1> QED
  BY <1>1 DEF HolderInv

\* What a step leaves of a recorded end, and of a thread that is there.
LEMMA EndStays ==
  ASSUME CodexInv, RunStep
  PROVE  job.state \in Ends => job'.state = job.state
<1>1. ASSUME NEW w \in Runners, Notes(w)
      PROVE  job.state \in Ends => job'.state = job.state
  <2>1. CASE runner[w].at \in {"thread", "ready", "threadAnswered", "turnAnswered", "read"}
    BY <1>1, <2>1, NotedFrom DEF Ends
  <2>2. CASE runner[w].at \in {"claimed", "ready"} /\ job.state \in {"prepared", "thread_ready"}
    BY <2>2 DEF Ends
  <2>3. CASE job.state \notin Ends
    BY <2>3
  <2> QED
    BY <1>1, <2>1, <2>2, <2>3 DEF Notes
<1> QED
  BY <1>1 DEF RunStep, JobKept, Begins, Rests, Walks, Asks, JobSame, JobIs

\* Nobody asks for what the record does not say was begun.
LEMMA AskKept == ASSUME CodexInv, RunStep PROVE AskInv'
<1>0. /\ AskInv /\ codex.threads \in Nat /\ codex.turns \in Nat
  BY DEF CodexInv, Typed, Threads
<1>1. CASE (\A v \in Runners : SameRun(v)) /\ JobKept /\ TurnKept
  BY <1>0, <1>1 DEF AskInv, Asking, SameRun, JobKept, TurnKept, Ends
<1>2. ASSUME NEW w \in Runners, \A v \in Runners : v # w => SameRun(v),
             Begins(w) \/ Rests(w) \/ Walks(w) \/ Asks(w) \/ Notes(w)
      PROVE  AskInv'
  <2>1. CASE Begins(w)
    BY <1>0, <1>2, <2>1 DEF AskInv, Asking, SameRun, Begins, TurnSame, JobIs
  <2>2. CASE Rests(w)
    BY <1>0, <1>2, <2>2 DEF AskInv, Asking, SameRun, Rests, TurnKept, JobSame, JobIs, Ends
  <2>3. CASE Walks(w)
    <3>1. /\ job'.state = job.state /\ job'.thread = job.thread
          /\ codex'.threads = codex.threads /\ codex'.turns = codex.turns
          /\ codex'.turn = codex.turn
          /\ runner'[w].at \notin {"askThread", "askTurn", "turnAnswered"}
          /\ runner'[w].at \in {"read", "ready"} => job.thread
      BY <1>0, <2>3 DEF AskInv, Walks, TurnSame, JobSame, JobIs
    <3> QED
      BY <1>0, <1>2, <3>1 DEF AskInv, Asking, SameRun
  <2>4. CASE Asks(w)
    <3>1. job'.state = job.state /\ job'.thread = job.thread
      BY <2>4 DEF Asks, JobSame, JobIs
    <3>2. CASE /\ runner[w].at = "askThread" /\ runner'[w].at \in {"threadAnswered", "fail"}
               /\ codex'.threads = codex.threads + 1 /\ codex'.turns = codex.turns
               /\ codex'.turn = codex.turn
      BY <1>0, <1>2, <3>1, <3>2 DEF AskInv, Asking, SameRun
    <3>3. CASE /\ runner[w].at = "askTurn" /\ runner'[w].at \in {"turnAnswered", "fail"}
               /\ codex'.threads = codex.threads /\ codex'.turns = codex.turns + 1
               /\ codex'.turn = "running"
      BY <1>0, <1>2, <3>1, <3>3 DEF AskInv, Asking, SameRun
    <3> QED
      BY <2>4, <3>2, <3>3 DEF Asks
  <2>5. CASE Notes(w)
    <3>0. /\ codex'.threads = codex.threads /\ codex'.turns = codex.turns
          /\ codex'.turn = codex.turn
      BY <2>5 DEF Notes, TurnSame
    <3>1. CASE /\ runner[w].at = "thread" /\ runner'[w].at = "askThread"
               /\ Says("thread_starting")
      <4>1. job.state = "prepared"
        BY <2>5, <3>1, NotedFrom
      <4> QED
        BY <1>0, <1>2, <3>0, <3>1, <4>1 DEF AskInv, Asking, SameRun, Says, JobIs
    <3>2. CASE /\ runner[w].at = "ready" /\ runner'[w].at = "askTurn"
               /\ Says("turn_starting")
      <4>1. job.state = "thread_ready"
        BY <2>5, <3>2, NotedFrom
      <4> QED
        BY <1>0, <1>2, <3>0, <3>2, <4>1 DEF AskInv, Asking, SameRun, Says, JobIs
    <3>3. CASE /\ runner[w].at = "threadAnswered" /\ runner'[w].at = "ready"
               /\ JobIs("thread_ready", TRUE, job.turn, job.lease, job.held)
      <4>1. job.state = "thread_starting"
        BY <2>5, <3>3, NotedFrom
      <4> QED
        BY <1>0, <1>2, <3>0, <3>3, <4>1 DEF AskInv, Asking, SameRun, JobIs
    <3>4. CASE /\ runner[w].at = "turnAnswered" /\ runner'[w].at = "loop"
               /\ JobIs("running", job.thread, TRUE, job.lease, job.held)
      BY <1>0, <1>2, <3>0, <3>4 DEF AskInv, Asking, SameRun, JobIs
    <3>5. CASE /\ runner[w].at \in {"claimed", "ready"} /\ runner'[w].at = "release"
               /\ job.state \in {"prepared", "thread_ready"} /\ Says("interrupted")
      BY <1>0, <1>2, <3>0, <3>5 DEF AskInv, Asking, SameRun, Says, JobIs
    <3>6. CASE /\ runner[w].at = "read" /\ codex.turn # "none"
               /\ \E s \in {"running"} \cup Ends :
                    /\ JobIs(s, job.thread, TRUE, job.lease, job.held)
                    /\ \/ runner'[w].at \in {"release", "fail"}
                       \/ (runner'[w].at = "loop" /\ s = "running")
      BY <1>0, <1>2, <3>0, <3>6 DEF AskInv, Asking, SameRun, JobIs, Ends
    <3>7. CASE /\ runner[w].at \in {"loop", "fail"} /\ job.state \notin Ends
               /\ \/ runner[w].at = "loop" /\ runner'[w].at = "loop"
                  \/ runner[w].at = "fail" /\ runner'[w].at = "release"
               /\ \E s \in {"unknown"} \cup Ends :
                    /\ Says(s) /\ (s \in Ends => s = codex.turn)
                    /\ s = "unknown" => runner[w].at = "fail"
      <4>1. PICK s \in {"unknown"} \cup Ends :
              Says(s) /\ (s \in Ends => s = codex.turn)
        BY <3>7
      <4>2. /\ job'.state = s /\ job'.thread = job.thread
            /\ s # "unknown" => codex.turns # 0
            /\ s \notin {"prepared", "thread_starting", "thread_ready"}
        BY <1>0, <4>1 DEF Says, JobIs, AskInv, Ends
      <4> QED
        BY <1>0, <1>2, <3>0, <3>7, <4>2 DEF AskInv, Asking, SameRun
    <3> QED
      BY <2>5, <3>1, <3>2, <3>3, <3>4, <3>5, <3>6, <3>7 DEF Notes
  <2> QED
    BY <1>2, <2>1, <2>2, <2>3, <2>4, <2>5
<1> QED
  BY <1>1, <1>2 DEF RunStep

\* The work is given once, and the recorded end is the turn's own.
LEMMA RecordKept == ASSUME CodexInv, RunStep PROVE RecordInv'
<1>0. /\ AskInv /\ RecordInv /\ codex.threads \in Nat /\ codex.turns \in Nat
  BY DEF CodexInv, Typed, Threads
<1>1. CASE JobKept /\ TurnKept
  BY <1>0, <1>1 DEF RecordInv, GivenOnce, EndIsTrue, JobKept, TurnKept, Ends
<1>2. ASSUME NEW w \in Runners, Begins(w) \/ Rests(w) \/ Walks(w) \/ Asks(w) \/ Notes(w)
      PROVE  RecordInv'
  <2>1. CASE Begins(w) \/ Rests(w) \/ Walks(w)
    <3>1. /\ job'.state = job.state /\ job'.thread = job.thread /\ job'.turn = job.turn
          /\ TurnKept
      BY <2>1 DEF Begins, Rests, Walks, TurnSame, TurnKept, JobSame, JobIs
    <3> QED
      BY <1>0, <3>1 DEF RecordInv, GivenOnce, EndIsTrue, TurnKept, Ends
  <2>2. CASE Asks(w)
    <3>1. job'.state = job.state /\ job'.thread = job.thread /\ job'.turn = job.turn
      BY <2>2 DEF Asks, JobSame, JobIs
    <3>2. CASE runner[w].at = "askThread"
      BY <1>0, <2>2, <3>1, <3>2 DEF Asks, AskInv, Asking, RecordInv, GivenOnce, EndIsTrue
    <3>3. CASE runner[w].at = "askTurn"
      BY <1>0, <2>2, <3>1, <3>3 DEF Asks, AskInv, Asking, RecordInv, GivenOnce, EndIsTrue
    <3> QED
      BY <2>2, <3>2, <3>3 DEF Asks
  <2>3. CASE Notes(w)
    <3>1. /\ codex'.threads = codex.threads /\ codex'.turns = codex.turns
          /\ codex'.turn = codex.turn
      BY <2>3 DEF Notes, TurnSame
    <3>2. \/ job'.state \notin Ends
          \/ job'.state = codex.turn
          \/ job'.state = "interrupted" /\ codex.turn = "none"
      <4>1. job.state \in {"prepared", "thread_ready"} => codex.turn = "none"
        BY <1>0 DEF AskInv
      <4> QED
        BY <2>3, <4>1 DEF Notes, Says, JobIs, Ends
    <3>3. job'.turn => job'.thread
      BY <1>0, <2>3 DEF Notes, Says, JobIs, AskInv, RecordInv
    <3> QED
      BY <1>0, <3>1, <3>2, <3>3 DEF RecordInv, GivenOnce, EndIsTrue, Ends
  <2> QED
    BY <1>2, <2>1, <2>2, <2>3
<1> QED
  BY <1>1, <1>2 DEF RunStep

\* What has arrived at a run, in the state that follows.
WiredNext(w, k, n) == k \in 1 .. Len(runner'[w].wire) /\ runner'[w].wire[k].ask = n
PendsNext(w, n) == n \in runner'[w].pending
EndsNext(w, k, e) == k \in 1 .. Len(runner'[w].wire) /\ runner'[w].wire[k].end = e
EndsAt(w, k, e) == k \in 1 .. Len(runner[w].wire) /\ runner[w].wire[k].end = e

\* A wire that is kept or emptied.
LEMMA WireStays ==
  ASSUME NEW w \in Runners, runner'[w].wire = runner[w].wire \/ runner'[w].wire = <<>>
  PROVE  /\ \A k \in Nat, n \in Nat : WiredNext(w, k, n) => Wired(w, k, n)
         /\ \A k \in Nat, e \in Ends : EndsNext(w, k, e) => EndsAt(w, k, e)
<1>1. Len(<<>>) = 0
  OBVIOUS
<1> QED
  BY <1>1 DEF WiredNext, Wired, EndsNext, EndsAt

\* A wire at which an event arrives.
LEMMA WireGrows ==
  ASSUME Typed, NEW w \in Runners, NEW e \in Events,
         runner'[w].wire = Append(runner[w].wire, e)
  PROVE  /\ \A k \in Nat, n \in Nat : WiredNext(w, k, n) =>
              Wired(w, k, n) \/ (k = Len(runner[w].wire) + 1 /\ n = e.ask)
         /\ \A k \in Nat, i \in Ends : EndsNext(w, k, i) => EndsAt(w, k, i) \/ i = e.end
<1>1. PICK t \in Seq(Events) : t = runner[w].wire
  BY DEF Typed, RunnerStates
<1>2. PICK s \in Seq(Events) : s = Append(t, e)
  <2>1. Append(t, e) \in Seq(Events)
    OBVIOUS
  <2> QED
    BY <2>1
<1>3. /\ Len(s) = Len(t) + 1 /\ Len(t) \in Nat
      /\ \A k \in 1 .. Len(s) : s[k] = IF k <= Len(t) THEN t[k] ELSE e
  BY <1>2
<1>4. \A k \in Nat : k \in 1 .. Len(s) =>
        \/ k \in 1 .. Len(t) /\ s[k] = t[k]
        \/ k = Len(t) + 1 /\ s[k] = e
  BY <1>3
<1>5. runner'[w].wire = s
  BY <1>1, <1>2
<1> QED
  BY <1>1, <1>4, <1>5 DEF WiredNext, Wired, EndsNext, EndsAt

\* A wire from which the first event is taken.
LEMMA WireShrinks ==
  ASSUME Typed, NEW w \in Runners, runner[w].wire # <<>>,
         runner'[w].wire = Tail(runner[w].wire)
  PROVE  /\ \A k \in Nat, n \in Nat : WiredNext(w, k, n) => Wired(w, k + 1, n) /\ k > 0
         /\ \A k \in Nat, i \in Ends : EndsNext(w, k, i) => EndsAt(w, k + 1, i)
         /\ \A n \in Nat : runner[w].wire[1].ask = n => Wired(w, 1, n)
<1>1. PICK t \in Seq(Events) : t = runner[w].wire /\ t # <<>>
  BY DEF Typed, RunnerStates
<1>2. PICK s \in Seq(Events) : s = Tail(t)
  <2>1. Tail(t) \in Seq(Events)
    BY <1>1
  <2> QED
    BY <2>1
<1>3. /\ Len(s) = Len(t) - 1 /\ Len(t) \in Nat /\ Len(t) > 0
      /\ \A k \in 1 .. Len(s) : s[k] = t[k + 1]
  BY <1>1, <1>2
<1>4. \A k \in Nat : k \in 1 .. Len(s) => k > 0 /\ k + 1 \in 1 .. Len(t) /\ s[k] = t[k + 1]
  BY <1>3
<1>5. runner'[w].wire = s /\ 1 \in 1 .. Len(t)
  BY <1>1, <1>2, <1>3
<1> QED
  BY <1>1, <1>4, <1>5 DEF WiredNext, Wired, EndsNext, EndsAt

\* The others' wires stay.
LEMMA OthersWires ==
  ASSUME NEW w \in Runners, OneTalks(w), NEW v \in Runners, v # w
  PROVE  /\ \A k \in Nat, n \in Nat : WiredNext(v, k, n) => Wired(v, k, n)
         /\ \A k \in Nat, e \in Ends : EndsNext(v, k, e) => EndsAt(v, k, e)
         /\ \A n \in Nat : PendsNext(v, n) => Pends(v, n)
<1>1. runner'[v].wire = runner[v].wire /\ runner'[v].pending = runner[v].pending
  BY DEF OneTalks, SameWire
<1> QED
  BY <1>1, WireStays DEF PendsNext, Pends

\* What has arrived is what the turn came to, and arrived at a run in progress.
LEMMA WireKept == ASSUME CodexInv, WireStep PROVE WireInv'
<1>0. Typed /\ WireInv
  BY DEF CodexInv
<1>1. \A v \in Runners : runner'[v].at = "idle" => runner'[v].wire = <<>>
  BY <1>0 DEF WireStep, WireInv, SameWire
<1>2. codex'.turn = "running" /\ codex'.in \in Runners => runner'[codex'.in].at # "idle"
  BY DEF WireStep
<1>3. \A v \in Runners, k \in Nat, e \in Ends : EndsAt(v, k, e) => codex.turn = e
  BY <1>0 DEF WireInv, EndsAt
<1>4. codex.turn \in Ends => codex'.turn = codex.turn
  BY DEF WireStep
<1>5. \A v \in Runners, k \in Nat, e \in Ends : EndsNext(v, k, e) => codex'.turn = e
  <2>1. CASE Wireless
    <3>1. \A v \in Runners, k \in Nat, e \in Ends : EndsNext(v, k, e) => EndsAt(v, k, e)
      BY <2>1, WireStays DEF Wireless, SameWire
    <3> QED
      BY <1>3, <1>4, <3>1
  <2>2. ASSUME NEW w \in Runners, EndArrives(w)
        PROVE  \A v \in Runners, k \in Nat, e \in Ends : EndsNext(v, k, e) => codex'.turn = e
    <3>1. PICK s \in Ends :
            /\ codex'.turn = s /\ codex.turn = "running"
            /\ runner'[w].wire = Append(runner[w].wire, [end |-> s, ask |-> 0])
      BY <2>2 DEF EndArrives
    <3>2. PICK d \in Events : d = [end |-> s, ask |-> 0]
      <4>1. PICK i \in Ends \cup {"none"}, n \in 0 .. MaxAsks : i = s /\ n = 0
        BY CodexAssumption
      <4>2. PICK d \in Events : d = [end |-> i, ask |-> n]
        BY DEF Events
      <4> QED
        BY <4>1, <4>2
    <3>3. \A k \in Nat, e \in Ends : EndsNext(w, k, e) => EndsAt(w, k, e) \/ e = s
      <4>1. \A k \in Nat, e \in Ends : EndsNext(w, k, e) => EndsAt(w, k, e) \/ e = d.end
        BY <1>0, <3>1, <3>2, WireGrows
      <4> QED
        BY <3>2, <4>1
    <3>4. \A v \in Runners, k \in Nat, e \in Ends :
            EndsNext(v, k, e) => EndsAt(v, k, e) \/ e = s
      BY <2>2, <3>3, OthersWires DEF EndArrives
    <3>5. \A v \in Runners, k \in Nat, e \in Ends : ~EndsAt(v, k, e)
      BY <1>3, <3>1 DEF Ends
    <3> QED
      BY <3>1, <3>4, <3>5
  <2>3. ASSUME NEW w \in Runners, AskArrives(w)
        PROVE  \A v \in Runners, k \in Nat, e \in Ends : EndsNext(v, k, e) => codex'.turn = e
    <3>2. PICK d \in Events : d = [end |-> "none", ask |-> codex.asked + 1]
      <4>1. PICK i \in Ends \cup {"none"}, n \in 0 .. MaxAsks :
              i = "none" /\ n = codex.asked + 1
        <5>1. codex'.asked \in 0 .. MaxAsks /\ codex'.asked = codex.asked + 1
          BY <2>3 DEF AskArrives, WireStep, Threads
        <5> QED
          BY <5>1
      <4>2. PICK d \in Events : d = [end |-> i, ask |-> n]
        BY DEF Events
      <4> QED
        BY <4>1, <4>2
    <3>3. \A k \in Nat, e \in Ends : EndsNext(w, k, e) => EndsAt(w, k, e)
      <4>1. \A k \in Nat, e \in Ends : EndsNext(w, k, e) => EndsAt(w, k, e) \/ e = d.end
        BY <1>0, <2>3, <3>2, WireGrows DEF AskArrives
      <4> QED
        BY <3>2, <4>1 DEF Ends
    <3>4. \A v \in Runners, k \in Nat, e \in Ends : EndsNext(v, k, e) => EndsAt(v, k, e)
      BY <2>3, <3>3, OthersWires DEF AskArrives
    <3> QED
      BY <1>3, <1>4, <3>4
  <2>4. ASSUME NEW w \in Runners, EventTaken(w)
        PROVE  \A v \in Runners, k \in Nat, e \in Ends : EndsNext(v, k, e) => codex'.turn = e
    <3>1. \A k \in Nat, e \in Ends : EndsNext(w, k, e) => EndsAt(w, k + 1, e)
      BY <1>0, <2>4, WireShrinks DEF EventTaken
    <3>2. \A v \in Runners, k \in Nat, e \in Ends :
            EndsNext(v, k, e) => EndsAt(v, k, e) \/ EndsAt(v, k + 1, e)
      BY <2>4, <3>1, OthersWires DEF EventTaken
    <3> QED
      BY <1>3, <1>4, <3>2
  <2>5. ASSUME NEW w \in Runners, NEW n \in 1 .. MaxAsks, Told(w, n)
        PROVE  \A v \in Runners, k \in Nat, e \in Ends : EndsNext(v, k, e) => codex'.turn = e
    <3>1. \A k \in Nat, e \in Ends : EndsNext(w, k, e) => EndsAt(w, k, e)
      BY <2>5, WireStays DEF Told
    <3>2. \A v \in Runners, k \in Nat, e \in Ends : EndsNext(v, k, e) => EndsAt(v, k, e)
      BY <2>5, <3>1, OthersWires DEF Told
    <3> QED
      BY <1>3, <1>4, <3>2
  <2> QED
    BY <2>1, <2>2, <2>3, <2>4, <2>5 DEF WireStep
<1>6. \A v \in Runners : Len(runner'[v].wire) \in Nat
  <2>1. ASSUME NEW v \in Runners PROVE Len(runner'[v].wire) \in Nat
    <3>1. PICK t \in Seq(Events) : t = runner'[v].wire
      BY DEF WireStep, RunnerStates
    <3> QED
      BY <3>1
  <2> QED
    BY <2>1
<1>7. \A v \in Runners : \A k \in 1 .. Len(runner'[v].wire) :
        runner'[v].wire[k].end \in Ends => codex'.turn = runner'[v].wire[k].end
  BY <1>5, <1>6 DEF EndsNext
<1> QED
  BY <1>1, <1>2, <1>7 DEF WireInv

\* Where an approval is, in the state that follows.
PlacedNext ==
  \A n \in 1 .. MaxAsks, w \in Runners :
    /\ PendsNext(w, n) =>
         /\ n <= codex'.asked /\ codex'.told[n] = 0
         /\ \A v \in Runners : PendsNext(v, n) => v = w
    /\ \A k \in Nat : WiredNext(w, k, n) =>
         /\ n <= codex'.asked /\ codex'.told[n] = 0
         /\ \A v \in Runners : ~PendsNext(v, n)
         /\ \A v \in Runners, j \in Nat : WiredNext(v, j, n) => v = w /\ j = k
ToldNext ==
  \A n \in 1 .. MaxAsks :
    codex'.told[n] <= 1 /\ (codex'.told[n] > 0 => n <= codex'.asked)

\* No approval comes to a place where it was not.
LEMMA FewerPlaces ==
  ASSUME CodexInv, SameTalk,
         \A v \in Runners, n \in 1 .. MaxAsks :
           /\ PendsNext(v, n) => Pends(v, n)
           /\ \A k \in Nat : WiredNext(v, k, n) => Wired(v, k, n)
  PROVE  PlacedNext /\ ToldNext
<1>1. ApprovalInv /\ codex'.asked = codex.asked /\ codex'.told = codex.told
  BY DEF CodexInv, SameTalk
<1>2. ToldNext
  BY <1>1 DEF ApprovalInv, ToldNext
<1>3. PlacedNext
  BY <1>1 DEF ApprovalInv, PlacedNext
<1> QED
  BY <1>2, <1>3

\* An approval is in one place, and not answered before it has left it.
LEMMA ApprovalKept == ASSUME CodexInv, WireStep PROVE ApprovalInv'
<1>0. Typed /\ ApprovalInv
  BY DEF CodexInv
<1>1. /\ codex.asked \in Nat /\ codex.waits \in Nat /\ codex'.asked \in 0 .. MaxAsks
      /\ codex'.waits \in Nat /\ MaxAsks \in Nat
      /\ \A n \in 1 .. MaxAsks : codex.told[n] \in Nat /\ codex'.told[n] \in Nat /\ n \in Nat
  BY <1>0, CodexAssumption DEF Typed, WireStep, Threads
<1>2. codex'.waits <= codex'.asked
  <2>1. codex.waits <= codex.asked /\ codex.asked <= codex'.asked
    BY <1>0, <1>1 DEF ApprovalInv, WireStep
  <2>2. codex'.waits \in {codex.waits, 0, codex'.asked}
    BY DEF WireStep
  <2> QED
    BY <1>1, <2>1, <2>2
<1>3. ASSUME Wireless PROVE PlacedNext /\ ToldNext
  <2>1. \A v \in Runners, n \in 1 .. MaxAsks :
          /\ PendsNext(v, n) => Pends(v, n)
          /\ \A k \in Nat : WiredNext(v, k, n) => Wired(v, k, n)
    <3>1. ASSUME NEW v \in Runners, NEW n \in 1 .. MaxAsks
          PROVE  /\ PendsNext(v, n) => Pends(v, n)
                 /\ \A k \in Nat : WiredNext(v, k, n) => Wired(v, k, n)
      <4>1. /\ runner'[v].wire = runner[v].wire \/ runner'[v].wire = <<>>
            /\ runner'[v].pending = runner[v].pending \/ runner'[v].pending = {}
        BY <1>3 DEF Wireless, SameWire
      <4> QED
        BY <1>1, <4>1, WireStays DEF PendsNext, Pends
    <3> QED
      BY <3>1
  <2> QED
    BY <1>3, <2>1, FewerPlaces DEF Wireless
<1>4. ASSUME NEW w \in Runners, EndArrives(w) PROVE PlacedNext /\ ToldNext
  <2>1. PICK s \in Ends : runner'[w].wire = Append(runner[w].wire, [end |-> s, ask |-> 0])
    BY <1>4 DEF EndArrives
  <2>2. PICK d \in Events : d = [end |-> s, ask |-> 0]
    <3>1. PICK i \in Ends \cup {"none"}, n \in 0 .. MaxAsks : i = s /\ n = 0
      BY CodexAssumption
    <3>2. PICK d \in Events : d = [end |-> i, ask |-> n]
      BY DEF Events
    <3> QED
      BY <3>1, <3>2
  <2>3. \A k \in Nat, n \in Nat :
          WiredNext(w, k, n) => Wired(w, k, n) \/ (k = Len(runner[w].wire) + 1 /\ n = d.ask)
    BY <1>0, <2>1, <2>2, WireGrows
  <2>4. d.ask = 0 /\ runner'[w].pending = runner[w].pending
    BY <1>4, <2>2 DEF EndArrives
  <2>5. \A v \in Runners, n \in 1 .. MaxAsks :
          /\ PendsNext(v, n) => Pends(v, n)
          /\ \A k \in Nat : WiredNext(v, k, n) => Wired(v, k, n)
    <3>1. ASSUME NEW v \in Runners, NEW n \in 1 .. MaxAsks, v # w
          PROVE  /\ PendsNext(v, n) => Pends(v, n)
                 /\ \A k \in Nat : WiredNext(v, k, n) => Wired(v, k, n)
      BY <1>1, <1>4, <3>1, OthersWires DEF EndArrives
    <3>2. ASSUME NEW n \in 1 .. MaxAsks
          PROVE  /\ PendsNext(w, n) => Pends(w, n)
                 /\ \A k \in Nat : WiredNext(w, k, n) => Wired(w, k, n)
      BY <1>1, <2>3, <2>4 DEF PendsNext, Pends
    <3> QED
      BY <3>1, <3>2
  <2> QED
    BY <1>4, <2>5, FewerPlaces DEF EndArrives
<1>5. ASSUME NEW w \in Runners, AskArrives(w) PROVE PlacedNext /\ ToldNext
  <2>1. PICK m \in 1 .. MaxAsks : m = codex.asked + 1 /\ m = codex'.asked
    <3>1. codex'.asked = codex.asked + 1
      BY <1>5 DEF AskArrives
    <3> QED
      BY <1>1, <3>1
  <2>2. PICK d \in Events : d = [end |-> "none", ask |-> codex.asked + 1]
    <3>1. PICK i \in Ends \cup {"none"}, n \in 0 .. MaxAsks : i = "none" /\ n = m
      BY <1>1
    <3>2. PICK d \in Events : d = [end |-> i, ask |-> n]
      BY DEF Events
    <3> QED
      BY <2>1, <3>1, <3>2
  <2>3. PICK last \in Nat : \A k \in Nat, n \in Nat :
          WiredNext(w, k, n) => Wired(w, k, n) \/ (k = last /\ n = m)
    <3>1. PICK t \in Seq(Events) : t = runner[w].wire
      BY <1>0 DEF Typed, RunnerStates
    <3>2. PICK last \in Nat : last = Len(runner[w].wire) + 1
      BY <3>1
    <3>3. \A k \in Nat, n \in Nat : WiredNext(w, k, n) =>
            Wired(w, k, n) \/ (k = Len(runner[w].wire) + 1 /\ n = d.ask)
      BY <1>0, <1>5, <2>2, WireGrows DEF AskArrives
    <3>4. d.ask = m
      BY <2>1, <2>2
    <3> QED
      BY <3>2, <3>3, <3>4
  <2>4. \A v \in Runners, n \in 1 .. MaxAsks :
          /\ PendsNext(v, n) => Pends(v, n)
          /\ \A k \in Nat : WiredNext(v, k, n) =>
               Wired(v, k, n) \/ (v = w /\ k = last /\ n = m)
    <3>1. ASSUME NEW v \in Runners, NEW n \in 1 .. MaxAsks, v # w
          PROVE  /\ PendsNext(v, n) => Pends(v, n)
                 /\ \A k \in Nat : WiredNext(v, k, n) => Wired(v, k, n)
      BY <1>1, <1>5, <3>1, OthersWires DEF AskArrives
    <3>2. ASSUME NEW n \in 1 .. MaxAsks
          PROVE  /\ PendsNext(w, n) => Pends(w, n)
                 /\ \A k \in Nat : WiredNext(w, k, n) => Wired(w, k, n) \/ (k = last /\ n = m)
      <4>1. runner'[w].pending = runner[w].pending
        BY <1>5 DEF AskArrives
      <4> QED
        BY <1>1, <2>3, <4>1 DEF PendsNext, Pends
    <3> QED
      BY <3>1, <3>2
  <2>5. /\ codex.told[m] = 0 /\ codex'.told = codex.told
        /\ \A v \in Runners : ~Pends(v, m) /\ \A k \in Nat : ~Wired(v, k, m)
    <3>1. ~(m <= codex.asked) /\ codex'.told = codex.told
      BY <1>1, <1>5, <2>1 DEF AskArrives
    <3> QED
      BY <1>0, <1>1, <3>1 DEF ApprovalInv
  <2>6. \A n \in 1 .. MaxAsks : n <= codex.asked => n <= codex'.asked
    BY <1>1, <2>1
  <2>7. m <= codex'.asked
    BY <1>1, <2>1
  <2>8. ToldNext
    BY <1>0, <2>5, <2>6 DEF ApprovalInv, ToldNext
  <2>9. PlacedNext
    BY <1>0, <2>4, <2>5, <2>6, <2>7 DEF ApprovalInv, PlacedNext
  <2> QED
    BY <2>8, <2>9
<1>6. ASSUME NEW w \in Runners, EventTaken(w) PROVE PlacedNext /\ ToldNext
  <2>1. /\ \A k \in Nat, n \in Nat : WiredNext(w, k, n) => Wired(w, k + 1, n) /\ k > 0
        /\ \A n \in Nat : runner[w].wire[1].ask = n => Wired(w, 1, n)
    BY <1>0, <1>6, WireShrinks DEF EventTaken
  <2>2. \A n \in 1 .. MaxAsks : PendsNext(w, n) => Pends(w, n) \/ Wired(w, 1, n)
    BY <1>1, <1>6, <2>1 DEF EventTaken, PendsNext, Pends
  <2>3. \A v \in Runners, n \in 1 .. MaxAsks : v # w =>
          /\ PendsNext(v, n) => Pends(v, n)
          /\ \A k \in Nat : WiredNext(v, k, n) => Wired(v, k, n)
    BY <1>1, <1>6, OthersWires DEF EventTaken
  <2>4. codex'.asked = codex.asked /\ codex'.told = codex.told
    BY <1>6 DEF EventTaken, SameTalk
  <2>5. ToldNext
    BY <1>0, <2>4 DEF ApprovalInv, ToldNext
  <2>6. \A v \in Runners, n \in 1 .. MaxAsks :
          PendsNext(v, n) => Pends(v, n) \/ (v = w /\ Wired(w, 1, n))
    BY <2>2, <2>3
  <2>7. ASSUME NEW n \in 1 .. MaxAsks, NEW v \in Runners, NEW k \in Nat, WiredNext(v, k, n)
        PROVE  \E j \in Nat : Wired(v, j, n) /\ (v = w => j = k + 1 /\ j # 1) /\ (v # w => j = k)
    <3>1. CASE v = w
      <4>1. PICK j \in Nat : j = k + 1 /\ j # 1 /\ Wired(w, j, n)
        BY <1>1, <2>1, <2>7, <3>1
      <4> QED
        BY <3>1, <4>1
    <3>2. CASE v # w
      BY <2>3, <2>7, <3>2
    <3> QED
      BY <3>1, <3>2
  <2>8. ASSUME NEW n \in 1 .. MaxAsks, NEW v \in Runners, PendsNext(v, n)
        PROVE  /\ n <= codex.asked /\ codex.told[n] = 0
               /\ \A u \in Runners : PendsNext(u, n) => u = v
    <3>1. CASE Pends(v, n)
      BY <1>0, <2>6, <2>8, <3>1 DEF ApprovalInv
    <3>2. CASE v = w /\ Wired(w, 1, n)
      BY <1>0, <2>6, <2>8, <3>2 DEF ApprovalInv
    <3> QED
      BY <2>6, <2>8, <3>1, <3>2
  <2>9. ASSUME NEW n \in 1 .. MaxAsks, NEW v \in Runners, NEW k \in Nat, WiredNext(v, k, n)
        PROVE  /\ n <= codex.asked /\ codex.told[n] = 0
               /\ \A u \in Runners : ~PendsNext(u, n)
               /\ \A u \in Runners, j \in Nat : WiredNext(u, j, n) => u = v /\ j = k
    <3>1. PICK i \in Nat :
            Wired(v, i, n) /\ (v = w => i = k + 1 /\ i # 1) /\ (v # w => i = k)
      BY <2>7, <2>9
    <3>2. /\ n <= codex.asked /\ codex.told[n] = 0
          /\ \A u \in Runners : ~Pends(u, n)
          /\ \A u \in Runners, j \in Nat : Wired(u, j, n) => u = v /\ j = i
      BY <1>0, <3>1 DEF ApprovalInv
    <3>3. ~(v = w /\ Wired(w, 1, n)) /\ (Wired(w, 1, n) => v = w)
      BY <3>1, <3>2
    <3>4. \A u \in Runners : ~PendsNext(u, n)
      BY <2>6, <3>2, <3>3
    <3>5. ASSUME NEW u \in Runners, NEW j \in Nat, WiredNext(u, j, n) PROVE u = v /\ j = k
      <4>1. PICK h \in Nat :
              Wired(u, h, n) /\ (u = w => h = j + 1 /\ h # 1) /\ (u # w => h = j)
        BY <2>7, <3>5
      <4>2. u = v /\ h = i
        BY <3>2, <4>1
      <4> QED
        BY <3>1, <4>1, <4>2
    <3> QED
      BY <3>2, <3>4, <3>5
  <2>10. PlacedNext
    BY <2>4, <2>8, <2>9 DEF PlacedNext
  <2> QED
    BY <2>5, <2>10
<1>7. ASSUME NEW w \in Runners, NEW m \in 1 .. MaxAsks, Told(w, m)
      PROVE  PlacedNext /\ ToldNext
  <2>1. \A v \in Runners, n \in 1 .. MaxAsks :
          /\ PendsNext(v, n) => Pends(v, n) /\ (v = w => n # m)
          /\ \A k \in Nat : WiredNext(v, k, n) => Wired(v, k, n)
    <3>1. \A v \in Runners, n \in 1 .. MaxAsks : v # w =>
            /\ PendsNext(v, n) => Pends(v, n)
            /\ \A k \in Nat : WiredNext(v, k, n) => Wired(v, k, n)
      BY <1>1, <1>7, OthersWires DEF Told
    <3>2. \A n \in 1 .. MaxAsks : PendsNext(w, n) => Pends(w, n) /\ n # m
      BY <1>7 DEF Told, PendsNext, Pends
    <3>3. \A n \in 1 .. MaxAsks, k \in Nat : WiredNext(w, k, n) => Wired(w, k, n)
      BY <1>1, <1>7, WireStays DEF Told
    <3> QED
      BY <3>1, <3>2, <3>3
  <2>2. /\ Pends(w, m) /\ codex'.asked = codex.asked
        /\ codex'.told[m] \in {codex.told[m], codex.told[m] + 1}
        /\ \A n \in 1 .. MaxAsks : n # m => codex'.told[n] = codex.told[n]
    BY <1>7 DEF Told
  <2>3. /\ codex.told[m] = 0 /\ m <= codex.asked
        /\ \A v \in Runners : (Pends(v, m) => v = w) /\ \A k \in Nat : ~Wired(v, k, m)
    BY <1>0, <2>2 DEF ApprovalInv
  <2>4. codex'.told[m] <= 1
    BY <2>2, <2>3
  <2>5. ToldNext
    BY <1>0, <2>2, <2>3, <2>4 DEF ApprovalInv, ToldNext
  <2>6. \A v \in Runners : ~PendsNext(v, m) /\ \A k \in Nat : ~WiredNext(v, k, m)
    BY <2>1, <2>3
  <2>7. PlacedNext
    BY <1>0, <2>1, <2>2, <2>6 DEF ApprovalInv, PlacedNext
  <2> QED
    BY <2>5, <2>7
<1>8. PlacedNext /\ ToldNext
  BY <1>3, <1>4, <1>5, <1>6, <1>7 DEF WireStep
<1> QED
  BY <1>2, <1>8 DEF ApprovalInv, PlacedNext, ToldNext, PendsNext, Pends, WiredNext, Wired

\* A control that has no receipt was not sent, and one run sends it.
LEMMA ControlKept == ASSUME CodexInv, ControlStep PROVE ControlInv'
<1>0. /\ Typed /\ ControlInv /\ "none" \notin SteerActions
      /\ \A a \in SteerActions : codex.steered[a] \in Nat
      /\ codex.steered \in [SteerActions -> Nat] /\ job.controls \in [SteerActions -> Receipts]
  BY CodexAssumption DEF CodexInv, Typed, Threads, Jobs
<1>1. CASE Uncontrolled
  BY <1>0, <1>1 DEF ControlInv, Sends, Uncontrolled, SameControl
<1>2. ASSUME NEW w \in Runners, NEW a \in SteerActions,
             \A v \in Runners : v # w => SameControl(v),
             Named(w, a) \/ Reaches(w, a) \/ Acked(w, a)
      PROVE  ControlInv'
  <2>1. CASE Named(w, a)
    <3>1. /\ job'.controls[a] = "unknown" /\ codex'.steered = codex.steered
          /\ \A b \in SteerActions : b # a => job'.controls[b] = job.controls[b]
          /\ runner'[w].control = a /\ runner'[w].answer = runner[w].answer
          /\ job.controls[a] = "none" /\ runner[w].control = "none"
      BY <1>0, <2>1 DEF Named
    <3>2. /\ runner[w].answer # "taken" /\ codex.steered[a] = 0
          /\ \A v \in Runners : ~Sends(v, a)
      BY <1>0, <3>1 DEF ControlInv
    <3> QED
      BY <1>0, <1>2, <3>1, <3>2 DEF ControlInv, Sends, SameControl
  <2>2. CASE Reaches(w, a)
    <3>1. /\ job'.controls = job.controls /\ codex'.steered[a] = codex.steered[a] + 1
          /\ \A b \in SteerActions : b # a => codex'.steered[b] = codex.steered[b]
          /\ \/ runner'[w].control = a /\ runner'[w].answer = "taken"
             \/ runner'[w].control = "none" /\ runner'[w].answer = "none"
          /\ Sends(w, a) /\ runner[w].answer = "none"
      BY <1>0, <2>2 DEF Reaches
    <3>2. /\ codex.steered[a] = 0 /\ job.controls[a] \notin {"none", "queued"}
          /\ \A v \in Runners : Sends(v, a) => v = w
      BY <1>0, <3>1 DEF ControlInv
    <3>3. codex'.steered[a] = 1
      BY <3>1, <3>2
    <3> QED
      BY <1>0, <1>2, <3>1, <3>2, <3>3 DEF ControlInv, Sends, SameControl
  <2>3. CASE Acked(w, a)
    <3>1. /\ job'.controls[a] \in {job.controls[a], "queued"} /\ codex'.steered = codex.steered
          /\ \A b \in SteerActions : b # a => job'.controls[b] = job.controls[b]
          /\ runner'[w].control = "none" /\ runner'[w].answer = "none"
          /\ Sends(w, a) /\ runner[w].answer = "taken"
      BY <1>0, <2>3 DEF Acked
    <3>2. codex.steered[a] = 1 /\ job.controls[a] # "none"
      BY <1>0, <3>1 DEF ControlInv
    <3> QED
      BY <1>0, <1>2, <3>1, <3>2 DEF ControlInv, Sends, SameControl
  <2> QED
    BY <1>2, <2>1, <2>2, <2>3
<1> QED
  BY <1>1, <1>2 DEF ControlStep

\* The invariant holds at first.
LEMMA InvAtFirst == CodexInit => CodexInv
<1> SUFFICES ASSUME CodexInit PROVE CodexInv
  OBVIOUS
<1>1. PICK r \in RunnerStates : r = RunnerIdle
  BY NoEvents DEF RunnerStates, RunnerIdle, Places
<1>2. /\ r.at = "idle" /\ r.lease = 0 /\ r.wire = <<>> /\ r.pending = {}
      /\ r.control = "none" /\ r.answer = "none"
  BY <1>1 DEF RunnerIdle
<1>3. /\ runner \in [Runners -> RunnerStates] /\ \A w \in Runners : runner[w] = r
  BY <1>1 DEF CodexInit
<1>4. PICK c \in [SteerActions -> Receipts] : \A a \in SteerActions : c[a] = "none"
      /\ c = [b \in SteerActions |-> "none"]
  BY DEF Receipts
<1>5. PICK s \in JobStates, n \in Nat : s = "prepared" /\ n = 0
  BY DEF JobStates
<1>6. job = [state |-> s, thread |-> FALSE, turn |-> FALSE, lease |-> n, held |-> FALSE,
             controls |-> c]
  BY <1>4, <1>5 DEF CodexInit
<1>7. job \in Jobs
  BY <1>6 DEF Jobs
<1>8. /\ job.state = "prepared" /\ job.turn = FALSE /\ job.lease = 0 /\ job.held = FALSE
      /\ \A a \in SteerActions : job.controls[a] = "none"
  BY <1>4, <1>5, <1>6
<1>9. PICK t \in [1 .. MaxAsks -> Nat], d \in [SteerActions -> Nat], k \in 0 .. MaxAsks,
           i \in Runners \cup {"none"}, e \in Ends \cup {"none", "running"} :
        /\ t = [m \in 1 .. MaxAsks |-> 0] /\ d = [a \in SteerActions |-> 0] /\ k = 0
        /\ i = "none" /\ e = "none"
  <2>1. /\ [m \in 1 .. MaxAsks |-> 0] \in [1 .. MaxAsks -> Nat]
        /\ [a \in SteerActions |-> 0] \in [SteerActions -> Nat] /\ 0 \in 0 .. MaxAsks
    BY CodexAssumption
  <2> QED
    BY <2>1
<1>10. codex = [threads |-> n, turns |-> n, turn |-> e, in |-> i, asked |-> k, waits |-> k,
                told |-> t, steered |-> d]
  BY <1>5, <1>9 DEF CodexInit
<1>11. codex \in Threads
  BY <1>10 DEF Threads
<1>12. /\ codex.threads = 0 /\ codex.turns = 0 /\ codex.turn = "none" /\ codex.in = "none"
       /\ codex.asked = 0 /\ codex.waits = 0 /\ \A m \in 1 .. MaxAsks : codex.told[m] = 0
       /\ \A a \in SteerActions : codex.steered[a] = 0
  BY <1>5, <1>9, <1>10
<1>13. order \in [authorized: BOOLEAN, cancelled: BOOLEAN] /\ runs \in Nat /\ runs = 0
  BY DEF CodexInit
<1>14. Typed
  BY <1>3, <1>7, <1>11, <1>13 DEF Typed
<1>15. LeaseInv
  BY <1>2, <1>3, <1>8, <1>13 DEF LeaseInv
<1>16. HolderInv /\ AskInv
  BY <1>2, <1>3, <1>8, <1>12 DEF HolderInv, Holds, AskInv, Asking
<1>17. WireInv
  <2>1. Len(<<>>) = 0
    OBVIOUS
  <2> QED
    BY <1>2, <1>3, <1>12, <2>1 DEF WireInv
<1>18. ApprovalInv
  <2>1. Len(<<>>) = 0
    OBVIOUS
  <2>2. \A w \in Runners, m \in Nat : ~Pends(w, m) /\ \A j \in Nat : ~Wired(w, j, m)
    BY <1>2, <1>3, <2>1 DEF Pends, Wired
  <2> QED
    BY <1>12, <2>2 DEF ApprovalInv
<1>19. ControlInv
  BY <1>2, <1>3, <1>8, <1>12, CodexAssumption DEF ControlInv, Sends
<1>20. RecordInv
  BY <1>8, <1>12 DEF RecordInv, GivenOnce, EndIsTrue
<1> QED
  BY <1>14, <1>15, <1>16, <1>17, <1>18, <1>19, <1>20 DEF CodexInv

\* What the invariant says of the properties.
LEMMA InvIsSafe == CodexInv => CodexSafe
<1> SUFFICES ASSUME CodexInv PROVE CodexSafe
  OBVIOUS
<1>1. CodexTypeOK
  BY DEF CodexInv, RecordInv, WireInv, ApprovalInv, CodexTypeOK
<1>2. GivenOnce /\ EndIsTrue
  BY DEF CodexInv, RecordInv
<1>3. SteeredOnce
  BY DEF CodexInv, ControlInv, SteeredOnce
<1>4. ApprovedOnce
  BY DEF CodexInv, ApprovalInv, ApprovedOnce
<1> QED
  BY <1>1, <1>2, <1>3, <1>4 DEF CodexSafe

-----------------------------------------------------------------------------
(* The theorems.                                                           *)

\* The invariant holds in every state: it is true at first, and the three relations in which
\* the runs, the wires and the controls move keep its parts.
THEOREM CodexInvHolds == CodexSpec => []CodexInv
<1>1. CodexInv /\ [CodexNext]_codexVars => CodexInv'
  <2> SUFFICES ASSUME CodexInv, [CodexNext]_codexVars PROVE CodexInv'
    OBVIOUS
  <2>1. AllSteps
    BY EveryStep
  <2>2. RunStep /\ WireStep /\ ControlStep
    BY <2>1 DEF AllSteps
  <2>3. Typed'
    BY <2>1, TypedKept
  <2>4. LeaseInv' /\ HolderInv' /\ AskInv' /\ RecordInv'
    BY <2>2, LeaseKept, HolderKept, AskKept, RecordKept
  <2>5. WireInv' /\ ApprovalInv' /\ ControlInv'
    BY <2>2, WireKept, ApprovalKept, ControlKept
  <2> QED
    BY <2>3, <2>4, <2>5 DEF CodexInv
<1> QED
  BY InvAtFirst, <1>1, PTL DEF CodexSpec

\* Whatever answer is lost, whichever run crashes or loses its lease (talk_codex_worker.py):
\* one thread and one turn are asked for, a recorded end is the turn's own, no control goes in
\* twice or is acknowledged without having gone in, and no approval is answered twice.
THEOREM CodexIsSafe == CodexSpec => []CodexSafe
BY CodexInvHolds, InvIsSafe, PTL

\* An end that was recorded stays, also when another run comes to record something else.
THEOREM RecordedEndStays == CodexSpec => EndIsFinal
<1>1. CodexInv /\ [CodexNext]_codexVars =>
        [job.state \in Ends => job'.state = job.state]_codexVars
  <2> SUFFICES ASSUME CodexInv, [CodexNext]_codexVars
               PROVE  job.state \in Ends => job'.state = job.state
    OBVIOUS
  <2>1. AllSteps
    BY EveryStep
  <2> QED
    BY <2>1, EndStays DEF AllSteps
<1> QED
  BY CodexInvHolds, <1>1, PTL DEF CodexSpec, EndIsFinal

=============================================================================
