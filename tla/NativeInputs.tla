----------------------------- MODULE NativeInputs -----------------------------
(***************************************************************************)
(* What the operator says to a terminal or Discord session of canonical    *)
(* Talk, and the provider's responses to it (talk_native_controller.py:    *)
(* stage, start_response, _started, _call, _done, _finish, interrupt,      *)
(* tick).                                                                  *)
(*                                                                         *)
(* Three workers act on the same rows: the one that handles the provider's *)
(* events in their order, the one that handles typed commands, and a task  *)
(* for every response whose calls are complete.  Each may be overtaken at  *)
(* every await.                                                            *)
(***************************************************************************)
EXTENDS Naturals, Sequences, FiniteSets

CONSTANTS
  Voiced,        \* inputs that are spoken
  Typed,         \* inputs that are typed
  MaxRequests,   \* bound: responses asked for
  MaxToolCalls,  \* bound: calls of a response
  MaxInterrupts, \* bound: /interrupt
  MaxOdd         \* bound: timeouts, repeats, failures and withdrawn calls

ASSUME InputsAssumption == MaxRequests \in Nat /\ MaxToolCalls \in Nat /\ MaxOdd \in Nat

Inputs == Voiced \cup Typed
Tokens == 1..MaxRequests          \* a request and the response that claims it
Workers == {"receive", "controls"}
Undeclared == MaxToolCalls + 1

VARIABLES
  row,       \* row[i]: the staged input
  response,  \* response[r]: the request and, once claimed, its response
  asked,     \* how many were asked for
  worker,    \* worker[w]: what it is in the middle of
  wire,      \* events of the provider not yet handled
  provider,  \* provider[r]: the response there
  ran,       \* ran[r]: how often each call of it was executed
  late,      \* late[i]: calls of input i executed after it was given up
  odd, interrupts,
  broken     \* a worker died of something nobody catches

inputVars == <<row, response, asked, worker, wire, provider, ran, late, odd, interrupts, broken>>

Idle == [at |-> "idle"]

InputsInit ==
  /\ row = [i \in Inputs |-> [ready |-> "no", committed |-> FALSE, spoken |-> FALSE,
                              requested |-> FALSE, incomplete |-> FALSE, settled |-> FALSE]]
  /\ response = [r \in Tokens |-> [of |-> "none", previous |-> 0, claimed |-> FALSE, calls |-> {},
                                   declared |-> Undeclared, status |-> "none", finish |-> "no"]]
  /\ asked = 0
  /\ worker = [w \in Workers |-> Idle]
  /\ wire = <<>>
  /\ provider = [r \in Tokens |-> [at |-> "none", calls |-> 0, sent |-> 0]]
  /\ ran = [r \in Tokens |-> [c \in 1..MaxToolCalls |-> 0]]
  /\ late = [i \in Inputs |-> 0] /\ odd = 0 /\ interrupts = 0 /\ broken = FALSE

Odd == odd < MaxOdd /\ odd' = odd + 1
Emit(event) == wire' = Append(wire, event)
Becomes(w, to) == worker' = [worker EXCEPT ![w] = to]
RowOf(r) == row[response[r].of]
Abandon(i) == IF row[i].settled THEN row ELSE [row EXCEPT ![i].incomplete = TRUE]
Over(i) == row[i].incomplete \/ row[i].settled
Declared(r) == 1..response[r].declared

-----------------------------------------------------------------------------
(* The provider.                                                           *)

Speaks(i, kind) ==
  /\ Len(wire) < 2 /\ \A n \in DOMAIN wire : wire[n] # [kind |-> kind, of |-> i]
  /\ \/ kind = "speech" /\ ~row[i].spoken /\ row' = [row EXCEPT ![i].spoken = TRUE] /\ UNCHANGED odd
     \/ kind = "committed" /\ row[i].spoken /\ ~row[i].committed
        /\ UNCHANGED <<row, odd>>
     \/ kind = "transcript" /\ row[i].spoken /\ row[i].ready = "no" /\ UNCHANGED <<row, odd>>
     \/ kind = "transcript" /\ row[i].ready = "ready" /\ Odd /\ UNCHANGED row   \* once more
  /\ Emit([kind |-> kind, of |-> i])
  /\ UNCHANGED <<response, asked, worker, provider, ran, late, interrupts, broken>>

Responds(r, kind) ==
  LET p == provider[r]
  IN /\ Len(wire) < 2
     /\ \/ /\ kind = "started" /\ p.at = "asked"
           /\ \E k \in {0, MaxToolCalls} :      \* bound: no call, or as many
                provider' = [provider EXCEPT ![r] = [at |-> "open", calls |-> k, sent |-> 0]]
           /\ Emit([kind |-> kind, of |-> r]) /\ UNCHANGED odd
        \/ /\ kind = "call" /\ p.at \in {"open", "completed"} /\ p.sent < p.calls
           /\ provider' = [provider EXCEPT ![r].sent = @ + 1]
           /\ Emit([kind |-> kind, of |-> r, call |-> p.sent + 1]) /\ UNCHANGED odd
        \/ /\ kind = "done" /\ p.at = "open"
           /\ \E status \in {"completed", "failed"}, declared \in {p.calls, 0} :
                /\ IF status = "failed" \/ declared # p.calls THEN Odd ELSE UNCHANGED odd
                /\ provider' = [provider EXCEPT ![r].at = status]
                /\ Emit([kind |-> kind, of |-> r, status |-> status, calls |-> declared])
        \/ /\ kind = "withdrawn" /\ p.sent > 0 /\ Odd      \* it takes its calls back
           /\ Emit([kind |-> kind, of |-> r]) /\ UNCHANGED provider
     /\ UNCHANGED <<row, response, asked, worker, ran, late, interrupts, broken>>

\* CancelResponse ends what is still open there.
Cancelled(those) ==
  [r \in Tokens |-> IF r \in those /\ provider[r].at = "open" THEN [provider[r] EXCEPT !.at = "cancelled"]
                    ELSE provider[r]]
-----------------------------------------------------------------------------
(* Handling its events.                                                    *)

Event(kind) == worker["receive"] = Idle /\ wire # <<>> /\ Head(wire).kind = kind /\ wire' = Tail(wire)

SpeechStarts ==
  /\ Event("speech")
  /\ Becomes("receive", [at |-> "interrupt", hit |-> {}, known |-> 0, for |-> "none"])
  /\ UNCHANGED <<row, response, asked, provider, ran, late, odd, interrupts, broken>>

\* Variant: an input that was asked about is asked about again.
MayStartAgain(i, previous) == ~Over(i)
MayStart(i, previous) == ~Over(i) /\ (row[i].requested => previous # 0)

\* start_response checks the row, then waits for the summary that may be speaking.
Starting(i, previous) ==
  IF MayStart(i, previous) THEN [at |-> "start", row |-> i, previous |-> previous] ELSE Idle

OnCommitted ==
  LET i == Head(wire).of
  IN /\ Event("committed")
     /\ row' = [row EXCEPT ![i].committed = TRUE]
     /\ Becomes("receive", IF row[i].ready = "ready" THEN Starting(i, 0) ELSE Idle)
     /\ UNCHANGED <<response, asked, provider, ran, late, odd, interrupts, broken>>

OnTranscript ==
  LET i == Head(wire).of
  IN /\ Event("transcript")
     /\ row' = [row EXCEPT ![i].ready = IF @ = "no" THEN "staging" ELSE @]
     /\ Becomes("receive", [at |-> "stage", row |-> i])
     /\ UNCHANGED <<response, asked, provider, ran, late, odd, interrupts, broken>>

\* The host has the input; a spoken one is answered once its audio is committed too.
Staged(w) ==
  LET i == worker[w].row
  IN /\ worker[w].at = "stage"
     /\ row' = [row EXCEPT ![i].ready = "ready"]
     /\ Becomes(w, IF i \in Typed \/ row[i].committed THEN Starting(i, 0) ELSE Idle)
     /\ UNCHANGED <<response, asked, wire, provider, ran, late, odd, interrupts, broken>>

\* The host does not take it: the input is incomplete, and a spoken one ends the session.
StagingFails(w) ==
  LET i == worker[w].row
  IN /\ worker[w].at = "stage" /\ row[i].ready = "staging" /\ Odd
     /\ row' = [row EXCEPT ![i].ready = "failed", ![i].incomplete = TRUE]
     /\ Becomes(w, IF w = "receive" THEN [at |-> "dead"] ELSE Idle)
     /\ UNCHANGED <<response, asked, wire, provider, ran, late, interrupts, broken>>

\* The row is not looked at again before the request goes out.
Ask(i, previous) ==
  /\ asked < MaxRequests
  /\ asked' = asked + 1
  /\ row' = [row EXCEPT ![i].requested = TRUE]
  /\ response' = [response EXCEPT ![asked + 1].of = i, ![asked + 1].previous = previous]
  /\ provider' = [provider EXCEPT ![asked + 1].at = "asked"]

Starts(w) ==
  /\ worker[w].at = "start"
  /\ Ask(worker[w].row, worker[w].previous)
  /\ Becomes(w, Idle)
  /\ UNCHANGED <<wire, ran, late, odd, interrupts, broken>>

ResponseStarted ==
  LET r == Head(wire).of
  IN /\ Event("started")
     /\ IF RowOf(r).incomplete
        THEN provider' = Cancelled({r}) /\ UNCHANGED response
        ELSE response' = [response EXCEPT ![r].claimed = TRUE] /\ UNCHANGED provider
     /\ UNCHANGED <<row, asked, worker, ran, late, odd, interrupts, broken>>

\* _maybe_finish: every declared call is here.
Whole(p) == p.declared # Undeclared /\ p.status = "completed" /\ 1..p.declared \subseteq p.calls
MaybeFinish(p, abandoned) ==
  IF p.finish = "no" /\ ~abandoned /\ Whole(p) THEN [p EXCEPT !.finish = "running"] ELSE p

\* Variant: only the end of the response is a reason to look.
CallNoted(p, c, abandoned) == [p EXCEPT !.calls = @ \cup {c}]
Called(p, c, abandoned) == MaybeFinish([p EXCEPT !.calls = @ \cup {c}], abandoned)

OnCall ==
  LET e == Head(wire)
      r == e.of
      p == response[r]
      undeclared == p.declared # Undeclared /\ e.call \notin Declared(r)
  IN /\ Event("call")
     /\ IF ~p.claimed \/ Over(p.of) THEN UNCHANGED <<row, response>>
        ELSE IF undeclared THEN row' = Abandon(p.of) /\ UNCHANGED response
        ELSE response' = [response EXCEPT ![r] = Called(p, e.call, FALSE)] /\ UNCHANGED row
     /\ UNCHANGED <<asked, worker, provider, ran, late, odd, interrupts, broken>>

\* The end of a response is told to the host, then acted on.
ResponseDone ==
  LET e == Head(wire)
      p == response[e.of]
  IN /\ Event("done")
     /\ IF ~p.claimed \/ RowOf(e.of).incomplete THEN UNCHANGED <<response, worker>>
        ELSE /\ response' = [response EXCEPT ![e.of].declared = e.calls, ![e.of].status = e.status]
             /\ Becomes("receive", [at |-> "done", of |-> e.of])
     /\ UNCHANGED <<row, asked, provider, ran, late, odd, interrupts, broken>>

DoneTold ==
  LET r == worker["receive"].of
      i == response[r].of
      failed == response[r].status # "completed"
  IN /\ worker["receive"].at = "done"
     /\ row' = IF failed THEN Abandon(i) ELSE row
     /\ response' = [response EXCEPT ![r] = MaybeFinish(@, row'[i].incomplete)]
     /\ Becomes("receive", Idle)
     /\ UNCHANGED <<asked, wire, provider, ran, late, odd, interrupts, broken>>

OnWithdrawn ==
  LET r == Head(wire).of
  IN /\ Event("withdrawn")
     /\ row' = IF response[r].calls # {} THEN Abandon(response[r].of) ELSE row
     /\ UNCHANGED <<response, asked, worker, provider, ran, late, odd, interrupts, broken>>

-----------------------------------------------------------------------------
(* The task of a whole response.                                           *)

Finish(r, to) == response' = [response EXCEPT ![r].finish = to]
Unrun(r) == {c \in Declared(r) : ran[r][c] = 0}

\* Variant: only the first look at the row counts.
AbandonedNot(r) == RowOf(r).incomplete /\ \A c \in 1..MaxToolCalls : ran[r][c] = 0
Abandoned(r) == RowOf(r).incomplete

\* The row is looked at, then the host is asked: for a slot, the attachment and the network.
AskTool(r) ==
  /\ response[r].finish = "running" /\ Unrun(r) # {} /\ response[r].calls \subseteq Declared(r)
  /\ Finish(r, IF Abandoned(r) THEN "left" ELSE "asking")
  /\ UNCHANGED <<row, ran, late, odd, asked, worker, wire, provider, interrupts, broken>>

\* The host executes the call, whatever became of the row; its answer may be lost, or it
\* refuses and nothing is executed.
RunCall(r) ==
  LET c == CHOOSE x \in Unrun(r) : \A y \in Unrun(r) : x <= y
      executed == /\ ran' = [ran EXCEPT ![r][c] = @ + 1]
                  /\ late' = [late EXCEPT ![response[r].of] = @ + IF RowOf(r).incomplete THEN 1 ELSE 0]
  IN /\ response[r].finish = "asking"
     /\ \/ executed /\ Finish(r, "running") /\ UNCHANGED <<row, odd>>
        \/ Odd /\ row' = Abandon(response[r].of) /\ Finish(r, "left")
           /\ (executed \/ UNCHANGED <<ran, late>>)
     /\ UNCHANGED <<asked, worker, wire, provider, interrupts, broken>>

\* A call came that the end of the response did not declare.
Overfull(r) ==
  /\ response[r].finish = "running" /\ \A c \in 1..MaxToolCalls : ran[r][c] = 0
  /\ ~(response[r].calls \subseteq Declared(r))
  /\ row' = Abandon(response[r].of) /\ Finish(r, "left")
  /\ UNCHANGED <<asked, worker, wire, provider, ran, late, odd, interrupts, broken>>

\* With calls the results go back and a response is asked for; without, the turn settles,
\* unless the provider said nothing at all.
AllRun(r) ==
  LET i == response[r].of
  IN /\ response[r].finish = "running" /\ Unrun(r) = {} /\ response[r].calls \subseteq Declared(r)
     /\ \/ /\ Finish(r, IF response[r].declared = 0 THEN "settle"
                        ELSE IF MayStart(i, r) THEN "start" ELSE "over")
           /\ UNCHANGED <<row, odd>>
        \/ response[r].declared = 0 /\ Odd /\ row' = Abandon(i) /\ Finish(r, "over")
     /\ UNCHANGED <<asked, worker, wire, provider, ran, late, interrupts, broken>>

FollowsUp(r) ==
  /\ response[r].finish = "start" /\ asked < MaxRequests
  /\ asked' = asked + 1
  /\ response' = [response EXCEPT ![r].finish = "over",
                                  ![asked + 1].of = response[r].of, ![asked + 1].previous = r]
  /\ provider' = [provider EXCEPT ![asked + 1].at = "asked"]
  /\ UNCHANGED <<row, worker, wire, ran, late, odd, interrupts, broken>>

Settles(r) ==
  /\ response[r].finish = "settle"
  /\ \/ row' = [row EXCEPT ![response[r].of].settled = TRUE] /\ UNCHANGED odd
     \/ Odd /\ row' = Abandon(response[r].of)              \* the host is not reached
  /\ Finish(r, "over")
  /\ UNCHANGED <<asked, worker, wire, provider, ran, late, interrupts, broken>>

-----------------------------------------------------------------------------
(* Interruptions and timeouts.                                             *)

Claimed == {r \in Tokens : response[r].claimed}
Finished(r) == response[r].finish \in {"settle", "start", "over"}

\* A typed command interrupts; a typed message does so before it is staged.
Command(i) ==
  /\ worker["controls"] = Idle
  /\ \/ i = "none" /\ interrupts < MaxInterrupts /\ interrupts' = interrupts + 1
     \/ i \in Typed /\ row[i].ready = "no" /\ UNCHANGED interrupts
  /\ Becomes("controls", [at |-> "interrupt", hit |-> {}, known |-> 0, for |-> i])
  /\ UNCHANGED <<row, response, asked, wire, provider, ran, late, odd, broken>>

Speaking(hit) == {r \in Claimed \ hit : ~Finished(r) /\ ~RowOf(r).incomplete}

\* One turn of the loop over the responses: the next is given up and the host told.  Python
\* refuses to go on when a response was added meanwhile.
InterruptsOne(w) ==
  LET v == worker[w]
  IN /\ v.at = "interrupt" /\ (v.hit # {} => v.known = Cardinality(Claimed))
     /\ Speaking(v.hit) # {}
     /\ LET r == CHOOSE x \in Speaking(v.hit) : \A y \in Speaking(v.hit) : x <= y
        IN /\ row' = Abandon(response[r].of)
           /\ Becomes(w, [v EXCEPT !.hit = @ \cup {r}, !.known = Cardinality(Claimed)])
     /\ UNCHANGED <<response, asked, wire, provider, ran, late, odd, interrupts, broken>>

Interrupted(w) ==
  LET v == worker[w]
  IN /\ v.at = "interrupt" /\ (v.hit # {} => v.known = Cardinality(Claimed))
     /\ Speaking(v.hit) = {}
     /\ provider' = Cancelled(v.hit)
     /\ IF v.for = "none" THEN Becomes(w, Idle) /\ UNCHANGED row
        ELSE Becomes(w, [at |-> "stage", row |-> v.for])
             /\ row' = [row EXCEPT ![v.for].ready = "staging"]
     /\ UNCHANGED <<response, asked, wire, ran, late, odd, interrupts, broken>>

InterruptBreaks(w) ==
  LET v == worker[w]
  IN /\ v.at = "interrupt" /\ v.hit # {} /\ v.known # Cardinality(Claimed)
     /\ broken' = TRUE /\ Becomes(w, [at |-> "dead"])
     /\ UNCHANGED <<row, response, asked, wire, provider, ran, late, odd, interrupts>>

\* tick: nobody claimed the request, or its response never finished.
Expires(r) ==
  /\ Odd /\ r <= asked /\ ~Finished(r)
  /\ row' = Abandon(response[r].of)
  /\ UNCHANGED <<response, asked, worker, wire, provider, ran, late, interrupts, broken>>

InputsNext ==
  \/ SpeechStarts \/ OnCommitted \/ OnTranscript \/ ResponseStarted \/ OnCall \/ ResponseDone \/ DoneTold \/ OnWithdrawn
  \/ \E i \in Voiced, kind \in {"speech", "committed", "transcript"} : Speaks(i, kind)
  \/ \E r \in Tokens, kind \in {"started", "call", "done", "withdrawn"} : Responds(r, kind)
  \/ \E r \in Tokens : AskTool(r) \/ RunCall(r) \/ AllRun(r) \/ Overfull(r) \/ FollowsUp(r) \/ Settles(r) \/ Expires(r)
  \/ \E w \in Workers : Staged(w) \/ StagingFails(w) \/ Starts(w) \/ InterruptsOne(w) \/ Interrupted(w) \/ InterruptBreaks(w)
  \/ \E i \in Typed \cup {"none"} : Command(i)

InputsSpec == InputsInit /\ [][InputsNext]_inputVars

-----------------------------------------------------------------------------
InputsTypeOK ==
  /\ asked = Cardinality({r \in Tokens : response[r].of # "none"})
  /\ \A r \in Claimed : provider[r].at \notin {"none", "asked"}
  /\ \A r \in Tokens : response[r].calls \subseteq 1..MaxToolCalls

\* One input is answered by one chain of responses: one is asked for it, and one more after
\* each that made calls, when all of those have been executed.
OneChain ==
  \A r \in 1..asked :
    /\ \A s \in 1..asked :
         r # s /\ response[r].of = response[s].of => response[r].previous # response[s].previous
    /\ response[r].previous # 0 =>
         /\ response[response[r].previous].of = response[r].of
         /\ Unrun(response[r].previous) = {}

\* A call is executed at most once, and only when the provider declared it in a response that
\* completed.
CallsRunOnce ==
  \A r \in Tokens : \A c \in 1..MaxToolCalls :
    ran[r][c] > 0 => ran[r][c] = 1 /\ Whole(response[r]) /\ c \in Declared(r)

\* Nothing hangs: when nothing is on its way and no worker is at work, every input that was
\* both staged and committed was asked about, and it settled or is incomplete.
Resting ==
  /\ wire = <<>> /\ worker = [w \in Workers |-> Idle] /\ asked < MaxRequests
  /\ \A r \in Tokens : /\ provider[r].at \notin {"asked", "open"}
                       /\ response[r].finish \in {"no", "left", "over"}
                       /\ provider[r].at = "completed" => provider[r].sent = provider[r].calls
NothingHangs ==
  Resting => \A i \in Inputs : row[i].ready = "ready" /\ (i \in Typed \/ row[i].committed) => Over(i)

\* An input that was given up, by an interruption, a withdrawal or a timeout, has at most the
\* one call still executed that was on its way then, whatever its responses had declared.
AtMostOneLate == \A i \in Inputs : late[i] <= 1

\* What every state of the inputs keeps: one chain of responses per input, each call run
\* once, at most one of them late, and no input left hanging when all is at rest.
InputsSafe == InputsTypeOK /\ OneChain /\ CallsRunOnce /\ AtMostOneLate /\ NothingHangs

\* (Refuted: a call that waits for a slot or the network when its input is interrupted runs.)
NothingAfterTheEnd == \A i \in Inputs : late[i] = 0

\* (Refuted: calls taken back while the turn settles make it incomplete as well.)
SettledIsNotIncomplete == \A i \in Inputs : ~(row[i].settled /\ row[i].incomplete)

\* (Refuted: a response that starts while a typed command interrupts breaks the loop.)
InterruptNeverBreaks == ~broken
=============================================================================
