----------------------------- MODULE Approvals -----------------------------
(***************************************************************************)
(* The spoken approval bridge (talk_approvals.py).  A run on the           *)
(* api-server lane asks the host for approvals; a sidecar thread reads the *)
(* run's event stream, registers the request and has the session speak a   *)
(* prompt; a tool thread carries the operator's answer to the host; a      *)
(* timer denies what stays unanswered.                                     *)
(*                                                                         *)
(* Every action is one critical section of _LOCK, one step of the host, or *)
(* one delivery to the session's loop.  The registry is keyed by run,      *)
(* while the host asks several requests of one run over its life.          *)
(***************************************************************************)
EXTENDS Integers, FiniteSets, Sequences

CONSTANTS
  AgentRuns,      \* runs on the api-server lane
  RequestsPerRun, \* requests the host may ask of one run
  None,
  MaxPending,     \* _MAX_PENDING
  MaxGeneration,  \* bound on attaches and detaches
  MaxFaults,      \* bound: answers and denials lost, streams that die, requests that expire
  ExactRouting    \* TRUE: the host settles the request an answer names

ASSUME ApprovalsAssumption ==
  /\ RequestsPerRun \in Nat /\ MaxPending \in Nat \ {0}
  /\ MaxGeneration \in Nat /\ MaxFaults \in Nat
  /\ ExactRouting \in BOOLEAN

VARIABLES
  host,      \* host[r][n]: how request n of run r stands at the host
  over,      \* runs that ended at the host
  stream,    \* stream[r]: events of r the sidecar has not read
  attached,  \* TRUE: a session is attached
  gen,       \* _GENERATION
  born,      \* born[r]: the generation in which run r was dispatched
  stamp,     \* stamp[r]: the generation its sidecar took at spawn
  watchers,  \* _WATCHERS
  asked,     \* _RECONCILED
  hearing,   \* hearing[r][ear]: the event a thread is in the middle of
  pending,   \* _PENDING
  firing,    \* firing[r]: expired timers whose thread has not run yet
  prompts,   \* prompts queued in the announcement queue, oldest first
  heard,     \* requests whose prompt was handed to the wire
  answers,   \* answers of the operator on their way
  denies,    \* fire-and-forget denials on their way
  silenced,  \* requests denied because their timer ran out
  faults

hostVars    == <<host, over, stream>>
sessionVars == <<attached, gen, born, stamp, watchers>>
vars == <<hostVars, sessionVars, asked, hearing, pending, firing, prompts,
          heard, answers, denies, silenced, faults>>

Numbers  == 1 .. RequestsPerRun
Lost     == 0                        \* a reconciled prompt: its request id is gone
AnswerChoices  == {"once", "deny"}
Ears     == {"stream", "poll"}
Settled  == {"once", "deny", "expired"}

Events == [kind: {"request", "responded"}, n: Numbers] \union [kind: {"over"}, n: {Lost}]

Pendings == [req: Numbers \union {Lost}, opened: BOOLEAN, resolving: BOOLEAN,
             timer: {"none", "armed", "spent"}]

Hearings == [at: {"checked", "registered"}, event: Events \union [kind: {"request"}, n: {Lost}]]

Answers == [run: AgentRuns, req: Numbers \union {Lost}, choice: AnswerChoices,
            at: {"sent", "ok", "gone", "err"}]

HostOK ==
  /\ host \in [AgentRuns -> [Numbers -> {"new", "open"} \union Settled]]
  /\ over \subseteq AgentRuns
  /\ stream \in [AgentRuns -> Seq(Events)]

SessionOK ==
  /\ attached \in BOOLEAN /\ gen \in 0 .. MaxGeneration
  /\ born \in [AgentRuns -> 0 .. MaxGeneration]
  /\ stamp \in [AgentRuns -> 0 .. MaxGeneration]
  /\ watchers \subseteq AgentRuns

RecordsOK ==
  /\ asked \subseteq AgentRuns
  /\ hearing \in [AgentRuns -> [Ears -> Hearings \union {None}]]
  /\ pending \in [AgentRuns -> Pendings \union {None}]
  /\ \A r \in AgentRuns : pending[r] # None /\ pending[r].timer # "none" => pending[r].opened
  /\ firing \in [AgentRuns -> Nat]

MailOK ==
  /\ prompts \in Seq(AgentRuns \X (Numbers \union {Lost}))
  /\ heard \subseteq AgentRuns \X (Numbers \union {Lost})
  /\ answers \subseteq Answers
  /\ denies \subseteq AgentRuns \X (Numbers \union {Lost})
  /\ silenced \subseteq AgentRuns \X (Numbers \union {Lost})
  /\ faults \in 0 .. MaxFaults

TypeOK == HostOK /\ SessionOK /\ RecordsOK /\ MailOK

Init ==
  /\ host = [r \in AgentRuns |-> [n \in Numbers |-> "new"]]
  /\ over = {}
  /\ stream = [r \in AgentRuns |-> <<>>]
  /\ attached = FALSE /\ gen = 0
  /\ born = [r \in AgentRuns |-> 0]
  /\ stamp = [r \in AgentRuns |-> 0]
  /\ watchers = {} /\ asked = {}
  /\ hearing = [r \in AgentRuns |-> [ear \in Ears |-> None]]
  /\ pending = [r \in AgentRuns |-> None]
  /\ firing = [r \in AgentRuns |-> 0]
  /\ prompts = <<>> /\ heard = {}
  /\ answers = {} /\ denies = {} /\ silenced = {}
  /\ faults = 0

\* Bound: one rare thing at a time: faults, detaches and second requests are looked at
\* where one run is dispatched, and two runs where none of these has happened.
Dispatched == {r \in AgentRuns : born[r] # 0}
Alone == Cardinality(Dispatched) = 1
Faulty == Alone /\ faults < MaxFaults /\ faults' = faults + 1
Ordinary == faults = 0 /\ gen <= 1 /\ \A r \in AgentRuns, n \in Numbers : n > 1 => host[r][n] = "new"

-----------------------------------------------------------------------------
(* The session and the run's threads come and go.                          *)

AttachSession ==
  /\ ~attached /\ gen < MaxGeneration
  /\ attached' = TRUE /\ gen' = gen + 1
  /\ UNCHANGED <<hostVars, born, stamp, watchers, asked, hearing, pending, firing,
                 prompts, heard, answers, denies, silenced, faults>>

\* Records clear without a denial; what was queued dies with the session.
DetachSession ==
  /\ attached /\ gen < MaxGeneration /\ Cardinality(Dispatched) <= 1
  /\ attached' = FALSE /\ gen' = gen + 1
  /\ pending' = [r \in AgentRuns |-> None]
  /\ asked' = {}
  /\ prompts' = <<>>
  /\ UNCHANGED <<hostVars, born, stamp, watchers, hearing, firing, heard,
                 answers, denies, silenced, faults>>

\* The run worker starts: its poll tap is stamped now.
Dispatch(r) ==
  /\ attached /\ born[r] = 0
  /\ Dispatched = {} \/ Ordinary
  /\ born' = [born EXCEPT ![r] = gen]
  /\ UNCHANGED <<hostVars, attached, gen, stamp, watchers, asked, hearing, pending,
                 firing, prompts, heard, answers, denies, silenced, faults>>

\* watch_run, when the remote run id lands: the sidecar is stamped now.
WatchRun(r) ==
  /\ born[r] # 0 /\ stamp[r] = 0 /\ gen # 0
  /\ stamp' = [stamp EXCEPT ![r] = gen]
  /\ watchers' = watchers \union {r}
  /\ UNCHANGED <<hostVars, attached, gen, born, asked, hearing, pending, firing,
                 prompts, heard, answers, denies, silenced, faults>>

\* The reader exits; the stream is single-shot, so the rest is never heard.
StreamDies(r) ==
  /\ r \in watchers /\ hearing[r]["stream"] = None
  /\ Faulty
  /\ watchers' = watchers \ {r}
  /\ stream' = [stream EXCEPT ![r] = <<>>]
  /\ UNCHANGED <<host, over, attached, gen, born, stamp, asked, hearing, pending,
                 firing, prompts, heard, answers, denies, silenced>>

-----------------------------------------------------------------------------
(* The host.                                                               *)

\* An event of a run whose stream is still read, in a buffer created with it.
Emit(r, event) ==
  stream' = [stream EXCEPT ![r] = IF r \in watchers THEN Append(@, event) ELSE @]

HostAsks(r, n) ==
  /\ stamp[r] # 0 /\ r \notin over /\ (n > 1 => Alone)
  /\ host[r][n] = "new" /\ \A m \in 1 .. n - 1 : host[r][m] # "new"
  /\ host' = [host EXCEPT ![r][n] = "open"]
  /\ Emit(r, [kind |-> "request", n |-> n])
  /\ UNCHANGED <<over, sessionVars, asked, hearing, pending, firing, prompts, heard,
                 answers, denies, silenced, faults>>

\* The host's own timeout denies the request and emits no event.
HostExpires(r, n) ==
  /\ host[r][n] = "open"
  /\ Faulty
  /\ host' = [host EXCEPT ![r][n] = "expired"]
  /\ UNCHANGED <<over, stream, sessionVars, asked, hearing, pending, firing, prompts,
                 heard, answers, denies, silenced>>

HostRunEnds(r) ==
  /\ stamp[r] # 0 /\ r \notin over
  /\ over' = over \union {r}
  /\ host' = [host EXCEPT ![r] =
                [n \in Numbers |-> IF @[n] = "open" THEN "expired" ELSE @[n]]]
  /\ Emit(r, [kind |-> "over", n |-> Lost])
  /\ UNCHANGED <<sessionVars, asked, hearing, pending, firing, prompts, heard,
                 answers, denies, silenced, faults>>

\* The request an answer settles: the one it names, or the oldest open one.
Target(r, req) ==
  IF ExactRouting /\ req # Lost
  THEN {req} \intersect {n \in Numbers : host[r][n] = "open"}
  ELSE {n \in Numbers : host[r][n] = "open" /\ \A m \in 1 .. n - 1 : host[r][m] # "open"}

Settle(r, n, choice) ==
  /\ host' = [host EXCEPT ![r][n] = choice]
  /\ Emit(r, [kind |-> "responded", n |-> n])

-----------------------------------------------------------------------------
(* Hearing a request: check, register, announce.                           *)

Clear(r) == pending' = [pending EXCEPT ![r] = None]

\* _note_event reads the generation, and lets go of the lock.
CheckEvent(r) ==
  /\ r \in watchers /\ stream[r] # <<>> /\ hearing[r]["stream"] = None
  /\ stream' = [stream EXCEPT ![r] = Tail(@)]
  /\ hearing' = IF stamp[r] = gen
                THEN [hearing EXCEPT ![r]["stream"] = [at |-> "checked", event |-> Head(stream[r])]]
                ELSE hearing
  /\ UNCHANGED <<host, over, sessionVars, asked, pending, firing, prompts, heard,
                 answers, denies, silenced, faults>>

\* reconcile_from_poll: the status sticks on waiting after the host gave up.
CheckPoll(r) ==
  /\ stamp[r] # 0 /\ hearing[r]["poll"] = None
  /\ r \notin over /\ \E n \in Numbers : host[r][n] \in {"open", "expired"}
  /\ born[r] = gen /\ attached
  /\ pending[r] = None /\ r \notin watchers /\ r \notin asked
  /\ asked' = asked \union {r}
  /\ hearing' = [hearing EXCEPT ![r]["poll"] =
                   [at |-> "checked", event |-> [kind |-> "request", n |-> Lost]]]
  /\ UNCHANGED <<hostVars, sessionVars, pending, firing, prompts, heard, answers,
                 denies, silenced, faults>>

Checked(r, ear, kind) ==
  /\ hearing[r][ear] # None
  /\ hearing[r][ear].at = "checked" /\ hearing[r][ear].event.kind = kind

\* Variant: the answer window opens at registration.
NewPendingTimed(n) == [req |-> n, opened |-> FALSE, resolving |-> FALSE, timer |-> "armed"]

NewPending(n) == [req |-> n, opened |-> FALSE, resolving |-> FALSE, timer |-> "none"]

\* Variant: the oldest record is evicted even while its answer is on the wire.
EvictableAny(r) == {q \in AgentRuns \ {r} : pending[q] # None}

\* A record whose answer is in flight is never evicted.
Evictable(r) == {q \in AgentRuns \ {r} : pending[q] # None /\ ~pending[q].resolving}

\* _register: a record of the same run is replaced, a full registry evicts
\* and denies one.
Register(r, ear) ==
  LET event == hearing[r][ear].event
      full  == Cardinality({q \in AgentRuns \ {r} : pending[q] # None}) >= MaxPending
  IN  /\ Checked(r, ear, "request")
      /\ \/ /\ full
            /\ \E q \in Evictable(r) :
                 /\ pending' = [pending EXCEPT ![q] = None, ![r] = NewPending(event.n)]
                 /\ denies' = denies \union {<<q, pending[q].req>>}
         \/ /\ ~full \/ Evictable(r) = {}
            /\ pending' = [pending EXCEPT ![r] = NewPending(event.n)]
            /\ UNCHANGED denies
      /\ hearing' = [hearing EXCEPT ![r][ear].at = "registered"]
      /\ UNCHANGED <<hostVars, sessionVars, asked, firing, prompts, heard, answers,
                     silenced, faults>>

\* _notify: whatever session is attached now gets the prompt.
Announce(r, ear) ==
  /\ hearing[r][ear] # None /\ hearing[r][ear].at = "registered"
  /\ prompts' = IF attached THEN Append(prompts, <<r, hearing[r][ear].event.n>>) ELSE prompts
  /\ hearing' = [hearing EXCEPT ![r][ear] = None]
  /\ UNCHANGED <<hostVars, sessionVars, asked, pending, firing, heard, answers,
                 denies, silenced, faults>>

\* The request was answered by some client: the record of the run is cleared.
Responded(r) ==
  /\ Checked(r, "stream", "responded")
  /\ Clear(r)
  /\ hearing' = [hearing EXCEPT ![r]["stream"] = None]
  /\ UNCHANGED <<hostVars, sessionVars, asked, firing, prompts, heard, answers,
                 denies, silenced, faults>>

RunOver(r) ==
  /\ Checked(r, "stream", "over")
  /\ Clear(r)
  /\ asked' = asked \ {r}
  /\ hearing' = [hearing EXCEPT ![r]["stream"] = None]
  /\ UNCHANGED <<hostVars, sessionVars, firing, prompts, heard, answers, denies,
                 silenced, faults>>

-----------------------------------------------------------------------------
(* The prompt, the timer and the barge-in.                                 *)

\* The pump hands the prompt to the wire and calls note_prompt_sent(run).
PromptSent ==
  /\ attached /\ prompts # <<>>
  /\ LET r == Head(prompts)[1] IN
       pending' = IF pending[r] = None \/ pending[r].opened THEN pending
                  ELSE [pending EXCEPT ![r].opened = TRUE,
                                       ![r].timer = IF pending[r].resolving THEN @ ELSE "armed"]
  /\ heard' = heard \union {Head(prompts)}
  /\ prompts' = Tail(prompts)
  /\ UNCHANGED <<hostVars, sessionVars, asked, hearing, firing, answers, denies,
                 silenced, faults>>

\* From here on a cancel comes too late.
TimerFires(r) ==
  /\ pending[r] # None /\ pending[r].timer = "armed"
  /\ pending' = [pending EXCEPT ![r].timer = "spent"]
  /\ firing' = [firing EXCEPT ![r] = @ + 1]
  /\ UNCHANGED <<hostVars, sessionVars, asked, hearing, prompts, heard, answers,
                 denies, silenced, faults>>

\* _expire(run_id): whatever record the run has now is denied.
Expire(r) ==
  /\ firing[r] > 0
  /\ firing' = [firing EXCEPT ![r] = @ - 1]
  /\ \/ /\ pending[r] = None
        /\ UNCHANGED <<pending, denies, silenced>>
     \/ /\ pending[r] # None /\ pending[r].resolving
        /\ pending' = [pending EXCEPT ![r].timer = "none"]
        /\ UNCHANGED <<denies, silenced>>
     \/ /\ pending[r] # None /\ ~pending[r].resolving
        /\ Clear(r)
        /\ denies' = denies \union {<<r, pending[r].req>>}
        /\ silenced' = silenced \union {<<r, pending[r].req>>}
  /\ UNCHANGED <<hostVars, sessionVars, asked, hearing, prompts, heard, answers, faults>>

\* Speech over a live response denies every question that is open.
Interrupted == {r \in AgentRuns : pending[r] # None /\ pending[r].opened /\ ~pending[r].resolving}

BargeIn ==
  /\ attached /\ Interrupted # {}
  /\ pending' = [r \in AgentRuns |-> IF r \in Interrupted THEN None ELSE pending[r]]
  /\ denies' = denies \union {<<r, pending[r].req>> : r \in Interrupted}
  /\ UNCHANGED <<hostVars, sessionVars, asked, hearing, firing, prompts, heard, answers,
                 silenced, faults>>

\* A denial nobody waits for reaches the host, or is lost.
DenyLands(r, req) ==
  /\ <<r, req>> \in denies
  /\ denies' = denies \ {<<r, req>>}
  /\ \/ \E n \in Target(r, req) : Settle(r, n, "deny") /\ UNCHANGED faults
     \/ Target(r, req) = {} /\ UNCHANGED <<host, stream, faults>>
     \/ Target(r, req) # {} /\ Faulty /\ UNCHANGED <<host, stream>>
  /\ UNCHANGED <<over, sessionVars, asked, hearing, pending, firing, prompts, heard,
                 answers, silenced>>

-----------------------------------------------------------------------------
(* The operator's answer.                                                  *)

\* Variant: a second answer is taken while the first is on the wire.
ResolveAgain(r, choice) ==
  /\ pending[r] # None
  /\ pending' = [pending EXCEPT ![r].resolving = TRUE, ![r].timer = "none"]
  /\ answers' = answers \union {[run |-> r, req |-> pending[r].req, choice |-> choice, at |-> "sent"]}
  /\ UNCHANGED <<hostVars, sessionVars, asked, hearing, firing, prompts, heard, denies,
                 silenced, faults>>

\* The answer claims the record; a second answer is refused.
Resolve(r, choice) ==
  /\ pending[r] # None /\ ~pending[r].resolving
  /\ pending' = [pending EXCEPT ![r].resolving = TRUE, ![r].timer = "none"]
  /\ answers' = answers \union {[run |-> r, req |-> pending[r].req, choice |-> choice, at |-> "sent"]}
  /\ UNCHANGED <<hostVars, sessionVars, asked, hearing, firing, prompts, heard, denies,
                 silenced, faults>>

Moved(a, at) == answers' = (answers \ {a}) \union {[a EXCEPT !.at = at]}

AnswerLands(a) ==
  /\ a \in answers /\ a.at = "sent"
  /\ \/ \E n \in Target(a.run, a.req) : Settle(a.run, n, a.choice) /\ Moved(a, "ok")
     \/ Target(a.run, a.req) = {} /\ Moved(a, "gone") /\ UNCHANGED <<host, stream>>
  /\ UNCHANGED <<over, sessionVars, asked, hearing, pending, firing, prompts, heard,
                 denies, silenced, faults>>

\* The request or its reply is lost; the host may have acted on it.
AnswerFails(a) ==
  /\ a \in answers /\ a.at = "sent"
  /\ Faulty
  /\ \/ \E n \in Target(a.run, a.req) : Settle(a.run, n, a.choice)
     \/ UNCHANGED <<host, stream>>
  /\ Moved(a, "err")
  /\ UNCHANGED <<over, sessionVars, asked, hearing, pending, firing, prompts, heard,
                 denies, silenced>>

\* An accepted or moot answer clears the run's record, in the tool's wait or
\* in the late receipt.
Verdict(a) ==
  /\ a \in answers /\ a.at \in {"ok", "gone"}
  /\ answers' = answers \ {a}
  /\ Clear(a.run)
  /\ UNCHANGED <<hostVars, sessionVars, asked, hearing, firing, prompts, heard, denies,
                 silenced, faults>>

\* Variant: the reopened record gets no new timer.
ReopenUntimed(a) ==
  /\ a \in answers /\ a.at = "err"
  /\ answers' = answers \ {a}
  /\ pending' = IF pending[a.run] = None \/ pending[a.run].req # a.req THEN pending
                ELSE [pending EXCEPT ![a.run].resolving = FALSE]
  /\ UNCHANGED <<hostVars, sessionVars, asked, hearing, firing, prompts, heard, denies,
                 silenced, faults>>

\* _reopen: the record answers again, under a fresh timer if it was heard.
Reopen(a) ==
  /\ a \in answers /\ a.at = "err"
  /\ answers' = answers \ {a}
  /\ pending' = IF pending[a.run] = None \/ pending[a.run].req # a.req THEN pending
                ELSE [pending EXCEPT ![a.run].resolving = FALSE,
                        ![a.run].timer = IF pending[a.run].opened /\ @ = "none" THEN "armed" ELSE @]
  /\ UNCHANGED <<hostVars, sessionVars, asked, hearing, firing, prompts, heard, denies,
                 silenced, faults>>

Next ==
  \/ AttachSession \/ DetachSession \/ PromptSent \/ BargeIn
  \/ \E r \in AgentRuns :
       \/ Dispatch(r) \/ WatchRun(r) \/ StreamDies(r) \/ HostRunEnds(r)
       \/ CheckEvent(r) \/ CheckPoll(r) \/ Responded(r) \/ RunOver(r)
       \/ TimerFires(r) \/ Expire(r)
       \/ \E n \in Numbers : HostAsks(r, n) \/ HostExpires(r, n)
       \/ \E ear \in Ears : Register(r, ear) \/ Announce(r, ear)
       \/ \E choice \in AnswerChoices : Resolve(r, choice)
  \/ \E d \in denies : DenyLands(d[1], d[2])
  \/ \E a \in answers : AnswerLands(a) \/ AnswerFails(a) \/ Verdict(a) \/ Reopen(a)

Spec == Init /\ [][Next]_vars

\* Timers fire, threads run, and a POST ends in a reply or a timeout.
Fairness ==
  /\ \A r \in AgentRuns : WF_vars(TimerFires(r)) /\ WF_vars(Expire(r))
  /\ WF_vars(\E a \in answers : AnswerLands(a) \/ AnswerFails(a))
  /\ WF_vars(\E a \in answers : Verdict(a) \/ Reopen(a))

FairSpec == Spec /\ Fairness

-----------------------------------------------------------------------------
(* Properties.                                                             *)

\* A question the operator has heard and nobody is answering has a timer that
\* will deny it: running, or fired and about to.
OpenIsTimed ==
  \A r \in AgentRuns : pending[r] # None /\ pending[r].opened /\ ~pending[r].resolving =>
    pending[r].timer = "armed" \/ firing[r] > 0

\* Two answers to one request are never on the wire together.
OneAnswerInFlight ==
  \A a, b \in answers : a.run = b.run /\ a.req = b.req => a = b

\* The bridge denies no request whose answer is on the wire or was accepted:
\* not by a timer, a barge-in or an eviction, whatever they interleave with.
NoDenyOverAnswer ==
  [][\A d \in denies' \ denies : \A a \in answers :
       ~(a.run = d[1] /\ a.req = d[2] /\ a.at \in {"sent", "ok", "gone"})]_vars

\* Silence denies only a question the operator was asked.  (Refuted when a run
\* asks twice: _expire finds its record by run id.)
SilenceOnlyAfterPrompt == silenced \subseteq heard

\* No run is denied for silence before the operator heard a prompt for it.
SilenceNeedsAPrompt == \A d \in silenced : \E h \in heard : h[1] = d[1]

\* What every state of the sidecar keeps.
ApprovalsSafe == TypeOK /\ OpenIsTimed /\ OneAnswerInFlight /\ SilenceNeedsAPrompt

\* A verdict forgets the record whose answer it is, and no other.
VerdictClearsItsOwn ==
  [][\A a \in answers : Verdict(a) =>
       pending[a.run] = None \/ pending[a.run].req = a.req]_vars

\* No session hears of a run that another session dispatched.  (Refuted with
\* two generations: the sidecar takes the generation when the remote id lands.)
Quarantined == \A r \in AgentRuns : pending[r] # None => born[r] = gen

\* An open question is answered, denied or withdrawn.
OpenIsClosed ==
  \A r \in AgentRuns : \A n \in Numbers \union {Lost} :
    (pending[r] # None /\ pending[r].req = n /\ pending[r].opened)
      ~> (pending[r] = None \/ pending[r].req # n)
=============================================================================
