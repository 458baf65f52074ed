----------------------------- MODULE ApprovalsProofs -----------------------------
(***************************************************************************)
(* Proofs about Approvals: ApprovalsSafe holds in every reachable state,   *)
(* and every step satisfies NoDenyOverAnswer, for every set of runs and    *)
(* every value of the bounds.                                              *)
(*                                                                         *)
(* The inductive invariant follows a request from the host to the wire:    *)
(* while it waits in the stream, or between the generation check and       *)
(* _register, it has no record and no answer (OnceInv, LostInv), so a      *)
(* registration never revives a request that is being answered, and a      *)
(* record whose answer is on the wire is claimed by it (ClaimedInv).       *)
(***************************************************************************)
EXTENDS Approvals, TLAPS

Request(n) == [kind |-> "request", n |-> n]

\* Request n of run r waits in the stream, or was read and is yet to be registered.
InStream(r, n) == \E i \in DOMAIN stream[r] : stream[r][i] = Request(n)
InEar(r, ear, n) ==
  hearing[r][ear] # None /\ hearing[r][ear].at = "checked" /\ hearing[r][ear].event = Request(n)

\* Request n of run r has neither a record nor an answer.
Unregistered(r, n) ==
  /\ pending[r] # None => pending[r].req # n
  /\ \A a \in answers : ~(a.run = r /\ a.req = n)

\* Some prompt of run r was heard.
Prompted(r) == \E h \in heard : h[1] = r

\* An answer on the wire has no timer; what is open, or fired, follows a prompt
\* that was heard.
HeardInv ==
  \A r \in AgentRuns :
    /\ pending[r] # None /\ pending[r].resolving => pending[r].timer = "none"
    /\ pending[r] # None /\ pending[r].opened => Prompted(r)
    /\ firing[r] > 0 => Prompted(r)

\* Each ear hears its own kind of event, and only a run that is over is heard
\* to be over.
EarsInv ==
  \A r \in AgentRuns :
    /\ hearing[r]["stream"] # None => hearing[r]["stream"].event \in Events
    /\ hearing[r]["poll"] # None => hearing[r]["poll"].event = Request(Lost)
    /\ \A i \in DOMAIN stream[r] : stream[r][i].kind = "over" => r \in over
    /\ hearing[r]["stream"] # None /\ hearing[r]["stream"].event.kind = "over" => r \in over

\* A sidecar starts after its run was dispatched.
BornInv == \A r \in AgentRuns : (born[r] = 0 => stamp[r] = 0) /\ born[r] <= gen

\* A stream carries a request once.
StreamOnce ==
  \A r \in AgentRuns : \A i, j \in DOMAIN stream[r] :
    stream[r][i] = stream[r][j] /\ stream[r][i].kind = "request" => i = j

\* A request on its way to the registry is in one place, and has neither a
\* record nor an answer; nor has one the host has not asked.
OnceInv ==
  \A r \in AgentRuns, n \in Numbers :
    /\ InEar(r, "stream", n) => ~InStream(r, n)
    /\ host[r][n] = "new" => ~InStream(r, n) /\ ~InEar(r, "stream", n) /\ Unregistered(r, n)
    /\ InStream(r, n) \/ InEar(r, "stream", n) => Unregistered(r, n)

\* The poll may still report a request of run r.
MayBeLost(r) == stamp[r] = 0 \/ (born[r] = gen /\ r \notin asked /\ r \notin over)

\* The same of the request a poll reports, whose id is gone.
LostInv ==
  \A r \in AgentRuns :
    /\ InEar(r, "poll", Lost) => Unregistered(r, Lost)
    /\ MayBeLost(r) => Unregistered(r, Lost) /\ ~InEar(r, "poll", Lost)

\* A record whose answer is on its way is claimed by it.
ClaimedInv ==
  \A a \in answers : pending[a.run] # None /\ pending[a.run].req = a.req => pending[a.run].resolving

ApprovalsInv ==
  /\ TypeOK /\ HeardInv /\ OpenIsTimed /\ SilenceNeedsAPrompt
  /\ EarsInv /\ BornInv /\ StreamOnce /\ OnceInv /\ LostInv /\ ClaimedInv /\ OneAnswerInFlight

-----------------------------------------------------------------------------
(* Types.                                                                  *)

\* An emitted event keeps the host's streams typed.
LEMMA EmitTyped ==
  ASSUME HostOK, NEW r \in AgentRuns, NEW e \in Events, Emit(r, e)
  PROVE  stream' \in [AgentRuns -> Seq(Events)]
BY DEF Emit, HostOK

\* So does a settled request.
LEMMA SettleTyped ==
  ASSUME HostOK, NEW r \in AgentRuns, NEW n \in Numbers, NEW choice \in AnswerChoices,
         Settle(r, n, choice), UNCHANGED over
  PROVE  HostOK'
<1>1. [kind |-> "responded", n |-> n] \in Events
  BY DEF Events
<1>2. stream' \in [AgentRuns -> Seq(Events)]
  BY <1>1, EmitTyped DEF Settle
<1> QED
  BY <1>2 DEF Settle, HostOK, Settled, AnswerChoices

\* What a request names is a request.
LEMMA TargetTyped ==
  ASSUME NEW r, NEW req, NEW n \in Target(r, req) PROVE n \in Numbers
BY DEF Target

\* What the host is asked, settles and sends keeps its type.
LEMMA HostStep == TypeOK /\ [Next]_vars => HostOK'
<1> SUFFICES ASSUME TypeOK, [Next]_vars PROVE HostOK'
  OBVIOUS
<1> USE DEF TypeOK
<1>0. ASSUME UNCHANGED hostVars PROVE HostOK'
  BY <1>0 DEF HostOK, hostVars
<1>1. CASE AttachSession
  BY <1>1, <1>0 DEF AttachSession, hostVars
<1>2. CASE DetachSession
  BY <1>2, <1>0 DEF DetachSession, hostVars
<1>3. CASE PromptSent
  BY <1>3, <1>0 DEF PromptSent, hostVars
<1>4. CASE BargeIn
  BY <1>4, <1>0 DEF BargeIn, hostVars
<1>5. ASSUME NEW r \in AgentRuns, Dispatch(r) PROVE HostOK'
  BY <1>5, <1>0 DEF Dispatch, hostVars
<1>6. ASSUME NEW r \in AgentRuns, WatchRun(r) PROVE HostOK'
  BY <1>6, <1>0 DEF WatchRun, hostVars
<1>7. ASSUME NEW r \in AgentRuns, StreamDies(r) PROVE HostOK'
  BY <1>7 DEF StreamDies, HostOK
<1>8. ASSUME NEW r \in AgentRuns, HostRunEnds(r) PROVE HostOK'
  <2>1. [kind |-> "over", n |-> Lost] \in Events
    BY DEF Events
  <2>2. stream' \in [AgentRuns -> Seq(Events)]
    BY <1>8, <2>1, EmitTyped DEF HostRunEnds
  <2> QED
    BY <1>8, <2>2 DEF HostRunEnds, HostOK, Settled
<1>9. ASSUME NEW r \in AgentRuns, CheckEvent(r) PROVE HostOK'
  <2>1. Tail(stream[r]) \in Seq(Events)
    BY <1>9 DEF CheckEvent, HostOK
  <2> QED
    BY <1>9, <2>1 DEF CheckEvent, HostOK
<1>10. ASSUME NEW r \in AgentRuns, CheckPoll(r) PROVE HostOK'
  BY <1>10, <1>0 DEF CheckPoll, hostVars
<1>11. ASSUME NEW r \in AgentRuns, Responded(r) PROVE HostOK'
  BY <1>11, <1>0 DEF Responded, hostVars
<1>12. ASSUME NEW r \in AgentRuns, RunOver(r) PROVE HostOK'
  BY <1>12, <1>0 DEF RunOver, hostVars
<1>13. ASSUME NEW r \in AgentRuns, TimerFires(r) PROVE HostOK'
  BY <1>13, <1>0 DEF TimerFires, hostVars
<1>14. ASSUME NEW r \in AgentRuns, Expire(r) PROVE HostOK'
  BY <1>14, <1>0 DEF Expire, hostVars
<1>15. ASSUME NEW r \in AgentRuns, NEW n \in Numbers, HostAsks(r, n)
       PROVE  HostOK'
  <2>1. [kind |-> "request", n |-> n] \in Events
    BY DEF Events
  <2>2. stream' \in [AgentRuns -> Seq(Events)]
    BY <1>15, <2>1, EmitTyped DEF HostAsks
  <2> QED
    BY <1>15, <2>2 DEF HostAsks, HostOK
<1>16. ASSUME NEW r \in AgentRuns, NEW n \in Numbers, HostExpires(r, n)
       PROVE  HostOK'
  BY <1>16 DEF HostExpires, HostOK, Settled
<1>17. ASSUME NEW r \in AgentRuns, NEW ear \in Ears, Register(r, ear)
       PROVE  HostOK'
  BY <1>17, <1>0 DEF Register, hostVars
<1>18. ASSUME NEW r \in AgentRuns, NEW ear \in Ears, Announce(r, ear)
       PROVE  HostOK'
  BY <1>18, <1>0 DEF Announce, hostVars
<1>19. ASSUME NEW r \in AgentRuns, NEW choice \in AnswerChoices, Resolve(r, choice)
       PROVE  HostOK'
  BY <1>19, <1>0 DEF Resolve, hostVars
<1>20. ASSUME NEW d \in denies, DenyLands(d[1], d[2]) PROVE HostOK'
  <2>1. d[1] \in AgentRuns
    BY DEF MailOK
  <2>2. CASE \E n \in Target(d[1], d[2]) : Settle(d[1], n, "deny")
    BY <1>20, <2>1, <2>2, SettleTyped, TargetTyped DEF DenyLands,
       AnswerChoices
  <2>3. CASE UNCHANGED <<host, stream>>
    BY <1>20, <2>3 DEF DenyLands, HostOK
  <2> QED
    BY <1>20, <2>2, <2>3 DEF DenyLands
<1>21. ASSUME NEW a \in answers, AnswerLands(a) PROVE HostOK'
  <2>1. a.run \in AgentRuns /\ a.choice \in AnswerChoices
    BY DEF MailOK, Answers
  <2>2. CASE \E n \in Target(a.run, a.req) : Settle(a.run, n, a.choice)
    BY <1>21, <2>1, <2>2, SettleTyped, TargetTyped DEF AnswerLands
  <2>3. CASE UNCHANGED <<host, stream>>
    BY <1>21, <2>3 DEF AnswerLands, HostOK
  <2> QED
    BY <1>21, <2>2, <2>3 DEF AnswerLands
<1>22. ASSUME NEW a \in answers, AnswerFails(a) PROVE HostOK'
  <2>1. a.run \in AgentRuns /\ a.choice \in AnswerChoices
    BY DEF MailOK, Answers
  <2>2. CASE \E n \in Target(a.run, a.req) : Settle(a.run, n, a.choice)
    BY <1>22, <2>1, <2>2, SettleTyped, TargetTyped DEF AnswerFails
  <2>3. CASE UNCHANGED <<host, stream>>
    BY <1>22, <2>3 DEF AnswerFails, HostOK
  <2> QED
    BY <1>22, <2>2, <2>3 DEF AnswerFails
<1>23. ASSUME NEW a \in answers, Verdict(a) PROVE HostOK'
  BY <1>23, <1>0 DEF Verdict, hostVars
<1>24. ASSUME NEW a \in answers, Reopen(a) PROVE HostOK'
  BY <1>24, <1>0 DEF Reopen, hostVars
<1>25. CASE UNCHANGED vars
  BY <1>25, <1>0 DEF vars
<1> QED
  BY <1>1, <1>2, <1>3, <1>4, <1>5, <1>6, <1>7, <1>8, <1>9, <1>10, <1>11,
     <1>12, <1>13, <1>14, <1>15, <1>16, <1>17, <1>18, <1>19, <1>20, <1>21,
        <1>22, <1>23, <1>24, <1>25 DEF Next

\* Sessions, generations and sidecars keep their types.
LEMMA SessionStep == TypeOK /\ [Next]_vars => SessionOK'
<1> SUFFICES ASSUME TypeOK, [Next]_vars PROVE SessionOK'
  OBVIOUS
<1> USE DEF TypeOK
<1>0. ASSUME UNCHANGED sessionVars PROVE SessionOK'
  BY <1>0 DEF SessionOK, sessionVars
<1>1. CASE AttachSession
  BY <1>1, ApprovalsAssumption DEF AttachSession, SessionOK
<1>2. CASE DetachSession
  <2>1. gen \in Int /\ gen' = gen + 1 /\ gen < MaxGeneration
    BY <1>2, ApprovalsAssumption DEF DetachSession, SessionOK
  <2>2. gen' \in 0 .. MaxGeneration
    BY <2>1, ApprovalsAssumption DEF SessionOK
  <2>3. attached' = FALSE /\ UNCHANGED <<born, stamp, watchers>>
    BY <1>2 DEF DetachSession
  <2> QED
    BY <2>2, <2>3 DEF SessionOK
<1>3. CASE PromptSent
  BY <1>3, <1>0 DEF PromptSent, sessionVars
<1>4. CASE BargeIn
  BY <1>4, <1>0 DEF BargeIn, sessionVars
<1>5. ASSUME NEW r \in AgentRuns, Dispatch(r) PROVE SessionOK'
  BY <1>5, ApprovalsAssumption DEF Dispatch, SessionOK
<1>6. ASSUME NEW r \in AgentRuns, WatchRun(r) PROVE SessionOK'
  BY <1>6, ApprovalsAssumption DEF WatchRun, SessionOK
<1>7. ASSUME NEW r \in AgentRuns, StreamDies(r) PROVE SessionOK'
  BY <1>7, ApprovalsAssumption DEF StreamDies, SessionOK
<1>8. ASSUME NEW r \in AgentRuns, HostRunEnds(r) PROVE SessionOK'
  BY <1>8, <1>0 DEF HostRunEnds, sessionVars
<1>9. ASSUME NEW r \in AgentRuns, CheckEvent(r) PROVE SessionOK'
  BY <1>9, <1>0 DEF CheckEvent, sessionVars
<1>10. ASSUME NEW r \in AgentRuns, CheckPoll(r) PROVE SessionOK'
  BY <1>10, <1>0 DEF CheckPoll, sessionVars
<1>11. ASSUME NEW r \in AgentRuns, Responded(r) PROVE SessionOK'
  BY <1>11, <1>0 DEF Responded, sessionVars
<1>12. ASSUME NEW r \in AgentRuns, RunOver(r) PROVE SessionOK'
  BY <1>12, <1>0 DEF RunOver, sessionVars
<1>13. ASSUME NEW r \in AgentRuns, TimerFires(r) PROVE SessionOK'
  BY <1>13, <1>0 DEF TimerFires, sessionVars
<1>14. ASSUME NEW r \in AgentRuns, Expire(r) PROVE SessionOK'
  BY <1>14, <1>0 DEF Expire, sessionVars
<1>15. ASSUME NEW r \in AgentRuns, NEW n \in Numbers, HostAsks(r, n)
       PROVE  SessionOK'
  BY <1>15, <1>0 DEF HostAsks, sessionVars
<1>16. ASSUME NEW r \in AgentRuns, NEW n \in Numbers, HostExpires(r, n)
       PROVE  SessionOK'
  BY <1>16, <1>0 DEF HostExpires, sessionVars
<1>17. ASSUME NEW r \in AgentRuns, NEW ear \in Ears, Register(r, ear)
       PROVE  SessionOK'
  BY <1>17, <1>0 DEF Register, sessionVars
<1>18. ASSUME NEW r \in AgentRuns, NEW ear \in Ears, Announce(r, ear)
       PROVE  SessionOK'
  BY <1>18, <1>0 DEF Announce, sessionVars
<1>19. ASSUME NEW r \in AgentRuns, NEW choice \in AnswerChoices, Resolve(r, choice)
       PROVE  SessionOK'
  BY <1>19, <1>0 DEF Resolve, sessionVars
<1>20. ASSUME NEW d \in denies, DenyLands(d[1], d[2]) PROVE SessionOK'
  BY <1>20, <1>0 DEF DenyLands, sessionVars
<1>21. ASSUME NEW a \in answers, AnswerLands(a) PROVE SessionOK'
  BY <1>21, <1>0 DEF AnswerLands, sessionVars
<1>22. ASSUME NEW a \in answers, AnswerFails(a) PROVE SessionOK'
  BY <1>22, <1>0 DEF AnswerFails, sessionVars
<1>23. ASSUME NEW a \in answers, Verdict(a) PROVE SessionOK'
  BY <1>23, <1>0 DEF Verdict, sessionVars
<1>24. ASSUME NEW a \in answers, Reopen(a) PROVE SessionOK'
  BY <1>24, <1>0 DEF Reopen, sessionVars
<1>25. CASE UNCHANGED vars
  BY <1>25, <1>0 DEF vars
<1> QED
  BY <1>1, <1>2, <1>3, <1>4, <1>5, <1>6, <1>7, <1>8, <1>9, <1>10, <1>11,
     <1>12, <1>13, <1>14, <1>15, <1>16, <1>17, <1>18, <1>19, <1>20, <1>21,
        <1>22, <1>23, <1>24, <1>25 DEF Next

\* What the actions make of a record is a record.
LEMMA PendingTyped ==
  ASSUME NEW p \in Pendings
  PROVE  /\ [p EXCEPT !.timer = "none"] \in Pendings
         /\ [p EXCEPT !.timer = "spent"] \in Pendings
         /\ [p EXCEPT !.timer = "armed"] \in Pendings
         /\ [p EXCEPT !.resolving = TRUE, !.timer = "none"] \in Pendings
         /\ \A t \in {"none", "armed", "spent"} :
              /\ [p EXCEPT !.opened = TRUE, !.timer = t] \in Pendings
              /\ [p EXCEPT !.resolving = FALSE, !.timer = t] \in Pendings
BY DEF Pendings

\* A new record is a record without a timer.
LEMMA NewPendingTyped ==
  ASSUME NEW n \in Numbers \union {Lost}
  PROVE  NewPending(n) \in Pendings /\ NewPending(n).timer = "none"
BY DEF Pendings, NewPending

\* Replacing one run's record keeps the records typed.
LEMMA PendingSet ==
  ASSUME RecordsOK, NEW r \in AgentRuns, NEW p \in Pendings \union {None},
         p # None /\ p.timer # "none" => p.opened,
         pending' = [pending EXCEPT ![r] = p]
  PROVE  /\ pending' \in [AgentRuns -> Pendings \union {None}]
         /\ \A q \in AgentRuns : pending'[q] # None /\ pending'[q].timer # "none" => pending'[q].opened
BY DEF RecordsOK

\* Records, timers and events in the middle of being heard keep their types.
LEMMA RecordsStep == TypeOK /\ [Next]_vars => RecordsOK'
<1> SUFFICES ASSUME TypeOK, [Next]_vars PROVE RecordsOK'
  OBVIOUS
<1> USE DEF TypeOK
<1>0. ASSUME UNCHANGED <<asked, hearing, pending, firing>> PROVE RecordsOK'
  BY <1>0 DEF RecordsOK
<1>1. CASE AttachSession
  BY <1>1, <1>0 DEF AttachSession, hostVars, sessionVars
<1>2. CASE DetachSession
  BY <1>2 DEF DetachSession, RecordsOK
<1>3. CASE PromptSent
  <2> DEFINE r == Head(prompts)[1]
             p == pending[r]
             t == IF p.resolving THEN p.timer ELSE "armed"
             new == [p EXCEPT !.opened = TRUE, !.timer = t]
  <2>1. r \in AgentRuns
    BY <1>3 DEF PromptSent, MailOK
  <2>2. UNCHANGED <<asked, hearing, firing>>
    BY <1>3 DEF PromptSent
  <2>3. CASE UNCHANGED pending
    BY <2>2, <2>3 DEF RecordsOK
  <2>4. CASE p # None /\ pending' = [pending EXCEPT ![r] = new]
    <3>1. p \in Pendings
      BY <2>1, <2>4 DEF RecordsOK
    <3>2. t \in {"none", "armed", "spent"}
      BY <3>1 DEF Pendings
    <3>3. new \in Pendings
      BY <3>1, <3>2, PendingTyped
    <3>4. new.opened
      BY <3>1 DEF Pendings
    <3> QED
      BY <2>1, <2>2, <2>4, <3>3, <3>4, PendingSet DEF RecordsOK
  <2>5. pending' = pending \/ (p # None /\ pending' = [pending EXCEPT ![r] =
     new])
    BY <1>3 DEF PromptSent
  <2> QED
    BY <2>3, <2>4, <2>5
<1>4. CASE BargeIn
  BY <1>4 DEF BargeIn, RecordsOK
<1>5. ASSUME NEW r \in AgentRuns, Dispatch(r) PROVE RecordsOK'
  BY <1>5, <1>0 DEF Dispatch, hostVars, sessionVars
<1>6. ASSUME NEW r \in AgentRuns, WatchRun(r) PROVE RecordsOK'
  BY <1>6, <1>0 DEF WatchRun, hostVars, sessionVars
<1>7. ASSUME NEW r \in AgentRuns, StreamDies(r) PROVE RecordsOK'
  BY <1>7, <1>0 DEF StreamDies, hostVars, sessionVars
<1>8. ASSUME NEW r \in AgentRuns, HostRunEnds(r) PROVE RecordsOK'
  BY <1>8, <1>0 DEF HostRunEnds, hostVars, sessionVars
<1>9. ASSUME NEW r \in AgentRuns, CheckEvent(r) PROVE RecordsOK'
  BY <1>9 DEF CheckEvent, RecordsOK, HostOK, Hearings, Ears
<1>10. ASSUME NEW r \in AgentRuns, CheckPoll(r) PROVE RecordsOK'
  BY <1>10 DEF CheckPoll, RecordsOK, Hearings, Ears, Lost
<1>11. ASSUME NEW r \in AgentRuns, Responded(r) PROVE RecordsOK'
  <2>1. hearing' \in [AgentRuns -> [Ears -> Hearings \union {None}]]
    BY <1>11 DEF Responded, RecordsOK, Ears
  <2>2. pending' = [pending EXCEPT ![r] = None]
    BY <1>11 DEF Responded, Clear
  <2> QED
    BY <1>11, <2>1, <2>2, PendingSet DEF Responded, RecordsOK
<1>12. ASSUME NEW r \in AgentRuns, RunOver(r) PROVE RecordsOK'
  <2>1. hearing' \in [AgentRuns -> [Ears -> Hearings \union {None}]]
    BY <1>12 DEF RunOver, RecordsOK, Ears
  <2>2. pending' = [pending EXCEPT ![r] = None]
    BY <1>12 DEF RunOver, Clear
  <2> QED
    BY <1>12, <2>1, <2>2, PendingSet DEF RunOver, RecordsOK
<1>13. ASSUME NEW r \in AgentRuns, TimerFires(r) PROVE RecordsOK'
  <2>1. pending[r] \in Pendings /\ pending[r].opened
    BY <1>13 DEF TimerFires, RecordsOK
  <2>2. pending' = [pending EXCEPT ![r] = [pending[r] EXCEPT !.timer =
     "spent"]]
    BY <1>13 DEF TimerFires
  <2>3. [pending[r] EXCEPT !.timer = "spent"].opened
    BY <2>1 DEF Pendings
  <2>4. firing' \in [AgentRuns -> Nat] /\ UNCHANGED <<asked, hearing>>
    BY <1>13 DEF TimerFires, RecordsOK
  <2> QED
    BY <1>13, <2>1, <2>2, <2>3, <2>4, PendingTyped, PendingSet DEF TimerFires,
       RecordsOK
<1>14. ASSUME NEW r \in AgentRuns, Expire(r) PROVE RecordsOK'
  <2>1. firing' \in [AgentRuns -> Nat] /\ UNCHANGED <<asked, hearing>>
    BY <1>14 DEF Expire, RecordsOK
  <2>2. CASE UNCHANGED pending
    BY <1>14, <2>1, <2>2 DEF RecordsOK
  <2>3. CASE pending[r] # None /\ pending' = [pending EXCEPT ![r].timer =
     "none"]
    <3>1. pending[r] \in Pendings
      BY <2>3 DEF RecordsOK
    <3>2. [pending[r] EXCEPT !.timer = "none"].timer = "none"
      BY <3>1 DEF Pendings
    <3> QED
      BY <2>1, <2>3, <3>1, <3>2, PendingTyped, PendingSet DEF RecordsOK
  <2>4. CASE Clear(r)
    BY <2>1, <2>4, PendingSet DEF RecordsOK, Clear
  <2> QED
    BY <1>14, <2>2, <2>3, <2>4 DEF Expire
<1>15. ASSUME NEW r \in AgentRuns, NEW n \in Numbers, HostAsks(r, n)
       PROVE  RecordsOK'
  BY <1>15, <1>0 DEF HostAsks, hostVars, sessionVars
<1>16. ASSUME NEW r \in AgentRuns, NEW n \in Numbers, HostExpires(r, n)
       PROVE  RecordsOK'
  BY <1>16, <1>0 DEF HostExpires, hostVars, sessionVars
<1>17. ASSUME NEW r \in AgentRuns, NEW ear \in Ears, Register(r, ear)
       PROVE  RecordsOK'
  <2> DEFINE n == hearing[r][ear].event.n
  <2>1. hearing[r][ear] \in Hearings /\ n \in Numbers \union {Lost}
    BY <1>17 DEF Register, Checked, RecordsOK, Ears, Hearings, Events
  <2>2. hearing' \in [AgentRuns -> [Ears -> Hearings \union {None}]]
    BY <1>17, <2>1 DEF Register, RecordsOK, Ears, Hearings
  <2>3. NewPending(n) \in Pendings /\ NewPending(n).timer = "none"
    BY <2>1, NewPendingTyped
  <2>4. CASE pending' = [pending EXCEPT ![r] = NewPending(n)]
    BY <1>17, <2>2, <2>3, <2>4, PendingSet DEF Register, RecordsOK
  <2>5. ASSUME NEW q \in AgentRuns \ {r},
               pending' = [pending EXCEPT ![q] = None, ![r] = NewPending(n)]
        PROVE RecordsOK'
    BY <1>17, <2>2, <2>3, <2>5 DEF Register, RecordsOK
  <2> QED
    BY <1>17, <2>4, <2>5 DEF Register, Evictable
<1>18. ASSUME NEW r \in AgentRuns, NEW ear \in Ears, Announce(r, ear)
       PROVE  RecordsOK'
  BY <1>18 DEF Announce, RecordsOK, Ears
<1>19. ASSUME NEW r \in AgentRuns, NEW choice \in AnswerChoices, Resolve(r, choice)
       PROVE  RecordsOK'
  <2>1. pending[r] \in Pendings
    BY <1>19 DEF Resolve, RecordsOK
  <2>2. pending' = [pending EXCEPT ![r] = [pending[r] EXCEPT !.resolving =
     TRUE, !.timer = "none"]]
    BY <1>19 DEF Resolve
  <2>3. [pending[r] EXCEPT !.resolving = TRUE, !.timer = "none"].timer =
     "none"
    BY <2>1 DEF Pendings
  <2> QED
    BY <1>19, <2>1, <2>2, <2>3, PendingTyped, PendingSet DEF Resolve,
       RecordsOK
<1>20. ASSUME NEW d \in denies, DenyLands(d[1], d[2]) PROVE RecordsOK'
  BY <1>20, <1>0 DEF DenyLands, hostVars, sessionVars
<1>21. ASSUME NEW a \in answers, AnswerLands(a) PROVE RecordsOK'
  BY <1>21, <1>0 DEF AnswerLands, hostVars, sessionVars
<1>22. ASSUME NEW a \in answers, AnswerFails(a) PROVE RecordsOK'
  BY <1>22, <1>0 DEF AnswerFails, hostVars, sessionVars
<1>23. ASSUME NEW a \in answers, Verdict(a) PROVE RecordsOK'
  <2>1. a.run \in AgentRuns
    BY DEF MailOK, Answers
  <2> QED
    BY <1>23, <2>1, PendingSet DEF Verdict, Clear, RecordsOK
<1>24. ASSUME NEW a \in answers, Reopen(a) PROVE RecordsOK'
  <2>1. a.run \in AgentRuns
    BY DEF MailOK, Answers
  <2>2. CASE UNCHANGED pending
    BY <1>24, <2>2 DEF Reopen, RecordsOK
  <2>3. CASE pending[a.run] # None /\ ~UNCHANGED pending
    <3> DEFINE p == pending[a.run]
               t == IF p.opened /\ p.timer = "none" THEN "armed" ELSE p.timer
               new == [p EXCEPT !.resolving = FALSE, !.timer = t]
    <3>1. p \in Pendings /\ (p.timer # "none" => p.opened)
      BY <2>1, <2>3 DEF RecordsOK
    <3>2. t \in {"none", "armed", "spent"} /\ (t # "none" => p.opened)
      BY <3>1 DEF Pendings
    <3>3. new \in Pendings
      BY <3>1, <3>2, PendingTyped
    <3>7. new.timer = t /\ new.opened = p.opened
      BY <3>1 DEF Pendings
    <3>4. pending' = [pending EXCEPT ![a.run] = new]
      BY <1>24, <2>3 DEF Reopen
    <3> HIDE DEF new, t
    <3>5. new.timer # "none" => new.opened
      BY <3>2, <3>7
    <3>6. UNCHANGED <<asked, hearing, firing>>
      BY <1>24 DEF Reopen
    <3> QED
      BY <2>1, <3>3, <3>4, <3>5, <3>6, PendingSet DEF RecordsOK
  <2> QED
    BY <1>24, <2>2, <2>3 DEF Reopen
<1>25. CASE UNCHANGED vars
  BY <1>25, <1>0 DEF vars
<1> QED
  BY <1>1, <1>2, <1>3, <1>4, <1>5, <1>6, <1>7, <1>8, <1>9, <1>10, <1>11,
     <1>12, <1>13, <1>14, <1>15, <1>16, <1>17, <1>18, <1>19, <1>20, <1>21,
        <1>22, <1>23, <1>24, <1>25 DEF Next

\* Prompts, answers and denials keep their types.
LEMMA MailStep == TypeOK /\ [Next]_vars => MailOK'
<1> SUFFICES ASSUME TypeOK, [Next]_vars PROVE MailOK'
  OBVIOUS
<1> USE DEF TypeOK
<1>0. ASSUME UNCHANGED <<prompts, heard, answers, denies, silenced, faults>>
   PROVE MailOK'
  BY <1>0 DEF MailOK
<1>1. CASE AttachSession
  BY <1>1, <1>0 DEF AttachSession, hostVars, sessionVars
<1>2. CASE DetachSession
  BY <1>2 DEF DetachSession, MailOK
<1>3. CASE PromptSent
  <2>1. Head(prompts) \in AgentRuns \X (Numbers \union {Lost})
    BY <1>3 DEF PromptSent, MailOK
  <2>2. Tail(prompts) \in Seq(AgentRuns \X (Numbers \union {Lost}))
    BY <1>3 DEF PromptSent, MailOK
  <2> QED
    BY <1>3, <2>1, <2>2 DEF PromptSent, MailOK
<1>4. CASE BargeIn
  <2>1. \A q \in Interrupted : <<q, pending[q].req>> \in AgentRuns \X (Numbers
     \union {Lost})
    BY DEF Interrupted, RecordsOK, Pendings
  <2> QED
    BY <1>4, <2>1 DEF BargeIn, MailOK
<1>5. ASSUME NEW r \in AgentRuns, Dispatch(r) PROVE MailOK'
  BY <1>5, <1>0 DEF Dispatch, hostVars, sessionVars
<1>6. ASSUME NEW r \in AgentRuns, WatchRun(r) PROVE MailOK'
  BY <1>6, <1>0 DEF WatchRun, hostVars, sessionVars
<1>7. ASSUME NEW r \in AgentRuns, StreamDies(r) PROVE MailOK'
  BY <1>7, ApprovalsAssumption DEF StreamDies, Faulty, MailOK
<1>8. ASSUME NEW r \in AgentRuns, HostRunEnds(r) PROVE MailOK'
  BY <1>8, <1>0 DEF HostRunEnds, hostVars, sessionVars
<1>9. ASSUME NEW r \in AgentRuns, CheckEvent(r) PROVE MailOK'
  BY <1>9, <1>0 DEF CheckEvent, hostVars, sessionVars
<1>10. ASSUME NEW r \in AgentRuns, CheckPoll(r) PROVE MailOK'
  BY <1>10, <1>0 DEF CheckPoll, hostVars, sessionVars
<1>11. ASSUME NEW r \in AgentRuns, Responded(r) PROVE MailOK'
  BY <1>11, <1>0 DEF Responded, hostVars, sessionVars
<1>12. ASSUME NEW r \in AgentRuns, RunOver(r) PROVE MailOK'
  BY <1>12, <1>0 DEF RunOver, hostVars, sessionVars
<1>13. ASSUME NEW r \in AgentRuns, TimerFires(r) PROVE MailOK'
  BY <1>13, <1>0 DEF TimerFires, hostVars, sessionVars
<1>14. ASSUME NEW r \in AgentRuns, Expire(r) PROVE MailOK'
  <2>1. pending[r] # None => <<r, pending[r].req>> \in AgentRuns \X (Numbers
     \union {Lost})
    BY DEF RecordsOK, Pendings
  <2> QED
    BY <1>14, <2>1 DEF Expire, MailOK
<1>15. ASSUME NEW r \in AgentRuns, NEW n \in Numbers, HostAsks(r, n)
       PROVE  MailOK'
  BY <1>15, <1>0 DEF HostAsks, hostVars, sessionVars
<1>16. ASSUME NEW r \in AgentRuns, NEW n \in Numbers, HostExpires(r, n)
       PROVE  MailOK'
  BY <1>16, ApprovalsAssumption DEF HostExpires, Faulty, MailOK
<1>17. ASSUME NEW r \in AgentRuns, NEW ear \in Ears, Register(r, ear)
       PROVE  MailOK'
  <2>1. \A q \in Evictable(r) : <<q, pending[q].req>> \in AgentRuns \X
     (Numbers \union {Lost})
    BY DEF Evictable, RecordsOK, Pendings
  <2> QED
    BY <1>17, <2>1 DEF Register, MailOK
<1>18. ASSUME NEW r \in AgentRuns, NEW ear \in Ears, Announce(r, ear)
       PROVE  MailOK'
  <2>1. hearing[r][ear] \in Hearings
    BY <1>18 DEF Announce, RecordsOK
  <2>2. hearing[r][ear].event.n \in Numbers \union {Lost}
    BY <2>1 DEF Hearings, Events
  <2> QED
    BY <1>18, <2>2 DEF Announce, MailOK
<1>19. ASSUME NEW r \in AgentRuns, NEW choice \in AnswerChoices, Resolve(r, choice)
       PROVE  MailOK'
  <2>1. [run |-> r, req |-> pending[r].req, choice |-> choice, at |-> "sent"]
     \in Answers
    BY <1>19 DEF Resolve, RecordsOK, Pendings, Answers
  <2> QED
    BY <1>19, <2>1 DEF Resolve, MailOK
<1>20. ASSUME NEW d \in denies, DenyLands(d[1], d[2]) PROVE MailOK'
  BY <1>20, ApprovalsAssumption DEF DenyLands, Faulty, MailOK
<1>21. ASSUME NEW a \in answers, AnswerLands(a) PROVE MailOK'
  <2>1. \A at \in {"ok", "gone"} : [a EXCEPT !.at = at] \in Answers
    BY DEF MailOK, Answers
  <2> QED
    BY <1>21, <2>1 DEF AnswerLands, Moved, MailOK
<1>22. ASSUME NEW a \in answers, AnswerFails(a) PROVE MailOK'
  <2>1. [a EXCEPT !.at = "err"] \in Answers
    BY DEF MailOK, Answers
  <2> QED
    BY <1>22, <2>1, ApprovalsAssumption DEF AnswerFails, Faulty, Moved, MailOK
<1>23. ASSUME NEW a \in answers, Verdict(a) PROVE MailOK'
  BY <1>23 DEF Verdict, MailOK
<1>24. ASSUME NEW a \in answers, Reopen(a) PROVE MailOK'
  BY <1>24 DEF Reopen, MailOK
<1>25. CASE UNCHANGED vars
  BY <1>25, <1>0 DEF vars
<1> QED
  BY <1>1, <1>2, <1>3, <1>4, <1>5, <1>6, <1>7, <1>8, <1>9, <1>10, <1>11,
     <1>12, <1>13, <1>14, <1>15, <1>16, <1>17, <1>18, <1>19, <1>20, <1>21,
        <1>22, <1>23, <1>24, <1>25 DEF Next

\* An answer on the wire has no timer; a question that was opened, or a timer
\* that fired, follows a prompt that was heard.
LEMMA HeardStep == TypeOK /\ HeardInv /\ [Next]_vars => HeardInv'
<1> SUFFICES ASSUME TypeOK /\ HeardInv, [Next]_vars PROVE HeardInv'
  OBVIOUS
<1> USE DEF TypeOK
<1>0. ASSUME UNCHANGED <<pending, firing, heard>> PROVE HeardInv'
  BY <1>0 DEF HeardInv, Prompted
<1>1. CASE AttachSession
  BY <1>1, <1>0 DEF AttachSession, hostVars, sessionVars
<1>2. CASE DetachSession
  BY <1>2 DEF DetachSession, HeardInv, Prompted
<1>3. CASE PromptSent
  <2>0. Head(prompts) \in AgentRuns \X (Numbers \union {Lost})
    BY <1>3 DEF PromptSent, MailOK
  <2>r. PICK r \in AgentRuns : r = Head(prompts)[1]
    BY <2>0
  <2>1. Prompted(r)'
    BY <1>3, <2>0, <2>r DEF PromptSent, Prompted
  <2>2. firing' = firing /\ \A q \in AgentRuns : Prompted(q) => Prompted(q)'
    BY <1>3 DEF PromptSent, Prompted
  <2>3. \A q \in AgentRuns \ {r} : pending'[q] = pending[q]
    BY <1>3, <2>r DEF PromptSent, RecordsOK
  <2>4. pending'[r] # None /\ pending'[r].resolving => pending'[r].timer =
     "none"
    BY <1>3, <2>r DEF PromptSent, RecordsOK, Pendings, HeardInv
  <2>5. ASSUME NEW q \in AgentRuns
        PROVE  /\ pending'[q] # None /\ pending'[q].resolving =>
                  pending'[q].timer = "none"
               /\ pending'[q] # None /\ pending'[q].opened => Prompted(q)'
               /\ firing'[q] > 0 => Prompted(q)'
    <3>1. CASE q = r
      BY <2>1, <2>4, <3>1
    <3>2. CASE q # r
      BY <2>2, <2>3, <3>2 DEF HeardInv
    <3> QED
      BY <3>1, <3>2
  <2> QED
    BY <2>5 DEF HeardInv
<1>4. CASE BargeIn
  BY <1>4 DEF BargeIn, HeardInv, Prompted, RecordsOK
<1>5. ASSUME NEW r \in AgentRuns, Dispatch(r) PROVE HeardInv'
  BY <1>5, <1>0 DEF Dispatch, hostVars, sessionVars
<1>6. ASSUME NEW r \in AgentRuns, WatchRun(r) PROVE HeardInv'
  BY <1>6, <1>0 DEF WatchRun, hostVars, sessionVars
<1>7. ASSUME NEW r \in AgentRuns, StreamDies(r) PROVE HeardInv'
  BY <1>7, <1>0 DEF StreamDies, hostVars, sessionVars
<1>8. ASSUME NEW r \in AgentRuns, HostRunEnds(r) PROVE HeardInv'
  BY <1>8, <1>0 DEF HostRunEnds, hostVars, sessionVars
<1>9. ASSUME NEW r \in AgentRuns, CheckEvent(r) PROVE HeardInv'
  BY <1>9, <1>0 DEF CheckEvent, hostVars, sessionVars
<1>10. ASSUME NEW r \in AgentRuns, CheckPoll(r) PROVE HeardInv'
  BY <1>10, <1>0 DEF CheckPoll, hostVars, sessionVars
<1>11. ASSUME NEW r \in AgentRuns, Responded(r) PROVE HeardInv'
  BY <1>11 DEF Responded, Clear, HeardInv, Prompted, RecordsOK
<1>12. ASSUME NEW r \in AgentRuns, RunOver(r) PROVE HeardInv'
  BY <1>12 DEF RunOver, Clear, HeardInv, Prompted, RecordsOK
<1>13. ASSUME NEW r \in AgentRuns, TimerFires(r) PROVE HeardInv'
  <2>1. pending[r] # None /\ pending[r] \in Pendings /\ pending[r].opened /\
     ~pending[r].resolving
    BY <1>13 DEF TimerFires, RecordsOK, HeardInv
  <2>2. \A q \in AgentRuns : pending'[q] # None =>
          /\ pending[q] # None
          /\ pending'[q].opened = pending[q].opened
          /\ pending'[q].resolving = pending[q].resolving
    BY <1>13, <2>1 DEF TimerFires, RecordsOK, Pendings
  <2>3. \A q \in AgentRuns \ {r} : pending'[q] = pending[q] /\ firing'[q] =
     firing[q]
    BY <1>13 DEF TimerFires, RecordsOK
  <2>4. \A q \in AgentRuns : Prompted(q) => Prompted(q)'
    BY <1>13 DEF TimerFires, Prompted
  <2>5. Prompted(r)
    BY <2>1 DEF HeardInv
  <2>6. pending'[r] # None => ~pending'[r].resolving
    BY <2>1, <2>2
  <2> QED
    BY <2>1, <2>2, <2>3, <2>4, <2>5, <2>6 DEF HeardInv
<1>14. ASSUME NEW r \in AgentRuns, Expire(r) PROVE HeardInv'
  <2>1. heard' = heard /\ \A q \in AgentRuns : firing'[q] > 0 => firing[q] > 0
    BY <1>14 DEF Expire, RecordsOK
  <2>2. \A q \in AgentRuns \ {r} : pending'[q] = pending[q]
    BY <1>14 DEF Expire, Clear, RecordsOK
  <2>3. \/ pending'[r] = None \/ pending'[r] = pending[r]
        \/ pending[r] # None /\ pending'[r] = [pending[r] EXCEPT !.timer =
           "none"]
    BY <1>14 DEF Expire, Clear, RecordsOK
  <2>4. pending'[r] # None =>
          /\ pending[r] # None /\ pending'[r].opened = pending[r].opened
          /\ (pending'[r].resolving => pending[r].resolving)
          /\ (pending'[r].timer = pending[r].timer \/ pending'[r].timer =
             "none")
    BY <2>3 DEF RecordsOK, Pendings
  <2> QED
    BY <2>1, <2>2, <2>4 DEF HeardInv, Prompted
<1>15. ASSUME NEW r \in AgentRuns, NEW n \in Numbers, HostAsks(r, n)
       PROVE  HeardInv'
  BY <1>15, <1>0 DEF HostAsks, hostVars, sessionVars
<1>16. ASSUME NEW r \in AgentRuns, NEW n \in Numbers, HostExpires(r, n)
       PROVE  HeardInv'
  BY <1>16, <1>0 DEF HostExpires, hostVars, sessionVars
<1>17. ASSUME NEW r \in AgentRuns, NEW ear \in Ears, Register(r, ear)
       PROVE  HeardInv'
  <2>1. heard' = heard /\ firing' = firing
    BY <1>17 DEF Register
  <2>2. ~NewPending(hearing[r][ear].event.n).opened /\
     ~NewPending(hearing[r][ear].event.n).resolving
    BY DEF NewPending
  <2>3. \A q \in AgentRuns : \/ pending'[q] = None \/ pending'[q] = pending[q]
          \/ pending'[q] = NewPending(hearing[r][ear].event.n)
    BY <1>17 DEF Register, RecordsOK
  <2> QED
    BY <2>1, <2>2, <2>3 DEF HeardInv, Prompted
<1>18. ASSUME NEW r \in AgentRuns, NEW ear \in Ears, Announce(r, ear)
       PROVE  HeardInv'
  BY <1>18, <1>0 DEF Announce, hostVars, sessionVars
<1>19. ASSUME NEW r \in AgentRuns, NEW choice \in AnswerChoices, Resolve(r, choice)
       PROVE  HeardInv'
  <2>1. heard' = heard /\ firing' = firing /\ pending[r] \in Pendings
    BY <1>19 DEF Resolve, RecordsOK
  <2>2. \A q \in AgentRuns \ {r} : pending'[q] = pending[q]
    BY <1>19 DEF Resolve, RecordsOK
  <2>3. pending'[r].timer = "none" /\ pending'[r].opened = pending[r].opened
     /\ pending[r] # None
    BY <1>19, <2>1 DEF Resolve, RecordsOK, Pendings
  <2> QED
    BY <2>1, <2>2, <2>3 DEF HeardInv, Prompted
<1>20. ASSUME NEW d \in denies, DenyLands(d[1], d[2]) PROVE HeardInv'
  BY <1>20, <1>0 DEF DenyLands, hostVars, sessionVars
<1>21. ASSUME NEW a \in answers, AnswerLands(a) PROVE HeardInv'
  BY <1>21, <1>0 DEF AnswerLands, hostVars, sessionVars
<1>22. ASSUME NEW a \in answers, AnswerFails(a) PROVE HeardInv'
  BY <1>22, <1>0 DEF AnswerFails, hostVars, sessionVars
<1>23. ASSUME NEW a \in answers, Verdict(a) PROVE HeardInv'
  <2>1. heard' = heard /\ firing' = firing
    BY <1>23 DEF Verdict
  <2>2. \A q \in AgentRuns : pending'[q] = None \/ pending'[q] = pending[q]
    BY <1>23 DEF Verdict, Clear, RecordsOK
  <2> QED
    BY <2>1, <2>2 DEF HeardInv, Prompted
<1>24. ASSUME NEW a \in answers, Reopen(a) PROVE HeardInv'
  <2>1. heard' = heard /\ firing' = firing /\ a.run \in AgentRuns
    BY <1>24 DEF Reopen, MailOK, Answers
  <2>2. \A q \in AgentRuns \ {a.run} : pending'[q] = pending[q]
    BY <1>24 DEF Reopen, RecordsOK
  <2>3. \/ pending'[a.run] = pending[a.run]
        \/ /\ pending[a.run] # None /\ ~pending'[a.run].resolving
           /\ pending'[a.run].opened = pending[a.run].opened
    BY <1>24, <2>1 DEF Reopen, RecordsOK, Pendings
  <2> QED
    BY <2>1, <2>2, <2>3 DEF HeardInv, Prompted
<1>25. CASE UNCHANGED vars
  BY <1>25, <1>0 DEF vars
<1> QED
  BY <1>1, <1>2, <1>3, <1>4, <1>5, <1>6, <1>7, <1>8, <1>9, <1>10, <1>11,
     <1>12, <1>13, <1>14, <1>15, <1>16, <1>17, <1>18, <1>19, <1>20, <1>21,
        <1>22, <1>23, <1>24, <1>25 DEF Next

\* A question that is open, heard and unanswered keeps a timer.
LEMMA TimedStep ==
  TypeOK /\ HeardInv /\ OpenIsTimed /\ [Next]_vars => OpenIsTimed'
<1> SUFFICES ASSUME TypeOK /\ HeardInv /\ OpenIsTimed, [Next]_vars
             PROVE  OpenIsTimed'
  OBVIOUS
<1> USE DEF TypeOK
<1>0. ASSUME UNCHANGED <<pending, firing>> PROVE OpenIsTimed'
  BY <1>0 DEF OpenIsTimed
<1>1. CASE AttachSession
  BY <1>1, <1>0 DEF AttachSession, hostVars, sessionVars
<1>2. CASE DetachSession
  BY <1>2 DEF DetachSession, OpenIsTimed
<1>3. CASE PromptSent
  <2>r. PICK r \in AgentRuns : r = Head(prompts)[1]
    BY <1>3 DEF PromptSent, MailOK
  <2>1. firing' = firing
    BY <1>3 DEF PromptSent
  <2>2. \A q \in AgentRuns \ {r} : pending'[q] = pending[q]
    BY <1>3, <2>r DEF PromptSent, RecordsOK
  <2>3. \/ pending'[r] = pending[r]
        \/ pending'[r].timer = "armed"
        \/ pending'[r].resolving
    BY <1>3, <2>r DEF PromptSent, RecordsOK, Pendings
  <2> QED
    BY <2>1, <2>2, <2>3 DEF OpenIsTimed
<1>4. CASE BargeIn
  BY <1>4 DEF BargeIn, OpenIsTimed, RecordsOK
<1>5. ASSUME NEW r \in AgentRuns, Dispatch(r) PROVE OpenIsTimed'
  BY <1>5, <1>0 DEF Dispatch, hostVars, sessionVars
<1>6. ASSUME NEW r \in AgentRuns, WatchRun(r) PROVE OpenIsTimed'
  BY <1>6, <1>0 DEF WatchRun, hostVars, sessionVars
<1>7. ASSUME NEW r \in AgentRuns, StreamDies(r) PROVE OpenIsTimed'
  BY <1>7, <1>0 DEF StreamDies, hostVars, sessionVars
<1>8. ASSUME NEW r \in AgentRuns, HostRunEnds(r) PROVE OpenIsTimed'
  BY <1>8, <1>0 DEF HostRunEnds, hostVars, sessionVars
<1>9. ASSUME NEW r \in AgentRuns, CheckEvent(r) PROVE OpenIsTimed'
  BY <1>9, <1>0 DEF CheckEvent, hostVars, sessionVars
<1>10. ASSUME NEW r \in AgentRuns, CheckPoll(r) PROVE OpenIsTimed'
  BY <1>10, <1>0 DEF CheckPoll, hostVars, sessionVars
<1>11. ASSUME NEW r \in AgentRuns, Responded(r) PROVE OpenIsTimed'
  BY <1>11 DEF Responded, Clear, OpenIsTimed, RecordsOK
<1>12. ASSUME NEW r \in AgentRuns, RunOver(r) PROVE OpenIsTimed'
  BY <1>12 DEF RunOver, Clear, OpenIsTimed, RecordsOK
<1>13. ASSUME NEW r \in AgentRuns, TimerFires(r) PROVE OpenIsTimed'
  <2>1. \A q \in AgentRuns \ {r} : pending'[q] = pending[q] /\ firing'[q] =
     firing[q]
    BY <1>13 DEF TimerFires, RecordsOK
  <2>2. firing'[r] > 0
    BY <1>13 DEF TimerFires, RecordsOK
  <2> QED
    BY <2>1, <2>2 DEF OpenIsTimed
<1>14. ASSUME NEW r \in AgentRuns, Expire(r) PROVE OpenIsTimed'
  <2>1. \A q \in AgentRuns \ {r} : pending'[q] = pending[q] /\ firing'[q] =
     firing[q]
    BY <1>14 DEF Expire, Clear, RecordsOK
  <2>2. \/ pending'[r] = None
        \/ pending[r] # None /\ pending[r].resolving /\ pending'[r] =
           [pending[r] EXCEPT !.timer = "none"]
    BY <1>14 DEF Expire, Clear, RecordsOK
  <2>3. pending'[r] # None => pending'[r].resolving
    BY <2>2 DEF RecordsOK, Pendings
  <2> QED
    BY <2>1, <2>3 DEF OpenIsTimed
<1>15. ASSUME NEW r \in AgentRuns, NEW n \in Numbers, HostAsks(r, n)
       PROVE  OpenIsTimed'
  BY <1>15, <1>0 DEF HostAsks, hostVars, sessionVars
<1>16. ASSUME NEW r \in AgentRuns, NEW n \in Numbers, HostExpires(r, n)
       PROVE  OpenIsTimed'
  BY <1>16, <1>0 DEF HostExpires, hostVars, sessionVars
<1>17. ASSUME NEW r \in AgentRuns, NEW ear \in Ears, Register(r, ear)
       PROVE  OpenIsTimed'
  <2>1. firing' = firing
    BY <1>17 DEF Register
  <2>2. ~NewPending(hearing[r][ear].event.n).opened
    BY DEF NewPending
  <2>3. \A q \in AgentRuns :
          \/ pending'[q] = None
          \/ pending'[q] = pending[q]
          \/ pending'[q] = NewPending(hearing[r][ear].event.n)
    BY <1>17 DEF Register, RecordsOK
  <2> QED
    BY <2>1, <2>2, <2>3 DEF OpenIsTimed
<1>18. ASSUME NEW r \in AgentRuns, NEW ear \in Ears, Announce(r, ear)
       PROVE  OpenIsTimed'
  BY <1>18, <1>0 DEF Announce, hostVars, sessionVars
<1>19. ASSUME NEW r \in AgentRuns, NEW choice \in AnswerChoices, Resolve(r, choice)
       PROVE  OpenIsTimed'
  <2>1. firing' = firing /\ pending[r] \in Pendings
    BY <1>19 DEF Resolve, RecordsOK
  <2>2. \A q \in AgentRuns \ {r} : pending'[q] = pending[q]
    BY <1>19 DEF Resolve, RecordsOK
  <2>3. pending'[r].resolving
    BY <1>19, <2>1 DEF Resolve, RecordsOK, Pendings
  <2> QED
    BY <2>1, <2>2, <2>3 DEF OpenIsTimed
<1>20. ASSUME NEW d \in denies, DenyLands(d[1], d[2]) PROVE OpenIsTimed'
  BY <1>20, <1>0 DEF DenyLands, hostVars, sessionVars
<1>21. ASSUME NEW a \in answers, AnswerLands(a) PROVE OpenIsTimed'
  BY <1>21, <1>0 DEF AnswerLands, hostVars, sessionVars
<1>22. ASSUME NEW a \in answers, AnswerFails(a) PROVE OpenIsTimed'
  BY <1>22, <1>0 DEF AnswerFails, hostVars, sessionVars
<1>23. ASSUME NEW a \in answers, Verdict(a) PROVE OpenIsTimed'
  <2>1. firing' = firing
    BY <1>23 DEF Verdict
  <2>2. \A q \in AgentRuns : pending'[q] = None \/ pending'[q] = pending[q]
    BY <1>23 DEF Verdict, Clear, RecordsOK
  <2> QED
    BY <2>1, <2>2 DEF OpenIsTimed
<1>24. ASSUME NEW a \in answers, Reopen(a) PROVE OpenIsTimed'
  <2> DEFINE r == a.run
  <2>1. firing' = firing /\ r \in AgentRuns
    BY <1>24 DEF Reopen, MailOK, Answers
  <2>2. \A q \in AgentRuns \ {r} : pending'[q] = pending[q]
    BY <1>24 DEF Reopen, RecordsOK
  <2>3. CASE UNCHANGED pending
    BY <2>1, <2>3 DEF OpenIsTimed
  <2>4. CASE ~UNCHANGED pending
    <3>1. /\ pending[r] \in Pendings /\ pending[r] # None
          /\ pending'[r] = [pending[r] EXCEPT !.resolving = FALSE,
                 !.timer = IF pending[r].opened /\ @ = "none" THEN "armed"
                    ELSE @]
      BY <1>24, <2>1, <2>4 DEF Reopen, RecordsOK
    <3>2. pending'[r].opened = pending[r].opened
      BY <3>1 DEF Pendings
    <3>3. \/ pending[r].opened /\ pending[r].timer = "none" /\
             pending'[r].timer = "armed"
          \/ ~(pending[r].opened /\ pending[r].timer = "none") /\
             pending'[r].timer = pending[r].timer
      BY <3>1 DEF Pendings
    <3>4. pending[r].resolving => pending[r].timer = "none"
      BY <2>1, <3>1 DEF HeardInv
    <3>5. ~pending[r].resolving /\ pending[r].opened => pending[r].timer =
       "armed" \/ firing[r] > 0
      BY <2>1, <3>1 DEF OpenIsTimed
    <3>6. pending'[r].opened => pending'[r].timer = "armed" \/ firing[r] > 0
      BY <3>2, <3>3, <3>4, <3>5
    <3> QED
      BY <2>1, <2>2, <3>6 DEF OpenIsTimed
  <2> QED
    BY <2>3, <2>4
<1>25. CASE UNCHANGED vars
  BY <1>25, <1>0 DEF vars
<1> QED
  BY <1>1, <1>2, <1>3, <1>4, <1>5, <1>6, <1>7, <1>8, <1>9, <1>10, <1>11,
     <1>12, <1>13, <1>14, <1>15, <1>16, <1>17, <1>18, <1>19, <1>20, <1>21,
        <1>22, <1>23, <1>24, <1>25 DEF Next

\* A timer denies no run whose operator heard nothing.
LEMMA SilenceStep ==
  TypeOK /\ HeardInv /\ SilenceNeedsAPrompt /\ [Next]_vars => SilenceNeedsAPrompt'
<1> SUFFICES ASSUME TypeOK /\ HeardInv /\ SilenceNeedsAPrompt, [Next]_vars
   PROVE SilenceNeedsAPrompt'
  OBVIOUS
<1> USE DEF TypeOK
<1>0. ASSUME UNCHANGED <<silenced, heard>> PROVE SilenceNeedsAPrompt'
  BY <1>0 DEF SilenceNeedsAPrompt
<1>1. CASE AttachSession
  BY <1>1, <1>0 DEF AttachSession, hostVars, sessionVars
<1>2. CASE DetachSession
  BY <1>2, <1>0 DEF DetachSession, hostVars, sessionVars
<1>3. CASE PromptSent
  BY <1>3 DEF PromptSent, SilenceNeedsAPrompt
<1>4. CASE BargeIn
  BY <1>4, <1>0 DEF BargeIn, hostVars, sessionVars
<1>5. ASSUME NEW r \in AgentRuns, Dispatch(r) PROVE SilenceNeedsAPrompt'
  BY <1>5, <1>0 DEF Dispatch, hostVars, sessionVars
<1>6. ASSUME NEW r \in AgentRuns, WatchRun(r) PROVE SilenceNeedsAPrompt'
  BY <1>6, <1>0 DEF WatchRun, hostVars, sessionVars
<1>7. ASSUME NEW r \in AgentRuns, StreamDies(r) PROVE SilenceNeedsAPrompt'
  BY <1>7, <1>0 DEF StreamDies, hostVars, sessionVars
<1>8. ASSUME NEW r \in AgentRuns, HostRunEnds(r) PROVE SilenceNeedsAPrompt'
  BY <1>8, <1>0 DEF HostRunEnds, hostVars, sessionVars
<1>9. ASSUME NEW r \in AgentRuns, CheckEvent(r) PROVE SilenceNeedsAPrompt'
  BY <1>9, <1>0 DEF CheckEvent, hostVars, sessionVars
<1>10. ASSUME NEW r \in AgentRuns, CheckPoll(r) PROVE SilenceNeedsAPrompt'
  BY <1>10, <1>0 DEF CheckPoll, hostVars, sessionVars
<1>11. ASSUME NEW r \in AgentRuns, Responded(r) PROVE SilenceNeedsAPrompt'
  BY <1>11, <1>0 DEF Responded, hostVars, sessionVars
<1>12. ASSUME NEW r \in AgentRuns, RunOver(r) PROVE SilenceNeedsAPrompt'
  BY <1>12, <1>0 DEF RunOver, hostVars, sessionVars
<1>13. ASSUME NEW r \in AgentRuns, TimerFires(r) PROVE SilenceNeedsAPrompt'
  BY <1>13, <1>0 DEF TimerFires, hostVars, sessionVars
<1>14. ASSUME NEW r \in AgentRuns, Expire(r) PROVE SilenceNeedsAPrompt'
  <2>1. Prompted(r)
    BY <1>14 DEF Expire, HeardInv
  <2>2. heard' = heard /\ silenced' \subseteq silenced \union {<<r,
     pending[r].req>>}
    BY <1>14 DEF Expire
  <2> QED
    BY <2>1, <2>2 DEF SilenceNeedsAPrompt, Prompted
<1>15. ASSUME NEW r \in AgentRuns, NEW n \in Numbers, HostAsks(r, n)
       PROVE  SilenceNeedsAPrompt'
  BY <1>15, <1>0 DEF HostAsks, hostVars, sessionVars
<1>16. ASSUME NEW r \in AgentRuns, NEW n \in Numbers, HostExpires(r, n)
       PROVE  SilenceNeedsAPrompt'
  BY <1>16, <1>0 DEF HostExpires, hostVars, sessionVars
<1>17. ASSUME NEW r \in AgentRuns, NEW ear \in Ears, Register(r, ear)
       PROVE  SilenceNeedsAPrompt'
  BY <1>17, <1>0 DEF Register, hostVars, sessionVars
<1>18. ASSUME NEW r \in AgentRuns, NEW ear \in Ears, Announce(r, ear)
       PROVE  SilenceNeedsAPrompt'
  BY <1>18, <1>0 DEF Announce, hostVars, sessionVars
<1>19. ASSUME NEW r \in AgentRuns, NEW choice \in AnswerChoices, Resolve(r, choice)
       PROVE  SilenceNeedsAPrompt'
  BY <1>19, <1>0 DEF Resolve, hostVars, sessionVars
<1>20. ASSUME NEW d \in denies, DenyLands(d[1], d[2])
       PROVE  SilenceNeedsAPrompt'
  BY <1>20, <1>0 DEF DenyLands, hostVars, sessionVars
<1>21. ASSUME NEW a \in answers, AnswerLands(a) PROVE SilenceNeedsAPrompt'
  BY <1>21, <1>0 DEF AnswerLands, hostVars, sessionVars
<1>22. ASSUME NEW a \in answers, AnswerFails(a) PROVE SilenceNeedsAPrompt'
  BY <1>22, <1>0 DEF AnswerFails, hostVars, sessionVars
<1>23. ASSUME NEW a \in answers, Verdict(a) PROVE SilenceNeedsAPrompt'
  BY <1>23, <1>0 DEF Verdict, hostVars, sessionVars
<1>24. ASSUME NEW a \in answers, Reopen(a) PROVE SilenceNeedsAPrompt'
  BY <1>24, <1>0 DEF Reopen, hostVars, sessionVars
<1>25. CASE UNCHANGED vars
  BY <1>25, <1>0 DEF vars
<1> QED
  BY <1>1, <1>2, <1>3, <1>4, <1>5, <1>6, <1>7, <1>8, <1>9, <1>10, <1>11,
     <1>12, <1>13, <1>14, <1>15, <1>16, <1>17, <1>18, <1>19, <1>20, <1>21,
        <1>22, <1>23, <1>24, <1>25 DEF Next

\* What a stream holds after an event was sent on it, or one was read from it.
LEMMA EmitGrows ==
  ASSUME HostOK, NEW r \in AgentRuns, NEW e \in Events, Emit(r, e),
         NEW q \in AgentRuns, NEW i \in DOMAIN stream'[q]
  PROVE  \/ i \in DOMAIN stream[q] /\ stream'[q][i] = stream[q][i]
         \/ q = r /\ i = Len(stream[r]) + 1 /\ i \notin DOMAIN stream[q] /\ stream'[q][i] = e
BY DEF Emit, HostOK

\* An event of the tail is the next of the stream.
LEMMA TailShifts ==
  ASSUME NEW s \in Seq(Events), s # <<>>, NEW i \in DOMAIN Tail(s)
  PROVE  i + 1 \in DOMAIN s /\ i \in Nat \ {0} /\ Tail(s)[i] = s[i + 1]
OBVIOUS

\* Each ear hears its own kind of event, and the end of a run is heard only of
\* a run that is over.
LEMMA EarsStep == TypeOK /\ EarsInv /\ [Next]_vars => EarsInv'
<1> SUFFICES ASSUME TypeOK /\ EarsInv, [Next]_vars PROVE EarsInv'
  OBVIOUS
<1> USE DEF TypeOK
<1>0. ASSUME UNCHANGED <<stream, hearing, over>> PROVE EarsInv'
  BY <1>0 DEF EarsInv
<1>h. ASSUME UNCHANGED hearing, over \subseteq over',
             \A q \in AgentRuns : \A i \in DOMAIN stream'[q] :
               stream'[q][i].kind = "over" =>
                 q \in over' \/ (i \in DOMAIN stream[q] /\ stream'[q][i] =
                    stream[q][i])
      PROVE  EarsInv'
  BY <1>h DEF EarsInv
<1>s. ASSUME NEW q \in AgentRuns, NEW n \in Numbers, NEW choice, Settle(q, n,
   choice),
             UNCHANGED <<hearing, over>>
      PROVE  EarsInv'
  <2>1. [kind |-> "responded", n |-> n] \in Events
    BY DEF Events
  <2> QED
    BY <1>s, <1>h, <2>1, EmitGrows DEF Settle
<1>1. CASE AttachSession
  BY <1>1, <1>0 DEF AttachSession, hostVars, sessionVars
<1>2. CASE DetachSession
  BY <1>2, <1>0 DEF DetachSession, hostVars, sessionVars
<1>3. CASE PromptSent
  BY <1>3, <1>0 DEF PromptSent, hostVars, sessionVars
<1>4. CASE BargeIn
  BY <1>4, <1>0 DEF BargeIn, hostVars, sessionVars
<1>5. ASSUME NEW r \in AgentRuns, Dispatch(r) PROVE EarsInv'
  BY <1>5, <1>0 DEF Dispatch, hostVars, sessionVars
<1>6. ASSUME NEW r \in AgentRuns, WatchRun(r) PROVE EarsInv'
  BY <1>6, <1>0 DEF WatchRun, hostVars, sessionVars
<1>7. ASSUME NEW r \in AgentRuns, StreamDies(r) PROVE EarsInv'
  BY <1>7 DEF StreamDies, EarsInv, HostOK
<1>8. ASSUME NEW r \in AgentRuns, HostRunEnds(r) PROVE EarsInv'
  <2>1. [kind |-> "over", n |-> Lost] \in Events
    BY DEF Events
  <2>2. over \subseteq over' /\ r \in over' /\ UNCHANGED hearing
    BY <1>8 DEF HostRunEnds, sessionVars
  <2> QED
    BY <1>8, <1>h, <2>1, <2>2, EmitGrows DEF HostRunEnds
<1>9. ASSUME NEW r \in AgentRuns, CheckEvent(r) PROVE EarsInv'
  <2>1. stream[r] \in Seq(Events) /\ stream[r] # <<>> /\ over' = over
    BY <1>9 DEF CheckEvent, HostOK
  <2>2. Head(stream[r]) \in Events /\ Head(stream[r]) = stream[r][1] /\ 1 \in
     DOMAIN stream[r]
    BY <2>1
  <2>3. ASSUME NEW q \in AgentRuns, NEW i \in DOMAIN stream'[q],
     stream'[q][i].kind = "over"
        PROVE  q \in over
    <3>1. CASE q = r
      <4>1. stream'[q] = Tail(stream[r])
        BY <1>9, <3>1 DEF CheckEvent, HostOK
      <4> QED
        BY <2>1, <2>3, <3>1, <4>1, TailShifts DEF EarsInv
    <3>2. CASE q # r
      BY <1>9, <2>3, <3>2 DEF CheckEvent, HostOK, EarsInv
    <3> QED
      BY <3>1, <3>2
  <2>4. ASSUME NEW q \in AgentRuns
        PROVE  /\ hearing'[q]["stream"] # None => hearing'[q]["stream"].event
                  \in Events
               /\ hearing'[q]["poll"] # None => hearing'[q]["poll"].event =
                  Request(Lost)
               /\ hearing'[q]["stream"] # None /\
                  hearing'[q]["stream"].event.kind = "over" => q \in over
    <3>1. hearing'[q]["poll"] = hearing[q]["poll"]
      BY <1>9 DEF CheckEvent, RecordsOK, Ears
    <3>2. \/ hearing'[q]["stream"] = hearing[q]["stream"]
          \/ q = r /\ hearing'[q]["stream"].event = Head(stream[r])
      BY <1>9 DEF CheckEvent, RecordsOK, Ears
    <3>3. Head(stream[r]).kind = "over" => r \in over
      BY <2>1, <2>2 DEF EarsInv
    <3> QED
      BY <2>2, <3>1, <3>2, <3>3 DEF EarsInv
  <2> QED
    BY <2>1, <2>3, <2>4 DEF EarsInv
<1>10. ASSUME NEW r \in AgentRuns, CheckPoll(r) PROVE EarsInv'
  <2>1. UNCHANGED <<stream, over>>
    BY <1>10 DEF CheckPoll, hostVars
  <2>2. \A q \in AgentRuns : hearing'[q]["stream"] = hearing[q]["stream"]
    BY <1>10 DEF CheckPoll, RecordsOK, Ears
  <2>3. \A q \in AgentRuns :
          hearing'[q]["poll"] = hearing[q]["poll"] \/
             hearing'[q]["poll"].event = Request(Lost)
    BY <1>10 DEF CheckPoll, RecordsOK, Ears, Request
  <2> QED
    BY <2>1, <2>2, <2>3 DEF EarsInv
<1>11. ASSUME NEW r \in AgentRuns, Responded(r) PROVE EarsInv'
  <2>1. UNCHANGED <<stream, over>>
    BY <1>11 DEF Responded, hostVars
  <2>2. \A q \in AgentRuns, e \in Ears : hearing'[q][e] = hearing[q][e] \/
     hearing'[q][e] = None
    BY <1>11 DEF Responded, RecordsOK, Ears
  <2> QED
    BY <2>1, <2>2 DEF EarsInv, Ears
<1>12. ASSUME NEW r \in AgentRuns, RunOver(r) PROVE EarsInv'
  <2>1. UNCHANGED <<stream, over>>
    BY <1>12 DEF RunOver, hostVars
  <2>2. \A q \in AgentRuns, e \in Ears : hearing'[q][e] = hearing[q][e] \/
     hearing'[q][e] = None
    BY <1>12 DEF RunOver, RecordsOK, Ears
  <2> QED
    BY <2>1, <2>2 DEF EarsInv, Ears
<1>13. ASSUME NEW r \in AgentRuns, TimerFires(r) PROVE EarsInv'
  BY <1>13, <1>0 DEF TimerFires, hostVars, sessionVars
<1>14. ASSUME NEW r \in AgentRuns, Expire(r) PROVE EarsInv'
  BY <1>14, <1>0 DEF Expire, hostVars, sessionVars
<1>15. ASSUME NEW r \in AgentRuns, NEW n \in Numbers, HostAsks(r, n)
       PROVE  EarsInv'
  <2>1. [kind |-> "request", n |-> n] \in Events
    BY DEF Events
  <2>2. over' = over /\ UNCHANGED hearing
    BY <1>15 DEF HostAsks, sessionVars
  <2> QED
    BY <1>15, <1>h, <2>1, <2>2, EmitGrows DEF HostAsks
<1>16. ASSUME NEW r \in AgentRuns, NEW n \in Numbers, HostExpires(r, n)
       PROVE  EarsInv'
  BY <1>16, <1>0 DEF HostExpires, hostVars, sessionVars
<1>17. ASSUME NEW r \in AgentRuns, NEW ear \in Ears, Register(r, ear)
       PROVE  EarsInv'
  <2>1. UNCHANGED <<stream, over>>
    BY <1>17 DEF Register, hostVars
  <2>2. hearing[r][ear] # None /\ hearing[r][ear] \in Hearings
    BY <1>17 DEF Register, Checked, RecordsOK
  <2>3. hearing' = [hearing EXCEPT ![r] = [@ EXCEPT ![ear] = [hearing[r][ear]
     EXCEPT !.at = "registered"]]]
    BY <1>17 DEF Register
  <2>4. [hearing[r][ear] EXCEPT !.at = "registered"].event =
     hearing[r][ear].event
    BY <2>2 DEF Hearings
  <2>5. ASSUME NEW q \in AgentRuns, NEW e \in Ears
        PROVE  \/ hearing'[q][e] = hearing[q][e]
               \/ hearing[q][e] # None /\ hearing'[q][e].event =
                  hearing[q][e].event
    BY <2>2, <2>3, <2>4 DEF RecordsOK
  <2> QED
    BY <2>1, <2>5 DEF EarsInv, Ears
<1>18. ASSUME NEW r \in AgentRuns, NEW ear \in Ears, Announce(r, ear)
       PROVE  EarsInv'
  <2>1. UNCHANGED <<stream, over>>
    BY <1>18 DEF Announce, hostVars
  <2>2. \A q \in AgentRuns, e \in Ears : hearing'[q][e] = hearing[q][e] \/
     hearing'[q][e] = None
    BY <1>18 DEF Announce, RecordsOK
  <2> QED
    BY <2>1, <2>2 DEF EarsInv, Ears
<1>19. ASSUME NEW r \in AgentRuns, NEW choice \in AnswerChoices, Resolve(r, choice)
       PROVE  EarsInv'
  BY <1>19, <1>0 DEF Resolve, hostVars, sessionVars
<1>20. ASSUME NEW d \in denies, DenyLands(d[1], d[2]) PROVE EarsInv'
  <2>1. d[1] \in AgentRuns
    BY DEF MailOK
  <2>2. UNCHANGED <<hearing, over>>
    BY <1>20 DEF DenyLands
  <2>3. CASE \E n \in Target(d[1], d[2]) : Settle(d[1], n, "deny")
    BY <1>s, <2>1, <2>2, <2>3, TargetTyped
  <2>4. CASE UNCHANGED <<host, stream>>
    BY <1>0, <2>2, <2>4
  <2> QED
    BY <1>20, <2>3, <2>4 DEF DenyLands
<1>21. ASSUME NEW a \in answers, AnswerLands(a) PROVE EarsInv'
  <2>1. a.run \in AgentRuns
    BY DEF MailOK, Answers
  <2>2. UNCHANGED <<hearing, over>>
    BY <1>21 DEF AnswerLands
  <2>3. CASE \E n \in Target(a.run, a.req) : Settle(a.run, n, a.choice)
    BY <1>s, <2>1, <2>2, <2>3, TargetTyped
  <2>4. CASE UNCHANGED <<host, stream>>
    BY <1>0, <2>2, <2>4
  <2> QED
    BY <1>21, <2>3, <2>4 DEF AnswerLands
<1>22. ASSUME NEW a \in answers, AnswerFails(a) PROVE EarsInv'
  <2>1. a.run \in AgentRuns
    BY DEF MailOK, Answers
  <2>2. UNCHANGED <<hearing, over>>
    BY <1>22 DEF AnswerFails
  <2>3. CASE \E n \in Target(a.run, a.req) : Settle(a.run, n, a.choice)
    BY <1>s, <2>1, <2>2, <2>3, TargetTyped
  <2>4. CASE UNCHANGED <<host, stream>>
    BY <1>0, <2>2, <2>4
  <2> QED
    BY <1>22, <2>3, <2>4 DEF AnswerFails
<1>23. ASSUME NEW a \in answers, Verdict(a) PROVE EarsInv'
  BY <1>23, <1>0 DEF Verdict, hostVars, sessionVars
<1>24. ASSUME NEW a \in answers, Reopen(a) PROVE EarsInv'
  BY <1>24, <1>0 DEF Reopen, hostVars, sessionVars
<1>25. CASE UNCHANGED vars
  BY <1>25, <1>0 DEF vars, hostVars
<1> QED
  BY <1>1, <1>2, <1>3, <1>4, <1>5, <1>6, <1>7, <1>8, <1>9, <1>10, <1>11,
     <1>12, <1>13, <1>14, <1>15, <1>16, <1>17, <1>18, <1>19, <1>20, <1>21,
        <1>22, <1>23, <1>24, <1>25 DEF Next

\* A sidecar starts after its run was dispatched, in a generation that is not
\* over.
LEMMA BornStep == TypeOK /\ BornInv /\ [Next]_vars => BornInv'
<1> SUFFICES ASSUME TypeOK /\ BornInv, [Next]_vars PROVE BornInv'
  OBVIOUS
<1> USE DEF TypeOK
<1>0. ASSUME UNCHANGED <<gen, born, stamp>> PROVE BornInv'
  BY <1>0 DEF BornInv
<1>1. CASE AttachSession
  <2>1. gen' = gen + 1 /\ gen \in Nat /\ UNCHANGED <<born, stamp>>
    BY <1>1, ApprovalsAssumption DEF AttachSession, SessionOK
  <2>2. \A q \in AgentRuns : born[q] \in Nat
    BY ApprovalsAssumption DEF SessionOK
  <2> QED
    BY <2>1, <2>2 DEF BornInv
<1>2. CASE DetachSession
  <2>1. gen' = gen + 1 /\ gen \in Nat /\ UNCHANGED <<born, stamp>>
    BY <1>2, ApprovalsAssumption DEF DetachSession, SessionOK
  <2>2. \A q \in AgentRuns : born[q] \in Nat
    BY ApprovalsAssumption DEF SessionOK
  <2> QED
    BY <2>1, <2>2 DEF BornInv
<1>3. CASE PromptSent
  BY <1>3, <1>0 DEF PromptSent, sessionVars
<1>4. CASE BargeIn
  BY <1>4, <1>0 DEF BargeIn, sessionVars
<1>5. ASSUME NEW r \in AgentRuns, Dispatch(r) PROVE BornInv'
  <2>1. UNCHANGED <<gen, stamp>> /\ gen \in Nat
    BY <1>5, ApprovalsAssumption DEF Dispatch, SessionOK
  <2>2. \A q \in AgentRuns : born'[q] = IF q = r THEN gen ELSE born[q]
    BY <1>5 DEF Dispatch, SessionOK
  <2>3. born[r] = 0
    BY <1>5 DEF Dispatch
  <2> QED
    BY <2>1, <2>2, <2>3 DEF BornInv
<1>6. ASSUME NEW r \in AgentRuns, WatchRun(r) PROVE BornInv'
  BY <1>6 DEF WatchRun, BornInv, SessionOK
<1>7. ASSUME NEW r \in AgentRuns, StreamDies(r) PROVE BornInv'
  BY <1>7, <1>0 DEF StreamDies, sessionVars
<1>8. ASSUME NEW r \in AgentRuns, HostRunEnds(r) PROVE BornInv'
  BY <1>8, <1>0 DEF HostRunEnds, sessionVars
<1>9. ASSUME NEW r \in AgentRuns, CheckEvent(r) PROVE BornInv'
  BY <1>9, <1>0 DEF CheckEvent, sessionVars
<1>10. ASSUME NEW r \in AgentRuns, CheckPoll(r) PROVE BornInv'
  BY <1>10, <1>0 DEF CheckPoll, sessionVars
<1>11. ASSUME NEW r \in AgentRuns, Responded(r) PROVE BornInv'
  BY <1>11, <1>0 DEF Responded, sessionVars
<1>12. ASSUME NEW r \in AgentRuns, RunOver(r) PROVE BornInv'
  BY <1>12, <1>0 DEF RunOver, sessionVars
<1>13. ASSUME NEW r \in AgentRuns, TimerFires(r) PROVE BornInv'
  BY <1>13, <1>0 DEF TimerFires, sessionVars
<1>14. ASSUME NEW r \in AgentRuns, Expire(r) PROVE BornInv'
  BY <1>14, <1>0 DEF Expire, sessionVars
<1>15. ASSUME NEW r \in AgentRuns, NEW n \in Numbers, HostAsks(r, n)
       PROVE  BornInv'
  BY <1>15, <1>0 DEF HostAsks, sessionVars
<1>16. ASSUME NEW r \in AgentRuns, NEW n \in Numbers, HostExpires(r, n)
       PROVE  BornInv'
  BY <1>16, <1>0 DEF HostExpires, sessionVars
<1>17. ASSUME NEW r \in AgentRuns, NEW ear \in Ears, Register(r, ear)
       PROVE  BornInv'
  BY <1>17, <1>0 DEF Register, sessionVars
<1>18. ASSUME NEW r \in AgentRuns, NEW ear \in Ears, Announce(r, ear)
       PROVE  BornInv'
  BY <1>18, <1>0 DEF Announce, sessionVars
<1>19. ASSUME NEW r \in AgentRuns, NEW choice \in AnswerChoices, Resolve(r, choice)
       PROVE  BornInv'
  BY <1>19, <1>0 DEF Resolve, sessionVars
<1>20. ASSUME NEW d \in denies, DenyLands(d[1], d[2]) PROVE BornInv'
  BY <1>20, <1>0 DEF DenyLands, sessionVars
<1>21. ASSUME NEW a \in answers, AnswerLands(a) PROVE BornInv'
  BY <1>21, <1>0 DEF AnswerLands, sessionVars
<1>22. ASSUME NEW a \in answers, AnswerFails(a) PROVE BornInv'
  BY <1>22, <1>0 DEF AnswerFails, sessionVars
<1>23. ASSUME NEW a \in answers, Verdict(a) PROVE BornInv'
  BY <1>23, <1>0 DEF Verdict, sessionVars
<1>24. ASSUME NEW a \in answers, Reopen(a) PROVE BornInv'
  BY <1>24, <1>0 DEF Reopen, sessionVars
<1>25. CASE UNCHANGED vars
  BY <1>25, <1>0 DEF vars, sessionVars
<1> QED
  BY <1>1, <1>2, <1>3, <1>4, <1>5, <1>6, <1>7, <1>8, <1>9, <1>10, <1>11,
     <1>12, <1>13, <1>14, <1>15, <1>16, <1>17, <1>18, <1>19, <1>20, <1>21,
        <1>22, <1>23, <1>24, <1>25 DEF Next

-----------------------------------------------------------------------------
(* One question, one record, one answer.                                   *)

\* No record and no answer is of a request that had neither.
NothingNew ==
  /\ \A q \in AgentRuns :
       pending'[q] # None => pending[q] # None /\ pending'[q].req = pending[q].req
  /\ \A b \in answers' :
       \/ \E a \in answers : a.run = b.run /\ a.req = b.req
       \/ pending[b.run] # None /\ pending[b.run].req = b.req

Registers == \E r \in AgentRuns, ear \in Ears : Register(r, ear)

\* No request comes into a stream or an ear, and none is forgotten by the host.
NoneComes ==
  \A q \in AgentRuns :
    /\ \A n \in Numbers : InStream(q, n)' => InStream(q, n)
    /\ \A n \in Numbers : host'[q][n] = "new" => host[q][n] = "new"
    /\ \A n \in Numbers : InEar(q, "stream", n)' => InEar(q, "stream", n)
    /\ InEar(q, "poll", Lost)' => InEar(q, "poll", Lost)

\* A host that asks, an ear that hears.
Brings ==
  \E r \in AgentRuns : \/ CheckEvent(r) \/ CheckPoll(r)
                       \/ \E n \in Numbers : HostAsks(r, n)

\* A step that brings no record leaves a request unregistered.
LEMMA StaysUnregistered ==
  ASSUME NothingNew, NEW r \in AgentRuns, NEW n, Unregistered(r, n)
  PROVE  Unregistered(r, n)'
BY DEF NothingNew, Unregistered

\* A step that brings no record and no event keeps each request in one place.
LEMMA StaysOnce ==
  ASSUME OnceInv, NothingNew, NoneComes PROVE OnceInv'
<1> SUFFICES ASSUME NEW r \in AgentRuns, NEW n \in Numbers
             PROVE  /\ InEar(r, "stream", n)' => ~InStream(r, n)'
                    /\ host'[r][n] = "new" =>
                         ~InStream(r, n)' /\ ~InEar(r, "stream", n)' /\ Unregistered(r, n)'
                    /\ InStream(r, n)' \/ InEar(r, "stream", n)' => Unregistered(r, n)'
  BY DEF OnceInv
<1>1. /\ InStream(r, n)' => InStream(r, n)
      /\ host'[r][n] = "new" => host[r][n] = "new"
      /\ InEar(r, "stream", n)' => InEar(r, "stream", n)
  BY DEF NoneComes
<1> QED
  BY <1>1, StaysUnregistered DEF OnceInv

\* Only a registration makes a record, and only a record is answered.
LEMMA OnlyRegistersNew == TypeOK /\ [Next]_vars => NothingNew \/ Registers
<1> SUFFICES ASSUME TypeOK, [Next]_vars PROVE NothingNew \/ Registers
  OBVIOUS
<1> USE DEF TypeOK
<1>a. ASSUME UNCHANGED <<pending, answers>> PROVE NothingNew
  BY <1>a DEF NothingNew
<1>b. ASSUME answers' \subseteq answers,
             \A q \in AgentRuns :
               pending'[q] # None => pending[q] # None /\ pending'[q].req =
                  pending[q].req
      PROVE  NothingNew
  BY <1>b DEF NothingNew
<1>1. CASE AttachSession
  BY <1>1, <1>a DEF AttachSession, hostVars, sessionVars
<1>2. CASE DetachSession
  BY <1>2, <1>b DEF DetachSession
<1>3. CASE PromptSent
  <2>r. PICK r \in AgentRuns : r = Head(prompts)[1]
    BY <1>3 DEF PromptSent, MailOK
  <2>1. answers' = answers /\ \A q \in AgentRuns \ {r} : pending'[q] =
     pending[q]
    BY <1>3, <2>r DEF PromptSent, RecordsOK
  <2>2. pending'[r] # None => pending[r] # None /\ pending'[r].req =
     pending[r].req
    BY <1>3, <2>r DEF PromptSent, RecordsOK, Pendings
  <2> QED
    BY <1>b, <2>1, <2>2
<1>4. CASE BargeIn
  BY <1>4, <1>b DEF BargeIn
<1>5. ASSUME NEW r \in AgentRuns, Dispatch(r) PROVE NothingNew \/ Registers
  BY <1>5, <1>a DEF Dispatch, hostVars, sessionVars
<1>6. ASSUME NEW r \in AgentRuns, WatchRun(r) PROVE NothingNew \/ Registers
  BY <1>6, <1>a DEF WatchRun, hostVars, sessionVars
<1>7. ASSUME NEW r \in AgentRuns, StreamDies(r) PROVE NothingNew \/ Registers
  BY <1>7, <1>a DEF StreamDies, hostVars, sessionVars
<1>8. ASSUME NEW r \in AgentRuns, HostRunEnds(r) PROVE NothingNew \/ Registers
  BY <1>8, <1>a DEF HostRunEnds, hostVars, sessionVars
<1>9. ASSUME NEW r \in AgentRuns, CheckEvent(r) PROVE NothingNew \/ Registers
  BY <1>9, <1>a DEF CheckEvent, hostVars, sessionVars
<1>10. ASSUME NEW r \in AgentRuns, CheckPoll(r) PROVE NothingNew \/ Registers
  BY <1>10, <1>a DEF CheckPoll, hostVars, sessionVars
<1>11. ASSUME NEW r \in AgentRuns, Responded(r) PROVE NothingNew \/ Registers
  BY <1>11, <1>b DEF Responded, Clear, RecordsOK
<1>12. ASSUME NEW r \in AgentRuns, RunOver(r) PROVE NothingNew \/ Registers
  BY <1>12, <1>b DEF RunOver, Clear, RecordsOK
<1>13. ASSUME NEW r \in AgentRuns, TimerFires(r) PROVE NothingNew \/ Registers
  <2>1. answers' = answers /\ \A q \in AgentRuns \ {r} : pending'[q] =
     pending[q]
    BY <1>13 DEF TimerFires, Clear, RecordsOK
  <2>2. pending'[r] # None => pending[r] # None /\ pending'[r].req =
     pending[r].req
    BY <1>13 DEF TimerFires, Clear, RecordsOK, Pendings
  <2> QED
    BY <1>b, <2>1, <2>2
<1>14. ASSUME NEW r \in AgentRuns, Expire(r) PROVE NothingNew \/ Registers
  <2>1. answers' = answers /\ \A q \in AgentRuns \ {r} : pending'[q] =
     pending[q]
    BY <1>14 DEF Expire, Clear, RecordsOK
  <2>2. pending'[r] # None => pending[r] # None /\ pending'[r].req =
     pending[r].req
    BY <1>14 DEF Expire, Clear, RecordsOK, Pendings
  <2> QED
    BY <1>b, <2>1, <2>2
<1>15. ASSUME NEW r \in AgentRuns, NEW n \in Numbers, HostAsks(r, n)
       PROVE  NothingNew \/ Registers
  BY <1>15, <1>a DEF HostAsks, hostVars, sessionVars
<1>16. ASSUME NEW r \in AgentRuns, NEW n \in Numbers, HostExpires(r, n)
       PROVE  NothingNew \/ Registers
  BY <1>16, <1>a DEF HostExpires, hostVars, sessionVars
<1>17. ASSUME NEW r \in AgentRuns, NEW ear \in Ears, Register(r, ear)
       PROVE  NothingNew \/ Registers
  BY <1>17 DEF Registers
<1>18. ASSUME NEW r \in AgentRuns, NEW ear \in Ears, Announce(r, ear)
       PROVE  NothingNew \/ Registers
  BY <1>18, <1>a DEF Announce, hostVars, sessionVars
<1>19. ASSUME NEW r \in AgentRuns, NEW choice \in AnswerChoices, Resolve(r, choice)
       PROVE  NothingNew \/ Registers
  <2>1. pending[r] # None /\ pending[r] \in Pendings
    BY <1>19 DEF Resolve, RecordsOK
  <2>2. pending'[r].req = pending[r].req /\ \A q \in AgentRuns \ {r} :
     pending'[q] = pending[q]
    BY <1>19, <2>1 DEF Resolve, RecordsOK, Pendings
  <2>c. PICK c : c = [run |-> r, req |-> pending[r].req, choice |-> choice, at
     |-> "sent"]
    OBVIOUS
  <2>3. c.run = r /\ c.req = pending[r].req /\ answers' = answers \union {c}
    BY <1>19, <2>c DEF Resolve
  <2> QED
    BY <2>1, <2>2, <2>3 DEF NothingNew
<1>20. ASSUME NEW d \in denies, DenyLands(d[1], d[2])
       PROVE  NothingNew \/ Registers
  BY <1>20, <1>a DEF DenyLands, hostVars, sessionVars
<1>21. ASSUME NEW a \in answers, AnswerLands(a) PROVE NothingNew \/ Registers
  <2>1. a \in Answers /\ pending' = pending
    BY <1>21 DEF AnswerLands, MailOK
  <2>2. PICK at \in {"ok", "gone", "err"} : Moved(a, at)
    BY <1>21 DEF AnswerLands
  <2>3. [a EXCEPT !.at = at].run = a.run /\ [a EXCEPT !.at = at].req = a.req
    BY <2>1 DEF Answers
  <2> QED
    BY <2>1, <2>2, <2>3 DEF Moved, NothingNew
<1>22. ASSUME NEW a \in answers, AnswerFails(a) PROVE NothingNew \/ Registers
  <2>1. a \in Answers /\ pending' = pending
    BY <1>22 DEF AnswerFails, MailOK
  <2>2. PICK at \in {"ok", "gone", "err"} : Moved(a, at)
    BY <1>22 DEF AnswerFails
  <2>3. [a EXCEPT !.at = at].run = a.run /\ [a EXCEPT !.at = at].req = a.req
    BY <2>1 DEF Answers
  <2> QED
    BY <2>1, <2>2, <2>3 DEF Moved, NothingNew
<1>23. ASSUME NEW a \in answers, Verdict(a) PROVE NothingNew \/ Registers
  BY <1>23, <1>b DEF Verdict, Clear, RecordsOK
<1>24. ASSUME NEW a \in answers, Reopen(a) PROVE NothingNew \/ Registers
  <2>1. a.run \in AgentRuns /\ answers' \subseteq answers
    BY <1>24 DEF Reopen, MailOK, Answers
  <2>2. \A q \in AgentRuns \ {a.run} : pending'[q] = pending[q]
    BY <1>24 DEF Reopen, RecordsOK
  <2>3. pending'[a.run] # None => pending[a.run] # None /\ pending'[a.run].req
     = pending[a.run].req
    BY <1>24, <2>1 DEF Reopen, RecordsOK, Pendings
  <2> QED
    BY <1>b, <2>1, <2>2, <2>3
<1>25. CASE UNCHANGED vars
  BY <1>25, <1>a DEF vars
<1> QED
  BY <1>1, <1>2, <1>3, <1>4, <1>5, <1>6, <1>7, <1>8, <1>9, <1>10, <1>11,
     <1>12, <1>13, <1>14, <1>15, <1>16, <1>17, <1>18, <1>19, <1>20, <1>21,
        <1>22, <1>23, <1>24, <1>25 DEF Next

\* An event that asks for nothing brings no request.
LEMMA EmitAsksNothing ==
  ASSUME HostOK, NEW r \in AgentRuns, NEW e \in Events, Emit(r, e), e.kind # "request"
  PROVE  /\ \A q \in AgentRuns, n \in Numbers : InStream(q, n)' => InStream(q, n)
         /\ StreamOnce => StreamOnce'
<1>1. ASSUME NEW q \in AgentRuns, NEW i \in DOMAIN stream'[q], stream'[q][i].kind = "request"
      PROVE  i \in DOMAIN stream[q] /\ stream'[q][i] = stream[q][i]
  BY <1>1, EmitGrows
<1>2. \A q \in AgentRuns, n \in Numbers : InStream(q, n)' => InStream(q, n)
  BY <1>1 DEF InStream, Request
<1>3. StreamOnce => StreamOnce'
  BY <1>1 DEF StreamOnce
<1> QED
  BY <1>2, <1>3

\* A settled request brings none.
LEMMA SettleAsksNothing ==
  ASSUME HostOK, NEW r \in AgentRuns, NEW m \in Numbers, NEW choice \in AnswerChoices,
         Settle(r, m, choice), UNCHANGED hearing
  PROVE  NoneComes /\ (StreamOnce => StreamOnce')
<1>1. [kind |-> "responded", n |-> m] \in Events
  BY DEF Events
<1>2. /\ \A q \in AgentRuns, n \in Numbers : InStream(q, n)' => InStream(q, n)
      /\ StreamOnce => StreamOnce'
  BY <1>1, EmitAsksNothing DEF Settle
<1>3. \A q \in AgentRuns, n \in Numbers : host'[q][n] = "new" => host[q][n] = "new"
  BY DEF Settle, HostOK, AnswerChoices
<1>4. \A q \in AgentRuns, ear \in Ears : \A n : InEar(q, ear, n)' => InEar(q, ear, n)
  BY DEF InEar
<1> QED
  BY <1>2, <1>3, <1>4 DEF NoneComes, Ears

\* Only the host asks, and only the two ears hear.
LEMMA FewBring == TypeOK /\ [Next]_vars => NoneComes \/ Brings
<1> SUFFICES ASSUME TypeOK, [Next]_vars PROVE NoneComes \/ Brings
  OBVIOUS
<1> USE DEF TypeOK
<1>a. ASSUME UNCHANGED <<host, stream, hearing>> PROVE NoneComes
  BY <1>a DEF NoneComes, InStream, InEar
<1>b. ASSUME UNCHANGED <<host, stream>>,
             \A q \in AgentRuns, ear \in Ears :
               \/ hearing'[q][ear] \in {None, hearing[q][ear]}
               \/ hearing'[q][ear].at # "checked"
      PROVE  NoneComes
  BY <1>b DEF NoneComes, InStream, InEar, Ears
<1>1. CASE AttachSession
  BY <1>1, <1>a DEF AttachSession, hostVars, sessionVars
<1>2. CASE DetachSession
  BY <1>2, <1>a DEF DetachSession, hostVars, sessionVars
<1>3. CASE PromptSent
  BY <1>3, <1>a DEF PromptSent, hostVars, sessionVars
<1>4. CASE BargeIn
  BY <1>4, <1>a DEF BargeIn, hostVars, sessionVars
<1>5. ASSUME NEW r \in AgentRuns, Dispatch(r) PROVE NoneComes \/ Brings
  BY <1>5, <1>a DEF Dispatch, hostVars, sessionVars
<1>6. ASSUME NEW r \in AgentRuns, WatchRun(r) PROVE NoneComes \/ Brings
  BY <1>6, <1>a DEF WatchRun, hostVars, sessionVars
<1>7. ASSUME NEW r \in AgentRuns, StreamDies(r) PROVE NoneComes \/ Brings
  BY <1>7 DEF StreamDies, NoneComes, InStream, InEar, HostOK
<1>8. ASSUME NEW r \in AgentRuns, HostRunEnds(r) PROVE NoneComes \/ Brings
  <2>1. [kind |-> "over", n |-> Lost] \in Events
    BY DEF Events
  <2>2. Emit(r, [kind |-> "over", n |-> Lost]) /\ UNCHANGED hearing
    BY <1>8 DEF HostRunEnds
  <2>3. \A q \in AgentRuns, m \in Numbers : host'[q][m] = "new" => host[q][m]
     = "new"
    BY <1>8 DEF HostRunEnds, HostOK
  <2> QED
    BY <2>1, <2>2, <2>3, EmitAsksNothing DEF NoneComes, InEar
<1>9. ASSUME NEW r \in AgentRuns, CheckEvent(r) PROVE NoneComes \/ Brings
  BY <1>9 DEF Brings
<1>10. ASSUME NEW r \in AgentRuns, CheckPoll(r) PROVE NoneComes \/ Brings
  BY <1>10 DEF Brings
<1>11. ASSUME NEW r \in AgentRuns, Responded(r) PROVE NoneComes \/ Brings
  <2>1. UNCHANGED <<host, stream>>
    BY <1>11 DEF Responded, hostVars
  <2> QED
    BY <1>11, <1>b, <2>1 DEF Responded, RecordsOK, Ears
<1>12. ASSUME NEW r \in AgentRuns, RunOver(r) PROVE NoneComes \/ Brings
  <2>1. UNCHANGED <<host, stream>>
    BY <1>12 DEF RunOver, hostVars
  <2> QED
    BY <1>12, <1>b, <2>1 DEF RunOver, RecordsOK, Ears
<1>13. ASSUME NEW r \in AgentRuns, TimerFires(r) PROVE NoneComes \/ Brings
  BY <1>13, <1>a DEF TimerFires, hostVars, sessionVars
<1>14. ASSUME NEW r \in AgentRuns, Expire(r) PROVE NoneComes \/ Brings
  BY <1>14, <1>a DEF Expire, hostVars, sessionVars
<1>15. ASSUME NEW r \in AgentRuns, NEW n \in Numbers, HostAsks(r, n)
       PROVE  NoneComes \/ Brings
  BY <1>15 DEF Brings
<1>16. ASSUME NEW r \in AgentRuns, NEW n \in Numbers, HostExpires(r, n)
       PROVE  NoneComes \/ Brings
  BY <1>16 DEF HostExpires, NoneComes, InStream, InEar, HostOK
<1>17. ASSUME NEW r \in AgentRuns, NEW ear \in Ears, Register(r, ear)
       PROVE  NoneComes \/ Brings
  <2>1. UNCHANGED <<host, stream>>
    BY <1>17 DEF Register, hostVars
  <2>2. hearing[r][ear] \in Hearings
    BY <1>17 DEF Register, Checked, RecordsOK
  <2>3. [hearing[r][ear] EXCEPT !.at = "registered"].at = "registered"
    BY <2>2 DEF Hearings
  <2>4. hearing' = [hearing EXCEPT ![r] = [@ EXCEPT ![ear] = [hearing[r][ear]
     EXCEPT !.at = "registered"]]]
    BY <1>17 DEF Register
  <2>5. \A q \in AgentRuns, e \in Ears :
          hearing'[q][e] = hearing[q][e] \/ hearing'[q][e].at = "registered"
    BY <2>3, <2>4 DEF RecordsOK
  <2> QED
    BY <1>b, <2>1, <2>5
<1>18. ASSUME NEW r \in AgentRuns, NEW ear \in Ears, Announce(r, ear)
       PROVE  NoneComes \/ Brings
  <2>1. UNCHANGED <<host, stream>>
    BY <1>18 DEF Announce, hostVars
  <2> QED
    BY <1>18, <1>b, <2>1 DEF Announce, RecordsOK, Ears
<1>19. ASSUME NEW r \in AgentRuns, NEW choice \in AnswerChoices, Resolve(r, choice)
       PROVE  NoneComes \/ Brings
  BY <1>19, <1>a DEF Resolve, hostVars, sessionVars
<1>20. ASSUME NEW d \in denies, DenyLands(d[1], d[2])
       PROVE  NoneComes \/ Brings
  <2>1. d[1] \in AgentRuns /\ UNCHANGED hearing
    BY <1>20 DEF DenyLands, MailOK
  <2>2. CASE \E n \in Target(d[1], d[2]) : Settle(d[1], n, "deny")
    BY <2>1, <2>2, SettleAsksNothing, TargetTyped DEF AnswerChoices
  <2> QED
    BY <1>20, <1>a, <2>1, <2>2 DEF DenyLands
<1>21. ASSUME NEW a \in answers, AnswerLands(a) PROVE NoneComes \/ Brings
  <2>1. a.run \in AgentRuns /\ a.choice \in AnswerChoices /\ UNCHANGED hearing
    BY <1>21 DEF AnswerLands, MailOK, Answers
  <2>2. CASE \E n \in Target(a.run, a.req) : Settle(a.run, n, a.choice)
    BY <2>1, <2>2, SettleAsksNothing, TargetTyped
  <2> QED
    BY <1>21, <1>a, <2>1, <2>2 DEF AnswerLands
<1>22. ASSUME NEW a \in answers, AnswerFails(a) PROVE NoneComes \/ Brings
  <2>1. a.run \in AgentRuns /\ a.choice \in AnswerChoices /\ UNCHANGED hearing
    BY <1>22 DEF AnswerFails, MailOK, Answers
  <2>2. CASE \E n \in Target(a.run, a.req) : Settle(a.run, n, a.choice)
    BY <2>1, <2>2, SettleAsksNothing, TargetTyped
  <2> QED
    BY <1>22, <1>a, <2>1, <2>2 DEF AnswerFails
<1>23. ASSUME NEW a \in answers, Verdict(a) PROVE NoneComes \/ Brings
  BY <1>23, <1>a DEF Verdict, hostVars, sessionVars
<1>24. ASSUME NEW a \in answers, Reopen(a) PROVE NoneComes \/ Brings
  BY <1>24, <1>a DEF Reopen, hostVars, sessionVars
<1>25. CASE UNCHANGED vars
  BY <1>25, <1>a DEF vars, hostVars
<1> QED
  BY <1>1, <1>2, <1>3, <1>4, <1>5, <1>6, <1>7, <1>8, <1>9, <1>10, <1>11,
     <1>12, <1>13, <1>14, <1>15, <1>16, <1>17, <1>18, <1>19, <1>20, <1>21,
        <1>22, <1>23, <1>24, <1>25 DEF Next

\* A stream carries a request once.
LEMMA StreamOnceStep ==
  TypeOK /\ OnceInv /\ StreamOnce /\ [Next]_vars => StreamOnce'
<1> SUFFICES ASSUME TypeOK /\ OnceInv /\ StreamOnce, [Next]_vars
             PROVE  StreamOnce'
  OBVIOUS
<1> USE DEF TypeOK
<1>a. ASSUME UNCHANGED stream PROVE StreamOnce'
  BY <1>a DEF StreamOnce
<1>1. CASE AttachSession
  BY <1>1, <1>a DEF AttachSession, hostVars, sessionVars
<1>2. CASE DetachSession
  BY <1>2, <1>a DEF DetachSession, hostVars, sessionVars
<1>3. CASE PromptSent
  BY <1>3, <1>a DEF PromptSent, hostVars, sessionVars
<1>4. CASE BargeIn
  BY <1>4, <1>a DEF BargeIn, hostVars, sessionVars
<1>5. ASSUME NEW r \in AgentRuns, Dispatch(r) PROVE StreamOnce'
  BY <1>5, <1>a DEF Dispatch, hostVars, sessionVars
<1>6. ASSUME NEW r \in AgentRuns, WatchRun(r) PROVE StreamOnce'
  BY <1>6, <1>a DEF WatchRun, hostVars, sessionVars
<1>7. ASSUME NEW r \in AgentRuns, StreamDies(r) PROVE StreamOnce'
  BY <1>7 DEF StreamDies, StreamOnce, HostOK
<1>8. ASSUME NEW r \in AgentRuns, HostRunEnds(r) PROVE StreamOnce'
  <2>1. [kind |-> "over", n |-> Lost] \in Events
    BY DEF Events
  <2> QED
    BY <1>8, <2>1, EmitAsksNothing DEF HostRunEnds
<1>9. ASSUME NEW r \in AgentRuns, CheckEvent(r) PROVE StreamOnce'
  <2>1. stream[r] \in Seq(Events) /\ stream[r] # <<>>
    BY <1>9 DEF CheckEvent, HostOK
  <2>2. ASSUME NEW q \in AgentRuns, NEW i \in DOMAIN stream'[q], NEW j \in
     DOMAIN stream'[q],
               stream'[q][i] = stream'[q][j], stream'[q][i].kind = "request"
        PROVE  i = j
    <3>1. CASE q = r
      <4>1. stream'[q] = Tail(stream[r])
        BY <1>9, <3>1 DEF CheckEvent, HostOK
      <4>2. /\ i + 1 \in DOMAIN stream[r] /\ i \in Nat /\ stream'[q][i] =
               stream[r][i + 1]
            /\ j + 1 \in DOMAIN stream[r] /\ j \in Nat /\ stream'[q][j] =
               stream[r][j + 1]
        BY <2>1, <4>1, TailShifts
      <4>3. i + 1 = j + 1
        BY <2>2, <4>2 DEF StreamOnce
      <4> QED
        BY <4>2, <4>3
    <3>2. CASE q # r
      BY <1>9, <2>2, <3>2 DEF CheckEvent, HostOK, StreamOnce
    <3> QED
      BY <3>1, <3>2
  <2> QED
    BY <2>2 DEF StreamOnce
<1>10. ASSUME NEW r \in AgentRuns, CheckPoll(r) PROVE StreamOnce'
  BY <1>10, <1>a DEF CheckPoll, hostVars, sessionVars
<1>11. ASSUME NEW r \in AgentRuns, Responded(r) PROVE StreamOnce'
  BY <1>11, <1>a DEF Responded, hostVars, sessionVars
<1>12. ASSUME NEW r \in AgentRuns, RunOver(r) PROVE StreamOnce'
  BY <1>12, <1>a DEF RunOver, hostVars, sessionVars
<1>13. ASSUME NEW r \in AgentRuns, TimerFires(r) PROVE StreamOnce'
  BY <1>13, <1>a DEF TimerFires, hostVars, sessionVars
<1>14. ASSUME NEW r \in AgentRuns, Expire(r) PROVE StreamOnce'
  BY <1>14, <1>a DEF Expire, hostVars, sessionVars
<1>15. ASSUME NEW r \in AgentRuns, NEW n \in Numbers, HostAsks(r, n)
       PROVE  StreamOnce'
  <2> DEFINE e == Request(n)
  <2>1. e \in Events /\ Emit(r, e) /\ e.kind = "request"
    BY <1>15 DEF HostAsks, Events, Request
  <2>2. host[r][n] = "new"
    BY <1>15 DEF HostAsks
  <2>3. \A i \in DOMAIN stream[r] : stream[r][i] # e
    BY <2>2 DEF OnceInv, InStream
  <2> HIDE DEF e
  <2>4. ASSUME NEW q \in AgentRuns, NEW i \in DOMAIN stream'[q], NEW j \in
     DOMAIN stream'[q],
               stream'[q][i] = stream'[q][j], stream'[q][i].kind = "request"
        PROVE  i = j
    <3>1. \/ i \in DOMAIN stream[q] /\ stream'[q][i] = stream[q][i]
          \/ q = r /\ i = Len(stream[r]) + 1 /\ stream'[q][i] = e
      BY <2>1, EmitGrows
    <3>2. \/ j \in DOMAIN stream[q] /\ stream'[q][j] = stream[q][j]
          \/ q = r /\ j = Len(stream[r]) + 1 /\ stream'[q][j] = e
      BY <2>1, EmitGrows
    <3> QED
      BY <2>3, <2>4, <3>1, <3>2 DEF StreamOnce
  <2> QED
    BY <2>4 DEF StreamOnce
<1>16. ASSUME NEW r \in AgentRuns, NEW n \in Numbers, HostExpires(r, n)
       PROVE  StreamOnce'
  BY <1>16, <1>a DEF HostExpires, hostVars, sessionVars
<1>17. ASSUME NEW r \in AgentRuns, NEW ear \in Ears, Register(r, ear)
       PROVE  StreamOnce'
  BY <1>17, <1>a DEF Register, hostVars, sessionVars
<1>18. ASSUME NEW r \in AgentRuns, NEW ear \in Ears, Announce(r, ear)
       PROVE  StreamOnce'
  BY <1>18, <1>a DEF Announce, hostVars, sessionVars
<1>19. ASSUME NEW r \in AgentRuns, NEW choice \in AnswerChoices, Resolve(r, choice)
       PROVE  StreamOnce'
  BY <1>19, <1>a DEF Resolve, hostVars, sessionVars
<1>20. ASSUME NEW d \in denies, DenyLands(d[1], d[2]) PROVE StreamOnce'
  <2>1. d[1] \in AgentRuns /\ UNCHANGED hearing
    BY <1>20 DEF DenyLands, MailOK
  <2>2. CASE \E n \in Target(d[1], d[2]) : Settle(d[1], n, "deny")
    BY <2>1, <2>2, SettleAsksNothing, TargetTyped DEF AnswerChoices
  <2> QED
    BY <1>20, <1>a, <2>1, <2>2 DEF DenyLands
<1>21. ASSUME NEW a \in answers, AnswerLands(a) PROVE StreamOnce'
  <2>1. a.run \in AgentRuns /\ a.choice \in AnswerChoices /\ UNCHANGED hearing
    BY <1>21 DEF AnswerLands, MailOK, Answers
  <2>2. CASE \E n \in Target(a.run, a.req) : Settle(a.run, n, a.choice)
    BY <2>1, <2>2, SettleAsksNothing, TargetTyped
  <2> QED
    BY <1>21, <1>a, <2>1, <2>2 DEF AnswerLands
<1>22. ASSUME NEW a \in answers, AnswerFails(a) PROVE StreamOnce'
  <2>1. a.run \in AgentRuns /\ a.choice \in AnswerChoices /\ UNCHANGED hearing
    BY <1>22 DEF AnswerFails, MailOK, Answers
  <2>2. CASE \E n \in Target(a.run, a.req) : Settle(a.run, n, a.choice)
    BY <2>1, <2>2, SettleAsksNothing, TargetTyped
  <2> QED
    BY <1>22, <1>a, <2>1, <2>2 DEF AnswerFails
<1>23. ASSUME NEW a \in answers, Verdict(a) PROVE StreamOnce'
  BY <1>23, <1>a DEF Verdict, hostVars, sessionVars
<1>24. ASSUME NEW a \in answers, Reopen(a) PROVE StreamOnce'
  BY <1>24, <1>a DEF Reopen, hostVars, sessionVars
<1>25. CASE UNCHANGED vars
  BY <1>25, <1>a DEF vars, hostVars
<1> QED
  BY <1>1, <1>2, <1>3, <1>4, <1>5, <1>6, <1>7, <1>8, <1>9, <1>10, <1>11,
     <1>12, <1>13, <1>14, <1>15, <1>16, <1>17, <1>18, <1>19, <1>20, <1>21,
        <1>22, <1>23, <1>24, <1>25 DEF Next

\* A request is new when the host asks it.
LEMMA OnceAfterAsking ==
  ASSUME TypeOK, OnceInv, NEW r \in AgentRuns, NEW m \in Numbers, HostAsks(r, m)
  PROVE  OnceInv'
<1> USE DEF TypeOK
<1> DEFINE e == Request(m)
<1>1. e \in Events /\ Emit(r, e)
  BY DEF HostAsks, Events, Request
<1>2. UNCHANGED <<hearing, pending, answers>>
  BY DEF HostAsks
<1>3. \A q \in AgentRuns, n \in Numbers :
        /\ Unregistered(q, n)' <=> Unregistered(q, n)
        /\ InEar(q, "stream", n)' <=> InEar(q, "stream", n)
  BY <1>2 DEF Unregistered, InEar
<1>4. host[r][m] = "new" /\ host'[r][m] # "new"
  BY DEF HostAsks, HostOK
<1>5. \A q \in AgentRuns, n \in Numbers : InStream(q, n)' => InStream(q, n) \/ (q = r /\ n = m)
  <2> SUFFICES ASSUME NEW q \in AgentRuns, NEW n \in Numbers, InStream(q, n)'
               PROVE  InStream(q, n) \/ (q = r /\ n = m)
    OBVIOUS
  <2>1. PICK i \in DOMAIN stream'[q] : stream'[q][i] = Request(n)
    BY DEF InStream
  <2>2. \/ i \in DOMAIN stream[q] /\ stream'[q][i] = stream[q][i]
        \/ q = r /\ stream'[q][i] = e
    BY <1>1, EmitGrows
  <2>3. Request(n) = Request(m) => n = m
    BY DEF Request
  <2> QED
    BY <2>1, <2>2, <2>3 DEF InStream
<1>6. \A q \in AgentRuns, n \in Numbers : host'[q][n] = "new" => host[q][n] = "new" /\ ~(q = r /\ n = m)
  BY DEF HostAsks, HostOK
<1> QED
  BY <1>3, <1>4, <1>5, <1>6 DEF OnceInv

\* Reading an event moves its request from the stream to the ear.
LEMMA OnceAfterReading ==
  ASSUME TypeOK, OnceInv, StreamOnce, NEW r \in AgentRuns, CheckEvent(r)
  PROVE  OnceInv'
<1> USE DEF TypeOK
<1>1. UNCHANGED <<host, pending, answers>> /\ stream[r] \in Seq(Events) /\ stream[r] # <<>>
  BY DEF CheckEvent, HostOK
<1>2. \A q \in AgentRuns, n \in Numbers : Unregistered(q, n)' <=> Unregistered(q, n)
  BY <1>1 DEF Unregistered
<1>3. \A q \in AgentRuns \ {r} : stream'[q] = stream[q] /\ hearing'[q] = hearing[q]
  BY DEF CheckEvent, HostOK, RecordsOK
<1>4. stream'[r] = Tail(stream[r]) /\ hearing[r]["stream"] = None
  BY DEF CheckEvent, HostOK
<1>5. \/ hearing'[r]["stream"] = None
      \/ hearing'[r]["stream"].event = Head(stream[r])
  BY <1>4 DEF CheckEvent, RecordsOK, Ears
<1>6. Head(stream[r]) = stream[r][1] /\ 1 \in DOMAIN stream[r]
  BY <1>1
<1>7. \A n \in Numbers : InStream(r, n)' => InStream(r, n) /\ stream[r][1] # Request(n)
  <2> SUFFICES ASSUME NEW n \in Numbers, InStream(r, n)'
               PROVE  InStream(r, n) /\ stream[r][1] # Request(n)
    OBVIOUS
  <2>1. PICK i \in DOMAIN Tail(stream[r]) : Tail(stream[r])[i] = Request(n)
    BY <1>4 DEF InStream
  <2>2. i + 1 \in DOMAIN stream[r] /\ i \in Nat \ {0} /\ stream[r][i + 1] = Request(n)
    BY <1>1, <2>1, TailShifts
  <2>3. stream[r][1] # Request(n)
    BY <1>6, <2>2 DEF StreamOnce, Request
  <2> QED
    BY <2>2, <2>3 DEF InStream
<1>8. \A n \in Numbers : InEar(r, "stream", n)' => stream[r][1] = Request(n) /\ InStream(r, n)
  BY <1>5, <1>6 DEF InEar, InStream
<1>9. \A q \in AgentRuns \ {r}, n \in Numbers :
        (InStream(q, n)' <=> InStream(q, n)) /\ (InEar(q, "stream", n)' <=> InEar(q, "stream", n))
  BY <1>3 DEF InStream, InEar
<1> SUFFICES ASSUME NEW q \in AgentRuns, NEW n \in Numbers
             PROVE  /\ InEar(q, "stream", n)' => ~InStream(q, n)'
                    /\ host'[q][n] = "new" =>
                         ~InStream(q, n)' /\ ~InEar(q, "stream", n)' /\ Unregistered(q, n)'
                    /\ InStream(q, n)' \/ InEar(q, "stream", n)' => Unregistered(q, n)'
  BY DEF OnceInv
<1>10. CASE q = r
  BY <1>1, <1>2, <1>7, <1>8, <1>10 DEF OnceInv
<1>11. CASE q # r
  BY <1>1, <1>2, <1>9, <1>11 DEF OnceInv
<1> QED
  BY <1>10, <1>11

\* register() leaves the other runs' records and takes the event from the ear.
LEMMA RegisterLeaves ==
  ASSUME TypeOK, NEW r \in AgentRuns, NEW ear \in Ears, Register(r, ear)
  PROVE  /\ \A q \in AgentRuns :
              \/ pending'[q] \in {None, pending[q]}
              \/ q = r /\ pending'[q].req = hearing[r][ear].event.n
         /\ NoneComes /\ hearing'[r][ear].at = "registered" /\ answers' = answers
<1> USE DEF TypeOK
<1>1. UNCHANGED <<host, stream, answers>>
  BY DEF Register, hostVars
<1>2. hearing[r][ear] \in Hearings
  BY DEF Register, Checked, RecordsOK
<1>3. [hearing[r][ear] EXCEPT !.at = "registered"].at = "registered"
  BY <1>2 DEF Hearings
<1>4. hearing' = [hearing EXCEPT ![r] = [@ EXCEPT ![ear] = [hearing[r][ear] EXCEPT !.at = "registered"]]]
  BY DEF Register
<1>5. \A q \in AgentRuns, e \in Ears :
        hearing'[q][e] = hearing[q][e] \/ hearing'[q][e].at = "registered"
  BY <1>3, <1>4 DEF RecordsOK
<1>6. hearing'[r][ear].at = "registered"
  BY <1>3, <1>4 DEF RecordsOK
<1>7. NoneComes
  BY <1>1, <1>5 DEF NoneComes, InStream, InEar, Ears
<1>8. NewPending(hearing[r][ear].event.n).req = hearing[r][ear].event.n
  BY DEF NewPending
<1>9. \A q \in AgentRuns :
        \/ pending'[q] \in {None, pending[q]}
        \/ q = r /\ pending'[q] = NewPending(hearing[r][ear].event.n)
  BY DEF Register, RecordsOK
<1> QED
  BY <1>1, <1>6, <1>7, <1>8, <1>9

\* What a registration leaves of the other requests.
LEMMA RegisterTakes ==
  ASSUME TypeOK, EarsInv, NEW r \in AgentRuns, NEW ear \in Ears, Register(r, ear)
  PROVE  \E m \in Numbers \union {Lost} :
           /\ InEar(r, ear, m)
           /\ ear = "poll" <=> m = Lost
           /\ \A q \in AgentRuns : pending'[q] \in {None, pending[q]} \/ (q = r /\ pending'[q].req = m)
           /\ NoneComes /\ ~InEar(r, ear, m)' /\ answers' = answers
<1> USE DEF TypeOK
<1> DEFINE m == hearing[r][ear].event.n
<1>1. hearing[r][ear] \in Hearings /\ hearing[r][ear] # None /\ hearing[r][ear].at = "checked"
      /\ hearing[r][ear].event.kind = "request"
  BY DEF Register, Checked, RecordsOK
<1>2. CASE ear = "poll"
  <2>1. hearing[r][ear].event = Request(Lost)
    BY <1>1, <1>2 DEF EarsInv
  <2> QED
    BY <2>1, <1>2, <1>1, RegisterLeaves DEF InEar, Request
<1>3. CASE ear = "stream"
  <2>1. hearing[r][ear].event \in Events
    BY <1>1, <1>3 DEF EarsInv
  <2>2. m \in Numbers /\ hearing[r][ear].event = Request(m)
    BY <1>1, <2>1 DEF Events, Request
  <2>3. m # Lost
    BY <2>2, ApprovalsAssumption DEF Numbers, Lost
  <2> QED
    BY <1>1, <1>3, <2>2, <2>3, RegisterLeaves DEF InEar
<1> QED
  BY <1>2, <1>3 DEF Ears

\* Registering moves a request from the ear to the record.
LEMMA OnceAfterRegistering ==
  ASSUME TypeOK, EarsInv, OnceInv, NEW r \in AgentRuns, NEW ear \in Ears, Register(r, ear)
  PROVE  OnceInv'
<1>1. PICK m \in Numbers \union {Lost} :
           /\ InEar(r, ear, m)
           /\ ear = "poll" <=> m = Lost
           /\ \A q \in AgentRuns : pending'[q] \in {None, pending[q]} \/ (q = r /\ pending'[q].req = m)
           /\ NoneComes /\ ~InEar(r, ear, m)' /\ answers' = answers
  BY RegisterTakes
<1>2. \A q \in AgentRuns, n \in Numbers : Unregistered(q, n) /\ ~(q = r /\ n = m) => Unregistered(q, n)'
  BY <1>1 DEF Unregistered
<1>3. m \in Numbers => ear = "stream"
  BY <1>1, ApprovalsAssumption DEF Numbers, Lost, Ears
<1>4. m \in Numbers => ~InStream(r, m) /\ ~InEar(r, "stream", m)' /\ host[r][m] # "new"
  BY <1>1, <1>3 DEF OnceInv
<1> SUFFICES ASSUME NEW q \in AgentRuns, NEW n \in Numbers
             PROVE  /\ InEar(q, "stream", n)' => ~InStream(q, n)'
                    /\ host'[q][n] = "new" =>
                         ~InStream(q, n)' /\ ~InEar(q, "stream", n)' /\ Unregistered(q, n)'
                    /\ InStream(q, n)' \/ InEar(q, "stream", n)' => Unregistered(q, n)'
  BY DEF OnceInv
<1>5. /\ InStream(q, n)' => InStream(q, n)
      /\ host'[q][n] = "new" => host[q][n] = "new"
      /\ InEar(q, "stream", n)' => InEar(q, "stream", n)
  BY <1>1 DEF NoneComes
<1> QED
  BY <1>2, <1>4, <1>5 DEF OnceInv

\* A poll finds no request by name.
LEMMA OnceAfterPolling ==
  ASSUME TypeOK, OnceInv, NEW r \in AgentRuns, CheckPoll(r)
  PROVE  OnceInv'
<1>1. UNCHANGED <<host, stream, pending, answers>>
  BY DEF CheckPoll, hostVars
<1>2. \A q \in AgentRuns : hearing'[q]["stream"] = hearing[q]["stream"]
  BY DEF CheckPoll, TypeOK, RecordsOK, Ears
<1> QED
  BY <1>1, <1>2 DEF OnceInv, InStream, InEar, Unregistered

\* A request that waits to be registered has no record and no answer yet.
LEMMA OnceStep ==
  TypeOK /\ EarsInv /\ StreamOnce /\ OnceInv /\ [Next]_vars => OnceInv'
<1> SUFFICES ASSUME TypeOK, EarsInv, StreamOnce, OnceInv, [Next]_vars PROVE OnceInv'
  OBVIOUS
<1>1. CASE NothingNew /\ NoneComes
  BY <1>1, StaysOnce
<1>2. CASE Registers
  BY <1>2, OnceAfterRegistering DEF Registers
<1>3. CASE Brings
  BY <1>3, OnceAfterAsking, OnceAfterReading, OnceAfterPolling DEF Brings
<1> QED
  BY <1>1, <1>2, <1>3, OnlyRegistersNew, FewBring

\* Once the poll cannot report a run, it never can.
LEMMA LessLost ==
  TypeOK /\ EarsInv /\ BornInv /\ [Next]_vars => \A q \in AgentRuns : MayBeLost(q)' =>
    MayBeLost(q)
<1> SUFFICES ASSUME TypeOK /\ EarsInv /\ BornInv, [Next]_vars
             PROVE  \A q \in AgentRuns : MayBeLost(q)' => MayBeLost(q)
  OBVIOUS
<1> USE DEF TypeOK
<1> DEFINE Less == \A q \in AgentRuns : MayBeLost(q)' => MayBeLost(q)
<1>a. ASSUME UNCHANGED <<gen, born, stamp>>, asked \subseteq asked', over \subseteq
             over'
      PROVE  Less
  BY <1>a DEF MayBeLost
<1>1. CASE AttachSession
  <2>1. gen' = gen + 1 /\ gen \in Nat /\ UNCHANGED <<born, stamp>>
    BY <1>1, ApprovalsAssumption DEF AttachSession, SessionOK
  <2>2. \A q \in AgentRuns : born[q] \in Nat /\ born[q] <= gen
    BY ApprovalsAssumption DEF SessionOK, BornInv
  <2>3. \A q \in AgentRuns : born'[q] # gen'
    BY <2>1, <2>2
  <2> QED
    BY <2>1, <2>3 DEF MayBeLost
<1>2. CASE DetachSession
  <2>1. gen' = gen + 1 /\ gen \in Nat /\ UNCHANGED <<born, stamp>>
    BY <1>2, ApprovalsAssumption DEF DetachSession, SessionOK
  <2>2. \A q \in AgentRuns : born[q] \in Nat /\ born[q] <= gen
    BY ApprovalsAssumption DEF SessionOK, BornInv
  <2>3. \A q \in AgentRuns : born'[q] # gen'
    BY <2>1, <2>2
  <2> QED
    BY <2>1, <2>3 DEF MayBeLost
<1>3. CASE PromptSent
  BY <1>3, <1>a DEF PromptSent, hostVars, sessionVars
<1>4. CASE BargeIn
  BY <1>4, <1>a DEF BargeIn, hostVars, sessionVars
<1>5. ASSUME NEW r \in AgentRuns, Dispatch(r)
      PROVE  \A q \in AgentRuns : MayBeLost(q)' => MayBeLost(q)
  <2>1. UNCHANGED <<gen, stamp, asked, over>> /\ stamp[r] = 0
    BY <1>5 DEF Dispatch, hostVars, BornInv
  <2>2. \A q \in AgentRuns \ {r} : born'[q] = born[q]
    BY <1>5 DEF Dispatch, SessionOK
  <2> QED
    BY <2>1, <2>2 DEF MayBeLost
<1>6. ASSUME NEW r \in AgentRuns, WatchRun(r)
      PROVE  \A q \in AgentRuns : MayBeLost(q)' => MayBeLost(q)
  <2>1. UNCHANGED <<gen, born, asked, over>> /\ stamp[r] = 0
    BY <1>6 DEF WatchRun, hostVars
  <2>2. \A q \in AgentRuns \ {r} : stamp'[q] = stamp[q]
    BY <1>6 DEF WatchRun, SessionOK
  <2> QED
    BY <2>1, <2>2 DEF MayBeLost
<1>7. ASSUME NEW r \in AgentRuns, StreamDies(r)
      PROVE  \A q \in AgentRuns : MayBeLost(q)' => MayBeLost(q)
  BY <1>7, <1>a DEF StreamDies, hostVars, sessionVars
<1>8. ASSUME NEW r \in AgentRuns, HostRunEnds(r)
      PROVE  \A q \in AgentRuns : MayBeLost(q)' => MayBeLost(q)
  BY <1>8, <1>a DEF HostRunEnds, hostVars, sessionVars
<1>9. ASSUME NEW r \in AgentRuns, CheckEvent(r)
      PROVE  \A q \in AgentRuns : MayBeLost(q)' => MayBeLost(q)
  BY <1>9, <1>a DEF CheckEvent, hostVars, sessionVars
<1>10. ASSUME NEW r \in AgentRuns, CheckPoll(r)
       PROVE  \A q \in AgentRuns : MayBeLost(q)' => MayBeLost(q)
  BY <1>10, <1>a DEF CheckPoll, hostVars, sessionVars
<1>11. ASSUME NEW r \in AgentRuns, Responded(r)
       PROVE  \A q \in AgentRuns : MayBeLost(q)' => MayBeLost(q)
  BY <1>11, <1>a DEF Responded, hostVars, sessionVars
<1>12. ASSUME NEW r \in AgentRuns, RunOver(r)
       PROVE  \A q \in AgentRuns : MayBeLost(q)' => MayBeLost(q)
  <2>1. UNCHANGED <<gen, born, stamp, over>> /\ asked' = asked \ {r}
    BY <1>12 DEF RunOver, hostVars, sessionVars
  <2>2. r \in over
    BY <1>12 DEF RunOver, Checked, EarsInv
  <2> QED
    BY <2>1, <2>2 DEF MayBeLost
<1>13. ASSUME NEW r \in AgentRuns, TimerFires(r)
       PROVE  \A q \in AgentRuns : MayBeLost(q)' => MayBeLost(q)
  BY <1>13, <1>a DEF TimerFires, hostVars, sessionVars
<1>14. ASSUME NEW r \in AgentRuns, Expire(r)
       PROVE  \A q \in AgentRuns : MayBeLost(q)' => MayBeLost(q)
  BY <1>14, <1>a DEF Expire, hostVars, sessionVars
<1>15. ASSUME NEW r \in AgentRuns, NEW n \in Numbers, HostAsks(r, n)
       PROVE  \A q \in AgentRuns : MayBeLost(q)' => MayBeLost(q)
  BY <1>15, <1>a DEF HostAsks, hostVars, sessionVars
<1>16. ASSUME NEW r \in AgentRuns, NEW n \in Numbers, HostExpires(r, n)
       PROVE  \A q \in AgentRuns : MayBeLost(q)' => MayBeLost(q)
  BY <1>16, <1>a DEF HostExpires, hostVars, sessionVars
<1>17. ASSUME NEW r \in AgentRuns, NEW ear \in Ears, Register(r, ear)
       PROVE  \A q \in AgentRuns : MayBeLost(q)' => MayBeLost(q)
  BY <1>17, <1>a DEF Register, hostVars, sessionVars
<1>18. ASSUME NEW r \in AgentRuns, NEW ear \in Ears, Announce(r, ear)
       PROVE  \A q \in AgentRuns : MayBeLost(q)' => MayBeLost(q)
  BY <1>18, <1>a DEF Announce, hostVars, sessionVars
<1>19. ASSUME NEW r \in AgentRuns, NEW choice \in AnswerChoices, Resolve(r, choice)
       PROVE  \A q \in AgentRuns : MayBeLost(q)' => MayBeLost(q)
  BY <1>19, <1>a DEF Resolve, hostVars, sessionVars
<1>20. ASSUME NEW d \in denies, DenyLands(d[1], d[2])
       PROVE  \A q \in AgentRuns : MayBeLost(q)' => MayBeLost(q)
  BY <1>20, <1>a DEF DenyLands, hostVars, sessionVars
<1>21. ASSUME NEW a \in answers, AnswerLands(a)
       PROVE  \A q \in AgentRuns : MayBeLost(q)' => MayBeLost(q)
  BY <1>21, <1>a DEF AnswerLands, hostVars, sessionVars
<1>22. ASSUME NEW a \in answers, AnswerFails(a)
       PROVE  \A q \in AgentRuns : MayBeLost(q)' => MayBeLost(q)
  BY <1>22, <1>a DEF AnswerFails, hostVars, sessionVars
<1>23. ASSUME NEW a \in answers, Verdict(a)
       PROVE  \A q \in AgentRuns : MayBeLost(q)' => MayBeLost(q)
  BY <1>23, <1>a DEF Verdict, hostVars, sessionVars
<1>24. ASSUME NEW a \in answers, Reopen(a)
       PROVE  \A q \in AgentRuns : MayBeLost(q)' => MayBeLost(q)
  BY <1>24, <1>a DEF Reopen, hostVars, sessionVars
<1>25. CASE UNCHANGED vars
  BY <1>25, <1>a DEF vars, hostVars, sessionVars
<1> QED
  BY <1>1, <1>2, <1>3, <1>4, <1>5, <1>6, <1>7, <1>8, <1>9, <1>10, <1>11,
     <1>12, <1>13, <1>14, <1>15, <1>16, <1>17, <1>18, <1>19, <1>20, <1>21,
        <1>22, <1>23, <1>24, <1>25 DEF Next

\* What a poll may report has no record and is at no ear.
LEMMA LostStep ==
  TypeOK /\ EarsInv /\ BornInv /\ LostInv /\ [Next]_vars => LostInv'
<1> SUFFICES ASSUME TypeOK, EarsInv, BornInv, LostInv, [Next]_vars PROVE LostInv'
  OBVIOUS
<1> USE DEF TypeOK
<1>1. \A q \in AgentRuns : MayBeLost(q)' => MayBeLost(q)
  BY LessLost
<1>2. ASSUME NothingNew, \A q \in AgentRuns : InEar(q, "poll", Lost)' => InEar(q, "poll", Lost)
      PROVE  LostInv'
  BY <1>1, <1>2, StaysUnregistered DEF LostInv
<1>3. CASE NothingNew /\ NoneComes
  BY <1>2, <1>3 DEF NoneComes
<1>4. ASSUME NEW r \in AgentRuns, CheckPoll(r) PROVE LostInv'
  <2>1. UNCHANGED <<pending, answers, stamp>> /\ r \in asked' /\ stamp[r] # 0 /\ MayBeLost(r)
    BY <1>4 DEF CheckPoll, sessionVars, MayBeLost
  <2>2. \A q \in AgentRuns \ {r} : hearing'[q] = hearing[q]
    BY <1>4 DEF CheckPoll, RecordsOK
  <2>3. ~MayBeLost(r)'
    BY <2>1 DEF MayBeLost
  <2>4. \A q \in AgentRuns : Unregistered(q, Lost) => Unregistered(q, Lost)'
    BY <2>1 DEF Unregistered
  <2>5. \A q \in AgentRuns \ {r} : InEar(q, "poll", Lost)' => InEar(q, "poll", Lost)
    BY <2>2 DEF InEar
  <2> QED
    BY <1>1, <2>1, <2>3, <2>4, <2>5 DEF LostInv
<1>5. ASSUME NEW r \in AgentRuns, CheckEvent(r) PROVE LostInv'
  <2>1. UNCHANGED <<pending, answers>>
    BY <1>5 DEF CheckEvent
  <2>2. \A q \in AgentRuns : hearing'[q]["poll"] = hearing[q]["poll"]
    BY <1>5 DEF CheckEvent, RecordsOK, Ears
  <2> QED
    BY <1>2, <2>1, <2>2 DEF NothingNew, InEar
<1>6. ASSUME NEW r \in AgentRuns, NEW n \in Numbers, HostAsks(r, n) PROVE LostInv'
  BY <1>2, <1>6 DEF HostAsks, NothingNew, InEar
<1>7. ASSUME NEW r \in AgentRuns, NEW ear \in Ears, Register(r, ear) PROVE LostInv'
  <2>1. PICK m \in Numbers \union {Lost} :
           /\ InEar(r, ear, m)
           /\ ear = "poll" <=> m = Lost
           /\ \A q \in AgentRuns : pending'[q] \in {None, pending[q]} \/ (q = r /\ pending'[q].req = m)
           /\ NoneComes /\ ~InEar(r, ear, m)' /\ answers' = answers
    BY <1>7, RegisterTakes
  <2>2. \A q \in AgentRuns : Unregistered(q, Lost) /\ ~(q = r /\ m = Lost) => Unregistered(q, Lost)'
    BY <2>1 DEF Unregistered
  <2>3. \A q \in AgentRuns : InEar(q, "poll", Lost)' => InEar(q, "poll", Lost)
    BY <2>1 DEF NoneComes
  <2>4. m = Lost => ~InEar(r, "poll", Lost)' /\ ~MayBeLost(r)
    BY <2>1 DEF LostInv
  <2> QED
    BY <1>1, <2>2, <2>3, <2>4 DEF LostInv
<1> QED
  BY <1>3, <1>4, <1>5, <1>6, <1>7, OnlyRegistersNew, FewBring DEF Registers, Brings

\* A record whose answer is on its way stays claimed, and no second answer is
\* sent.
LEMMA ClaimedStep ==
  TypeOK /\ EarsInv /\ OnceInv /\ LostInv /\ ClaimedInv /\ OneAnswerInFlight /\
    [Next]_vars => ClaimedInv' /\ OneAnswerInFlight'
<1> SUFFICES ASSUME TypeOK /\ EarsInv /\ OnceInv /\ LostInv /\ ClaimedInv /\
                    OneAnswerInFlight, [Next]_vars
             PROVE  ClaimedInv' /\ OneAnswerInFlight'
  OBVIOUS
<1> USE DEF TypeOK
<1> DEFINE Claims == ClaimedInv' /\ OneAnswerInFlight'
<1>a. ASSUME UNCHANGED <<pending, answers>> PROVE Claims
  BY <1>a DEF ClaimedInv, OneAnswerInFlight
<1>r. \A b \in answers : b.run \in AgentRuns
  BY DEF MailOK, Answers
<1>b. ASSUME answers' \subseteq answers,
             \A q \in AgentRuns :
               pending'[q] # None =>
                 /\ pending[q] # None /\ pending'[q].req = pending[q].req
                 /\ (pending[q].resolving => pending'[q].resolving)
      PROVE  Claims
  BY <1>b, <1>r DEF ClaimedInv, OneAnswerInFlight
<1>1. CASE AttachSession
  BY <1>1, <1>a DEF AttachSession, hostVars, sessionVars
<1>2. CASE DetachSession
  BY <1>2, <1>b DEF DetachSession
<1>3. CASE PromptSent
  <2>r. PICK r \in AgentRuns : r = Head(prompts)[1]
    BY <1>3 DEF PromptSent, MailOK
  <2>1. answers' = answers /\ \A q \in AgentRuns \ {r} : pending'[q] =
     pending[q]
    BY <1>3, <2>r DEF PromptSent, RecordsOK
  <2>2. pending'[r] # None => pending[r] # None /\ pending'[r].req =
     pending[r].req
          /\ (pending[r].resolving => pending'[r].resolving)
    BY <1>3, <2>r DEF PromptSent, RecordsOK, Pendings
  <2> QED
    BY <1>b, <2>1, <2>2
<1>4. CASE BargeIn
  BY <1>4, <1>b DEF BargeIn
<1>5. ASSUME NEW r \in AgentRuns, Dispatch(r)
      PROVE  ClaimedInv' /\ OneAnswerInFlight'
  BY <1>5, <1>a DEF Dispatch, hostVars, sessionVars
<1>6. ASSUME NEW r \in AgentRuns, WatchRun(r)
      PROVE  ClaimedInv' /\ OneAnswerInFlight'
  BY <1>6, <1>a DEF WatchRun, hostVars, sessionVars
<1>7. ASSUME NEW r \in AgentRuns, StreamDies(r)
      PROVE  ClaimedInv' /\ OneAnswerInFlight'
  BY <1>7, <1>a DEF StreamDies, hostVars, sessionVars
<1>8. ASSUME NEW r \in AgentRuns, HostRunEnds(r)
      PROVE  ClaimedInv' /\ OneAnswerInFlight'
  BY <1>8, <1>a DEF HostRunEnds, hostVars, sessionVars
<1>9. ASSUME NEW r \in AgentRuns, CheckEvent(r)
      PROVE  ClaimedInv' /\ OneAnswerInFlight'
  BY <1>9, <1>a DEF CheckEvent, hostVars, sessionVars
<1>10. ASSUME NEW r \in AgentRuns, CheckPoll(r)
       PROVE  ClaimedInv' /\ OneAnswerInFlight'
  BY <1>10, <1>a DEF CheckPoll, hostVars, sessionVars
<1>11. ASSUME NEW r \in AgentRuns, Responded(r)
       PROVE  ClaimedInv' /\ OneAnswerInFlight'
  BY <1>11, <1>b DEF Responded, Clear, RecordsOK
<1>12. ASSUME NEW r \in AgentRuns, RunOver(r)
       PROVE  ClaimedInv' /\ OneAnswerInFlight'
  BY <1>12, <1>b DEF RunOver, Clear, RecordsOK
<1>13. ASSUME NEW r \in AgentRuns, TimerFires(r)
       PROVE  ClaimedInv' /\ OneAnswerInFlight'
  <2>1. answers' = answers /\ \A q \in AgentRuns \ {r} : pending'[q] =
     pending[q]
    BY <1>13 DEF TimerFires, Clear, RecordsOK
  <2>2. pending'[r] # None => pending[r] # None /\ pending'[r].req =
     pending[r].req
          /\ (pending[r].resolving => pending'[r].resolving)
    BY <1>13 DEF TimerFires, Clear, RecordsOK, Pendings
  <2> QED
    BY <1>b, <2>1, <2>2
<1>14. ASSUME NEW r \in AgentRuns, Expire(r)
       PROVE  ClaimedInv' /\ OneAnswerInFlight'
  <2>1. answers' = answers /\ \A q \in AgentRuns \ {r} : pending'[q] =
     pending[q]
    BY <1>14 DEF Expire, Clear, RecordsOK
  <2>2. pending'[r] # None => pending[r] # None /\ pending'[r].req =
     pending[r].req
          /\ (pending[r].resolving => pending'[r].resolving)
    BY <1>14 DEF Expire, Clear, RecordsOK, Pendings
  <2> QED
    BY <1>b, <2>1, <2>2
<1>15. ASSUME NEW r \in AgentRuns, NEW n \in Numbers, HostAsks(r, n)
       PROVE  ClaimedInv' /\ OneAnswerInFlight'
  BY <1>15, <1>a DEF HostAsks, hostVars, sessionVars
<1>16. ASSUME NEW r \in AgentRuns, NEW n \in Numbers, HostExpires(r, n)
       PROVE  ClaimedInv' /\ OneAnswerInFlight'
  BY <1>16, <1>a DEF HostExpires, hostVars, sessionVars
<1>17. ASSUME NEW r \in AgentRuns, NEW ear \in Ears, Register(r, ear)
       PROVE  ClaimedInv' /\ OneAnswerInFlight'
  <2>1. PICK m \in Numbers \union {Lost} :
           /\ InEar(r, ear, m)
           /\ ear = "poll" <=> m = Lost
           /\ \A q \in AgentRuns : pending'[q] \in {None, pending[q]} \/ (q =
              r /\ pending'[q].req = m)
           /\ answers' = answers
    BY <1>17, RegisterTakes
  <2>2. Unregistered(r, m)
    BY <2>1, ApprovalsAssumption DEF OnceInv, LostInv, Ears, Numbers, Lost
  <2> QED
    BY <2>1, <2>2, <1>r DEF Unregistered, ClaimedInv, OneAnswerInFlight
<1>18. ASSUME NEW r \in AgentRuns, NEW ear \in Ears, Announce(r, ear)
       PROVE  ClaimedInv' /\ OneAnswerInFlight'
  BY <1>18, <1>a DEF Announce, hostVars, sessionVars
<1>19. ASSUME NEW r \in AgentRuns, NEW choice \in AnswerChoices, Resolve(r, choice)
       PROVE  ClaimedInv' /\ OneAnswerInFlight'
  <2>1. pending[r] # None /\ pending[r] \in Pendings /\ ~pending[r].resolving
    BY <1>19 DEF Resolve, RecordsOK
  <2>2. /\ pending'[r].req = pending[r].req /\ pending'[r].resolving
        /\ \A q \in AgentRuns \ {r} : pending'[q] = pending[q]
    BY <1>19, <2>1 DEF Resolve, RecordsOK, Pendings
  <2>c. PICK c : c = [run |-> r, req |-> pending[r].req, choice |-> choice, at
     |-> "sent"]
    OBVIOUS
  <2>3. c.run = r /\ c.req = pending[r].req /\ answers' = answers \union {c}
    BY <1>19, <2>c DEF Resolve
  <2>4. \A b \in answers : ~(b.run = r /\ b.req = pending[r].req)
    BY <2>1 DEF ClaimedInv
  <2>5. OneAnswerInFlight'
    BY <2>3, <2>4 DEF OneAnswerInFlight
  <2>6. ClaimedInv'
    BY <2>2, <2>3, <1>r DEF ClaimedInv
  <2> QED
    BY <2>5, <2>6
<1>20. ASSUME NEW d \in denies, DenyLands(d[1], d[2])
       PROVE  ClaimedInv' /\ OneAnswerInFlight'
  BY <1>20, <1>a DEF DenyLands, hostVars, sessionVars
<1>21. ASSUME NEW a \in answers, AnswerLands(a)
       PROVE  ClaimedInv' /\ OneAnswerInFlight'
  <2>1. a \in Answers /\ pending' = pending
    BY <1>21 DEF AnswerLands, MailOK
  <2>2. PICK at \in {"ok", "gone", "err"} : Moved(a, at)
    BY <1>21 DEF AnswerLands
  <2>c. PICK c : c = [a EXCEPT !.at = at]
    OBVIOUS
  <2>3. c.run = a.run /\ c.req = a.req /\ answers' = (answers \ {a}) \union
     {c}
    BY <2>1, <2>2, <2>c DEF Answers, Moved
  <2> QED
    BY <2>1, <2>3 DEF ClaimedInv, OneAnswerInFlight
<1>22. ASSUME NEW a \in answers, AnswerFails(a)
       PROVE  ClaimedInv' /\ OneAnswerInFlight'
  <2>1. a \in Answers /\ pending' = pending
    BY <1>22 DEF AnswerFails, MailOK
  <2>2. PICK at \in {"ok", "gone", "err"} : Moved(a, at)
    BY <1>22 DEF AnswerFails
  <2>c. PICK c : c = [a EXCEPT !.at = at]
    OBVIOUS
  <2>3. c.run = a.run /\ c.req = a.req /\ answers' = (answers \ {a}) \union
     {c}
    BY <2>1, <2>2, <2>c DEF Answers, Moved
  <2> QED
    BY <2>1, <2>3 DEF ClaimedInv, OneAnswerInFlight
<1>23. ASSUME NEW a \in answers, Verdict(a)
       PROVE  ClaimedInv' /\ OneAnswerInFlight'
  BY <1>23, <1>b DEF Verdict, Clear, RecordsOK
<1>24. ASSUME NEW a \in answers, Reopen(a)
       PROVE  ClaimedInv' /\ OneAnswerInFlight'
  <2>1. a.run \in AgentRuns /\ answers' = answers \ {a}
    BY <1>24 DEF Reopen, MailOK, Answers
  <2>2. \A q \in AgentRuns \ {a.run} : pending'[q] = pending[q]
    BY <1>24 DEF Reopen, RecordsOK
  <2>3. OneAnswerInFlight'
    BY <2>1 DEF OneAnswerInFlight
  <2>4. CASE UNCHANGED pending
    BY <2>1, <2>4, <1>b
  <2>5. CASE pending[a.run] # None /\ pending[a.run].req = a.req
    <3>1. pending'[a.run].req = a.req
      BY <1>24, <2>1, <2>5 DEF Reopen, RecordsOK, Pendings
    <3>2. \A b \in answers' : ~(b.run = a.run /\ b.req = a.req)
      BY <2>1 DEF OneAnswerInFlight
    <3> QED
      BY <2>1, <2>2, <2>3, <3>1, <3>2, <1>r DEF ClaimedInv
  <2> QED
    BY <1>24, <2>4, <2>5 DEF Reopen
<1>25. CASE UNCHANGED vars
  BY <1>25, <1>a DEF vars
<1> QED
  BY <1>1, <1>2, <1>3, <1>4, <1>5, <1>6, <1>7, <1>8, <1>9, <1>10, <1>11,
     <1>12, <1>13, <1>14, <1>15, <1>16, <1>17, <1>18, <1>19, <1>20, <1>21,
        <1>22, <1>23, <1>24, <1>25 DEF Next

-----------------------------------------------------------------------------
(* The invariant, and what follows from it.                                *)

\* The invariant holds at the start.
LEMMA ApprovalsInit == Init => ApprovalsInv
<1> SUFFICES ASSUME Init PROVE ApprovalsInv
  OBVIOUS
<1>1. HostOK
  <2>1. stream \in [AgentRuns -> Seq(Events)]
    <3>1. <<>> \in Seq(Events)
      OBVIOUS
    <3> QED
      BY <3>1 DEF Init
  <2>2. host \in [AgentRuns -> [Numbers -> {"new", "open"} \union Settled]] /\ over \subseteq AgentRuns
    BY DEF Init
  <2> QED
    BY <2>1, <2>2 DEF HostOK
<1>2. SessionOK
  <2>1. 0 \in 0 .. MaxGeneration
    BY ApprovalsAssumption
  <2> QED
    BY <2>1 DEF Init, SessionOK
<1>3. RecordsOK
  BY DEF Init, RecordsOK
<1>4. MailOK
  <2>1. 0 \in 0 .. MaxFaults
    BY ApprovalsAssumption
  <2> QED
    BY <2>1 DEF Init, MailOK
<1>5. HeardInv /\ OpenIsTimed /\ SilenceNeedsAPrompt
  BY DEF Init, HeardInv, OpenIsTimed, SilenceNeedsAPrompt
<1>6. EarsInv /\ BornInv /\ StreamOnce
  BY DEF Init, EarsInv, BornInv, StreamOnce, Ears
<1>7. OnceInv /\ LostInv
  BY DEF Init, OnceInv, LostInv, InStream, InEar, Unregistered, Ears
<1>8. ClaimedInv /\ OneAnswerInFlight
  BY DEF Init, ClaimedInv, OneAnswerInFlight
<1> QED
  BY <1>1, <1>2, <1>3, <1>4, <1>5, <1>6, <1>7, <1>8 DEF ApprovalsInv, TypeOK

\* Every step keeps every part of it.
LEMMA ApprovalsStep == ApprovalsInv /\ [Next]_vars => ApprovalsInv'
<1> SUFFICES ASSUME ApprovalsInv, [Next]_vars PROVE ApprovalsInv'
  OBVIOUS
<1> USE DEF ApprovalsInv
<1>1. TypeOK'
  BY HostStep, SessionStep, RecordsStep, MailStep DEF TypeOK
<1>2. HeardInv' /\ OpenIsTimed' /\ SilenceNeedsAPrompt'
  BY HeardStep, TimedStep, SilenceStep
<1>3. EarsInv' /\ BornInv' /\ StreamOnce'
  BY EarsStep, BornStep, StreamOnceStep
<1>4. OnceInv' /\ LostInv'
  BY OnceStep, LostStep
<1>5. ClaimedInv' /\ OneAnswerInFlight'
  BY ClaimedStep
<1> QED
  BY <1>1, <1>2, <1>3, <1>4, <1>5

\* So it holds in every reachable state.
LEMMA ApprovalsAlways == Spec => []ApprovalsInv
BY ApprovalsInit, ApprovalsStep, PTL DEF Spec

\* In every interleaving of the two ears, the timers, the barge-in, the tool
\* thread and the host, however many runs ask however often: records keep
\* their types, a question that was heard keeps a timer until it is answered
\* (_open_window, _expire, _reopen), a request is answered once at a time
\* (resolve), and silence denies no run whose operator heard nothing.
THEOREM ApprovalsAreSafe == Spec => []ApprovalsSafe
<1>1. ApprovalsInv => ApprovalsSafe
  BY DEF ApprovalsInv, ApprovalsSafe
<1> QED
  BY <1>1, ApprovalsAlways, PTL

\* What is denied is a record nobody is answering.
DeniesUnanswered ==
  \A d \in denies' \ denies :
    \E q \in AgentRuns : /\ pending[q] # None /\ ~pending[q].resolving
                         /\ d = <<q, pending[q].req>>

\* A step denies only records that nobody is answering.
LEMMA OnlyUnansweredDenied == TypeOK /\ [Next]_vars => DeniesUnanswered
<1> SUFFICES ASSUME TypeOK, [Next]_vars PROVE DeniesUnanswered
  OBVIOUS
<1> USE DEF TypeOK
<1>a. ASSUME denies' \subseteq denies PROVE DeniesUnanswered
  BY <1>a DEF DeniesUnanswered
<1>1. CASE AttachSession
  BY <1>1, <1>a DEF AttachSession, hostVars, sessionVars
<1>2. CASE DetachSession
  BY <1>2, <1>a DEF DetachSession, hostVars, sessionVars
<1>3. CASE PromptSent
  BY <1>3, <1>a DEF PromptSent, hostVars, sessionVars
<1>4. CASE BargeIn
  BY <1>4 DEF BargeIn, Interrupted, DeniesUnanswered
<1>5. ASSUME NEW r \in AgentRuns, Dispatch(r) PROVE DeniesUnanswered
  BY <1>5, <1>a DEF Dispatch, hostVars, sessionVars
<1>6. ASSUME NEW r \in AgentRuns, WatchRun(r) PROVE DeniesUnanswered
  BY <1>6, <1>a DEF WatchRun, hostVars, sessionVars
<1>7. ASSUME NEW r \in AgentRuns, StreamDies(r) PROVE DeniesUnanswered
  BY <1>7, <1>a DEF StreamDies, hostVars, sessionVars
<1>8. ASSUME NEW r \in AgentRuns, HostRunEnds(r) PROVE DeniesUnanswered
  BY <1>8, <1>a DEF HostRunEnds, hostVars, sessionVars
<1>9. ASSUME NEW r \in AgentRuns, CheckEvent(r) PROVE DeniesUnanswered
  BY <1>9, <1>a DEF CheckEvent, hostVars, sessionVars
<1>10. ASSUME NEW r \in AgentRuns, CheckPoll(r) PROVE DeniesUnanswered
  BY <1>10, <1>a DEF CheckPoll, hostVars, sessionVars
<1>11. ASSUME NEW r \in AgentRuns, Responded(r) PROVE DeniesUnanswered
  BY <1>11, <1>a DEF Responded, hostVars, sessionVars
<1>12. ASSUME NEW r \in AgentRuns, RunOver(r) PROVE DeniesUnanswered
  BY <1>12, <1>a DEF RunOver, hostVars, sessionVars
<1>13. ASSUME NEW r \in AgentRuns, TimerFires(r) PROVE DeniesUnanswered
  BY <1>13, <1>a DEF TimerFires, hostVars, sessionVars
<1>14. ASSUME NEW r \in AgentRuns, Expire(r) PROVE DeniesUnanswered
  BY <1>14 DEF Expire, DeniesUnanswered
<1>15. ASSUME NEW r \in AgentRuns, NEW n \in Numbers, HostAsks(r, n)
       PROVE  DeniesUnanswered
  BY <1>15, <1>a DEF HostAsks, hostVars, sessionVars
<1>16. ASSUME NEW r \in AgentRuns, NEW n \in Numbers, HostExpires(r, n)
       PROVE  DeniesUnanswered
  BY <1>16, <1>a DEF HostExpires, hostVars, sessionVars
<1>17. ASSUME NEW r \in AgentRuns, NEW ear \in Ears, Register(r, ear)
       PROVE  DeniesUnanswered
  BY <1>17 DEF Register, Evictable, DeniesUnanswered
<1>18. ASSUME NEW r \in AgentRuns, NEW ear \in Ears, Announce(r, ear)
       PROVE  DeniesUnanswered
  BY <1>18, <1>a DEF Announce, hostVars, sessionVars
<1>19. ASSUME NEW r \in AgentRuns, NEW choice \in AnswerChoices, Resolve(r, choice)
       PROVE  DeniesUnanswered
  BY <1>19, <1>a DEF Resolve, hostVars, sessionVars
<1>20. ASSUME NEW d \in denies, DenyLands(d[1], d[2]) PROVE DeniesUnanswered
  BY <1>20, <1>a DEF DenyLands, hostVars, sessionVars
<1>21. ASSUME NEW a \in answers, AnswerLands(a) PROVE DeniesUnanswered
  BY <1>21, <1>a DEF AnswerLands, hostVars, sessionVars
<1>22. ASSUME NEW a \in answers, AnswerFails(a) PROVE DeniesUnanswered
  BY <1>22, <1>a DEF AnswerFails, hostVars, sessionVars
<1>23. ASSUME NEW a \in answers, Verdict(a) PROVE DeniesUnanswered
  BY <1>23, <1>a DEF Verdict, hostVars, sessionVars
<1>24. ASSUME NEW a \in answers, Reopen(a) PROVE DeniesUnanswered
  BY <1>24, <1>a DEF Reopen, hostVars, sessionVars
<1>25. CASE UNCHANGED vars
  BY <1>25, <1>a DEF vars
<1> QED
  BY <1>1, <1>2, <1>3, <1>4, <1>5, <1>6, <1>7, <1>8, <1>9, <1>10, <1>11,
     <1>12, <1>13, <1>14, <1>15, <1>16, <1>17, <1>18, <1>19, <1>20, <1>21,
        <1>22, <1>23, <1>24, <1>25 DEF Next

\* No timer, barge-in or eviction denies a request whose answer is on the wire
\* or was accepted (the resolving checks of _expire, deny_open and _register).
THEOREM NothingDeniedOverAnAnswer == Spec => NoDenyOverAnswer
<1>1. ApprovalsInv /\ [Next]_vars =>
        [\A d \in denies' \ denies : \A a \in answers :
           ~(a.run = d[1] /\ a.req = d[2] /\ a.at \in {"sent", "ok", "gone"})]_vars
  BY OnlyUnansweredDenied DEF ApprovalsInv, ClaimedInv, DeniesUnanswered
<1> QED
  BY <1>1, ApprovalsAlways, PTL DEF Spec, NoDenyOverAnswer

====
