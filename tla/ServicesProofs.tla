--------------------------- MODULE ServicesProofs ---------------------------
(***************************************************************************)
(* Proofs about four services of a call: WorkControl (stopping a run, its  *)
(* phase and its receipts), SteerNotes (notes to a child and their         *)
(* receipts), Credentials (what a session opens with) and GeminiSession    *)
(* (one session with that provider).                                       *)
(*                                                                         *)
(* WorkControl, for every number of tool calls that stop the run and of    *)
(* hook threads: a receipt is written once the fact it reports holds, and  *)
(* these facts last: work that ended stays ended, a run that landed stays  *)
(* landed, an answer of the server stays (FactsLast).  The phase is        *)
(* written later than it is decided, so the invariant also follows the     *)
(* decisions that wait to be written (DueIsTrue).                          *)
(*                                                                         *)
(* SteerNotes, for every number of notes, children and receipts and        *)
(* whatever ids the children share: a batch of notes lands together, and,  *)
(* where the host's frame names the draining child and no id changes hands *)
(* under a capture, a receipt says landed only of a note its child took    *)
(* from the queue.  The invariant follows a note from the tool call that   *)
(* sends it to the one place of its child where it may be (PlaceInv), and  *)
(* keeps that a note that waits for its line was taken, still waits in the *)
(* queue, or is of a child that is over and logs no more (ReachInv).       *)
(*                                                                         *)
(* Credentials, for every life of a token: the invariant is what the run   *)
(* checks; the work is in the two lemmas that compare a resolver with the  *)
(* diagnostic that foretells it.                                           *)
(*                                                                         *)
(* GeminiSession, for every number of calls, senders, batches and          *)
(* messages: brackets match, a delegation is asked for once and retired    *)
(* once, one result of it goes out and none of a cancelled call.  What     *)
(* makes it inductive: one sender at a time is past the lock, and its      *)
(* result is the first (SenderInv); a result that went out is recorded or  *)
(* its delegation retired (SentInv); a captured session forgets nothing of *)
(* what was cancelled (AskInv), the other tells what it forgot (CancelInv).*)
(***************************************************************************)
EXTENDS SteerNotes, Credentials, WorkControl, GeminiSession, TLAPS

-----------------------------------------------------------------------------
(* Stops, phases and receipts of a run (WorkControl).                      *)

\* Nothing has been started by a worker that did not get that far.
NotYet == thread \in {"new", "starting"} => work = "none"

\* A thread that is about to write an end has seen one.
DueIsTrue ==
  \A t \in Writers :
    /\ due[t] \in Ends => work \in Ended
    /\ due[t] = "stopped" => work = "cancelled"

WorkInv == WorkTypeOK /\ ReceiptsAreTrue /\ NotYet /\ DueIsTrue

-----------------------------------------------------------------------------
(* Types.                                                                  *)

\* What the actions make of the entry of the run is an entry.
LEMMA RunTyped ==
  ASSUME NEW e \in Runs
  PROVE  /\ \A s \in Landings : [e EXCEPT !.status = s] \in Runs
         /\ \A w \in {"pending", "accepted", "failed", "no answer", "exited", "finished",
                      "unconfirmed"} : [e EXCEPT !.receipt = w] \in Runs
         /\ \A p \in {""} \union Phases : [e EXCEPT !.phase = p] \in Runs
         /\ [e EXCEPT !.lane = "api"] \in Runs
         /\ [e EXCEPT !.address = TRUE] \in Runs
         /\ [e EXCEPT !.bound = TRUE] \in Runs
BY DEF Runs

\* And what they leave of it.
LEMMA RunKept ==
  ASSUME NEW e \in Runs
  PROVE  /\ \A s : LET f == [e EXCEPT !.status = s] IN
              f.status = s /\ f.receipt = e.receipt /\ f.phase = e.phase
         /\ \A w : LET f == [e EXCEPT !.receipt = w] IN
              f.status = e.status /\ f.receipt = w /\ f.phase = e.phase
         /\ \A p : LET f == [e EXCEPT !.phase = p] IN
              f.status = e.status /\ f.receipt = e.receipt /\ f.phase = p
         /\ LET f == [e EXCEPT !.lane = "api"] IN
              f.status = e.status /\ f.receipt = e.receipt /\ f.phase = e.phase
         /\ LET f == [e EXCEPT !.address = TRUE] IN
              f.status = e.status /\ f.receipt = e.receipt /\ f.phase = e.phase
         /\ LET f == [e EXCEPT !.bound = TRUE] IN
              f.status = e.status /\ f.receipt = e.receipt /\ f.phase = e.phase
BY DEF Runs

\* The worker and the work keep their types; only a worker that waits for its
\* process has it in _PROCESSES.
LEMMA WorkerStepTyped == WorkTypeOK /\ [WorkNext]_workVars => WorkerOK'
<1> SUFFICES ASSUME WorkTypeOK, [WorkNext]_workVars PROVE WorkerOK'
  OBVIOUS
<1> USE DEF WorkTypeOK
<1>0. ASSUME UNCHANGED <<route, thread, work, handle>> PROVE WorkerOK'
  BY <1>0 DEF WorkerOK
<1>1. CASE Spawn
  BY <1>1 DEF Spawn, WorkerOK, Ended
<1>2. CASE Register
  BY <1>2 DEF Register, WorkerOK, Ended
<1>3. CASE CommunicateReturns
  BY <1>3 DEF CommunicateReturns, WorkerOK, Ended
<1>4. CASE CommunicateExpires
  BY <1>4 DEF CommunicateExpires, WorkerOK, Ended
<1>5. CASE Release
  BY <1>5 DEF Release, WorkerOK, Ended
<1>6. CASE WorkerReturns
  BY <1>6 DEF WorkerReturns, WorkerOK, Ended
<1>7. CASE LaneNoted
  BY <1>7 DEF LaneNoted, WorkerOK, Ended
<1>8. CASE RemoteStarts
  BY <1>8 DEF RemoteStarts, LaneErrs, WorkerOK
<1>9. CASE Addressed
  BY <1>9 DEF Addressed, WorkerOK, Ended
<1>10. CASE Poll
  BY <1>10 DEF Poll, WorkerOK, Ended
<1>11. CASE PollFails
  BY <1>11 DEF PollFails, LaneErrs, WorkerOK
<1>12. CASE WorkEnds
  BY <1>12 DEF WorkEnds, WorkerOK, Ended
<1>13. ASSUME NEW c \in Stops, StopReads(c) PROVE WorkerOK'
  BY <1>13, <1>0 DEF StopReads, callVars
<1>14. ASSUME NEW c \in Stops, ServerAnswers(c) PROVE WorkerOK'
  BY <1>14 DEF ServerAnswers, WorkerOK, Ended
<1>15. ASSUME NEW c \in Stops, StopHears(c) PROVE WorkerOK'
  BY <1>15, <1>0 DEF StopHears, callVars
<1>16. ASSUME NEW c \in Stops, StopStopsWaiting(c) PROVE WorkerOK'
  BY <1>16, <1>0 DEF StopStopsWaiting, callVars
<1>17. ASSUME NEW c \in Stops, LateAnswer(c) PROVE WorkerOK'
  BY <1>17, <1>0 DEF LateAnswer, callVars
<1>18. ASSUME NEW c \in Stops, Terminate(c) PROVE WorkerOK'
  BY <1>18 DEF Terminate, WorkerOK, Ended
<1>19. ASSUME NEW c \in Stops, StopConfirms(c) PROVE WorkerOK'
  BY <1>19, <1>0 DEF StopConfirms, callVars
<1>20. ASSUME NEW c \in Stops, StopStopsConfirming(c) PROVE WorkerOK'
  BY <1>20, <1>0 DEF StopStopsConfirming, callVars
<1>21. ASSUME NEW c \in Stops, Confirmed(c) PROVE WorkerOK'
  BY <1>21, <1>0 DEF Confirmed, callVars
<1>22. ASSUME NEW c \in Stops, LateConfirms(c) PROVE WorkerOK'
  BY <1>22, <1>0 DEF LateConfirms, callVars
<1>23. ASSUME NEW c \in Stops, LateUnconfirmed(c) PROVE WorkerOK'
  BY <1>23, <1>0 DEF LateUnconfirmed, callVars
<1>24. ASSUME NEW h \in Hooks, HookReads(h) PROVE WorkerOK'
  BY <1>24, <1>0 DEF HookReads, callVars
<1>25. ASSUME NEW t \in Writers, PhaseWritten(t) PROVE WorkerOK'
  BY <1>25, <1>0 DEF PhaseWritten, callVars
<1>26. CASE UNCHANGED workVars
  BY <1>26, <1>0 DEF workVars
<1> QED
  BY <1>1, <1>2, <1>3, <1>4, <1>5, <1>6, <1>7, <1>8, <1>9, <1>10, <1>11,
     <1>12, <1>13, <1>14, <1>15, <1>16, <1>17, <1>18, <1>19, <1>20, <1>21,
        <1>22, <1>23, <1>24, <1>25, <1>26 DEF WorkNext, WorkerStep, StopStep,
           Writers

\* Stops and their answers keep their types.
LEMMA StopsStepTyped == WorkTypeOK /\ [WorkNext]_workVars => StopsOK'
<1> SUFFICES ASSUME WorkTypeOK, [WorkNext]_workVars PROVE StopsOK'
  OBVIOUS
<1> USE DEF WorkTypeOK
<1>0. ASSUME UNCHANGED <<calls, answers>> PROVE StopsOK'
  BY <1>0 DEF StopsOK
<1>1. CASE Spawn
  BY <1>1, <1>0 DEF Spawn, callVars
<1>2. CASE Register
  BY <1>2, <1>0 DEF Register, callVars
<1>3. CASE CommunicateReturns
  BY <1>3, <1>0 DEF CommunicateReturns, callVars
<1>4. CASE CommunicateExpires
  BY <1>4, <1>0 DEF CommunicateExpires, callVars
<1>5. CASE Release
  BY <1>5, <1>0 DEF Release, callVars
<1>6. CASE WorkerReturns
  BY <1>6, <1>0 DEF WorkerReturns, callVars
<1>7. CASE LaneNoted
  BY <1>7, <1>0 DEF LaneNoted, callVars
<1>8. CASE RemoteStarts
  BY <1>8, <1>0 DEF RemoteStarts, callVars
<1>9. CASE Addressed
  BY <1>9, <1>0 DEF Addressed, callVars
<1>10. CASE Poll
  BY <1>10, <1>0 DEF Poll, callVars
<1>11. CASE PollFails
  BY <1>11, <1>0 DEF PollFails, callVars
<1>12. CASE WorkEnds
  BY <1>12, <1>0 DEF WorkEnds, callVars
<1>13. ASSUME NEW c \in Stops, StopReads(c) PROVE StopsOK'
  <2>1. [at |-> "captured", held |-> handle] \in StopCalls
    BY DEF StopCalls, WorkerOK
  <2>2. \A w \in {"over", "posting"} : [calls[c] EXCEPT !.at = w] \in
     StopCalls
    BY DEF StopsOK, StopCalls
  <2>3. \/ \E w \in {"over", "posting"} : calls' = [calls EXCEPT ![c] =
           [calls[c] EXCEPT !.at = w]]
        \/ calls' = [calls EXCEPT ![c] = [at |-> "captured", held |-> handle]]
    BY <1>13 DEF StopReads, At
  <2>4. answers' = answers
    BY <1>13 DEF StopReads
  <2> QED
    BY <2>1, <2>2, <2>3, <2>4 DEF StopsOK
<1>14. ASSUME NEW c \in Stops, ServerAnswers(c) PROVE StopsOK'
  BY <1>14 DEF ServerAnswers, StopsOK
<1>15. ASSUME NEW c \in Stops, StopHears(c) PROVE StopsOK'
  <2>1. PICK to \in {"over"} : At(c, to)
    BY <1>15 DEF StopHears, Receipt, Promise
  <2> QED
    BY <1>15, <2>1 DEF StopHears, At, StopsOK, StopCalls
<1>16. ASSUME NEW c \in Stops, StopStopsWaiting(c) PROVE StopsOK'
  <2>1. PICK to \in {"late post"} : At(c, to)
    BY <1>16 DEF StopStopsWaiting, Receipt, Promise
  <2> QED
    BY <1>16, <2>1 DEF StopStopsWaiting, At, StopsOK, StopCalls
<1>17. ASSUME NEW c \in Stops, LateAnswer(c) PROVE StopsOK'
  <2>1. PICK to \in {"over"} : At(c, to)
    BY <1>17 DEF LateAnswer, Receipt, Promise
  <2> QED
    BY <1>17, <2>1 DEF LateAnswer, At, StopsOK, StopCalls
<1>18. ASSUME NEW c \in Stops, Terminate(c) PROVE StopsOK'
  <2>1. PICK to \in {"signaled", "over"} : At(c, to)
    BY <1>18 DEF Terminate, Receipt, Promise
  <2> QED
    BY <1>18, <2>1 DEF Terminate, At, StopsOK, StopCalls
<1>19. ASSUME NEW c \in Stops, StopConfirms(c) PROVE StopsOK'
  <2>1. PICK to \in {"confirming", "late look"} : At(c, to)
    BY <1>19 DEF StopConfirms, Receipt, Promise
  <2> QED
    BY <1>19, <2>1 DEF StopConfirms, At, StopsOK, StopCalls
<1>20. ASSUME NEW c \in Stops, StopStopsConfirming(c) PROVE StopsOK'
  <2>1. PICK to \in {"late look"} : At(c, to)
    BY <1>20 DEF StopStopsConfirming, Receipt, Promise
  <2> QED
    BY <1>20, <2>1 DEF StopStopsConfirming, At, StopsOK, StopCalls
<1>21. ASSUME NEW c \in Stops, Confirmed(c) PROVE StopsOK'
  <2>1. PICK to \in {"over"} : At(c, to)
    BY <1>21 DEF Confirmed, Receipt, Promise
  <2> QED
    BY <1>21, <2>1 DEF Confirmed, At, StopsOK, StopCalls
<1>22. ASSUME NEW c \in Stops, LateConfirms(c) PROVE StopsOK'
  <2>1. PICK to \in {"late confirm"} : At(c, to)
    BY <1>22 DEF LateConfirms, Receipt, Promise
  <2> QED
    BY <1>22, <2>1 DEF LateConfirms, At, StopsOK, StopCalls
<1>23. ASSUME NEW c \in Stops, LateUnconfirmed(c) PROVE StopsOK'
  <2>1. PICK to \in {"over"} : At(c, to)
    BY <1>23 DEF LateUnconfirmed, Receipt, Promise
  <2> QED
    BY <1>23, <2>1 DEF LateUnconfirmed, At, StopsOK, StopCalls
<1>24. ASSUME NEW h \in Hooks, HookReads(h) PROVE StopsOK'
  BY <1>24, <1>0 DEF HookReads, callVars
<1>25. ASSUME NEW t \in Writers, PhaseWritten(t) PROVE StopsOK'
  BY <1>25, <1>0 DEF PhaseWritten, callVars
<1>26. CASE UNCHANGED workVars
  BY <1>26, <1>0 DEF workVars, callVars
<1> QED
  BY <1>1, <1>2, <1>3, <1>4, <1>5, <1>6, <1>7, <1>8, <1>9, <1>10, <1>11,
     <1>12, <1>13, <1>14, <1>15, <1>16, <1>17, <1>18, <1>19, <1>20, <1>21,
        <1>22, <1>23, <1>24, <1>25, <1>26 DEF WorkNext, WorkerStep, StopStep,
           Writers

\* The entry of the run keeps its type.
LEMMA RunStepTyped == WorkTypeOK /\ [WorkNext]_workVars => run' \in Runs
<1> SUFFICES ASSUME WorkTypeOK, [WorkNext]_workVars PROVE run' \in Runs
  OBVIOUS
<1> USE DEF WorkTypeOK
<1>1. CASE Spawn
  BY <1>1, RunTyped DEF Spawn, Finish, Landings
<1>2. CASE Register
  BY <1>2 DEF Register, callVars
<1>3. CASE CommunicateReturns
  BY <1>3 DEF CommunicateReturns, callVars
<1>4. CASE CommunicateExpires
  BY <1>4 DEF CommunicateExpires, callVars
<1>5. CASE Release
  BY <1>5 DEF Release, callVars
<1>6. CASE WorkerReturns
  BY <1>6, RunTyped DEF WorkerReturns, Finish, Landings
<1>7. CASE LaneNoted
  BY <1>7, RunTyped DEF LaneNoted
<1>8. CASE RemoteStarts
  BY <1>8, RunTyped DEF RemoteStarts, LaneErrs, Finish, Landings
<1>9. CASE Addressed
  BY <1>9, RunTyped DEF Addressed
<1>10. CASE Poll
  BY <1>10, RunTyped DEF Poll
<1>11. CASE PollFails
  BY <1>11, RunTyped DEF PollFails, LaneErrs, Finish, Landings
<1>12. CASE WorkEnds
  BY <1>12 DEF WorkEnds, callVars
<1>13. ASSUME NEW c \in Stops, StopReads(c) PROVE run' \in Runs
  BY <1>13 DEF StopReads, callVars
<1>14. ASSUME NEW c \in Stops, ServerAnswers(c) PROVE run' \in Runs
  BY <1>14 DEF ServerAnswers, callVars
<1>15. ASSUME NEW c \in Stops, StopHears(c) PROVE run' \in Runs
  BY <1>15, RunTyped DEF StopHears, Receipt
<1>16. ASSUME NEW c \in Stops, StopStopsWaiting(c) PROVE run' \in Runs
  BY <1>16, RunTyped DEF StopStopsWaiting, Promise
<1>17. ASSUME NEW c \in Stops, LateAnswer(c) PROVE run' \in Runs
  BY <1>17, RunTyped DEF LateAnswer, Receipt
<1>18. ASSUME NEW c \in Stops, Terminate(c) PROVE run' \in Runs
  BY <1>18 DEF Terminate, callVars
<1>19. ASSUME NEW c \in Stops, StopConfirms(c) PROVE run' \in Runs
  BY <1>19, RunTyped DEF StopConfirms, Promise
<1>20. ASSUME NEW c \in Stops, StopStopsConfirming(c) PROVE run' \in Runs
  BY <1>20, RunTyped DEF StopStopsConfirming, Promise
<1>21. ASSUME NEW c \in Stops, Confirmed(c) PROVE run' \in Runs
  BY <1>21, RunTyped DEF Confirmed, Receipt
<1>22. ASSUME NEW c \in Stops, LateConfirms(c) PROVE run' \in Runs
  BY <1>22 DEF LateConfirms, callVars
<1>23. ASSUME NEW c \in Stops, LateUnconfirmed(c) PROVE run' \in Runs
  BY <1>23, RunTyped DEF LateUnconfirmed, Receipt
<1>24. ASSUME NEW h \in Hooks, HookReads(h) PROVE run' \in Runs
  BY <1>24 DEF HookReads, callVars
<1>25. ASSUME NEW t \in Writers, PhaseWritten(t) PROVE run' \in Runs
  BY <1>25, RunTyped DEF PhaseWritten
<1>26. CASE UNCHANGED workVars
  BY <1>26 DEF workVars
<1> QED
  BY <1>1, <1>2, <1>3, <1>4, <1>5, <1>6, <1>7, <1>8, <1>9, <1>10, <1>11,
     <1>12, <1>13, <1>14, <1>15, <1>16, <1>17, <1>18, <1>19, <1>20, <1>21,
        <1>22, <1>23, <1>24, <1>25, <1>26 DEF WorkNext, WorkerStep, StopStep,
           Writers

\* What waits to be written is a phase.
LEMMA DueStepTyped ==
  WorkTypeOK /\ [WorkNext]_workVars => due' \in [Writers -> {""} \union Phases]
<1> SUFFICES ASSUME WorkTypeOK, [WorkNext]_workVars
             PROVE  due' \in [Writers -> {""} \union Phases]
  OBVIOUS
<1> USE DEF WorkTypeOK
<1>1. CASE Spawn
  BY <1>1 DEF Spawn, callVars
<1>2. CASE Register
  BY <1>2 DEF Register, callVars
<1>3. CASE CommunicateReturns
  BY <1>3 DEF CommunicateReturns, callVars
<1>4. CASE CommunicateExpires
  BY <1>4 DEF CommunicateExpires, callVars
<1>5. CASE Release
  BY <1>5 DEF Release, callVars
<1>6. CASE WorkerReturns
  BY <1>6 DEF WorkerReturns, callVars
<1>7. CASE LaneNoted
  BY <1>7 DEF LaneNoted, callVars
<1>8. CASE RemoteStarts
  BY <1>8 DEF RemoteStarts, callVars
<1>9. CASE Addressed
  BY <1>9 DEF Addressed, callVars
<1>10. CASE Poll
  BY <1>10 DEF Poll, PhaseOf, Phases, Ended, Writers, Ends
<1>11. CASE PollFails
  BY <1>11 DEF PollFails, callVars
<1>12. CASE WorkEnds
  BY <1>12 DEF WorkEnds, callVars
<1>13. ASSUME NEW c \in Stops, StopReads(c)
       PROVE  due' \in [Writers -> {""} \union Phases]
  BY <1>13 DEF StopReads, callVars
<1>14. ASSUME NEW c \in Stops, ServerAnswers(c)
       PROVE  due' \in [Writers -> {""} \union Phases]
  BY <1>14 DEF ServerAnswers, callVars
<1>15. ASSUME NEW c \in Stops, StopHears(c)
       PROVE  due' \in [Writers -> {""} \union Phases]
  BY <1>15 DEF StopHears, callVars
<1>16. ASSUME NEW c \in Stops, StopStopsWaiting(c)
       PROVE  due' \in [Writers -> {""} \union Phases]
  BY <1>16 DEF StopStopsWaiting, callVars
<1>17. ASSUME NEW c \in Stops, LateAnswer(c)
       PROVE  due' \in [Writers -> {""} \union Phases]
  BY <1>17 DEF LateAnswer, callVars
<1>18. ASSUME NEW c \in Stops, Terminate(c)
       PROVE  due' \in [Writers -> {""} \union Phases]
  BY <1>18 DEF Terminate, callVars
<1>19. ASSUME NEW c \in Stops, StopConfirms(c)
       PROVE  due' \in [Writers -> {""} \union Phases]
  BY <1>19 DEF StopConfirms, callVars
<1>20. ASSUME NEW c \in Stops, StopStopsConfirming(c)
       PROVE  due' \in [Writers -> {""} \union Phases]
  BY <1>20 DEF StopStopsConfirming, callVars
<1>21. ASSUME NEW c \in Stops, Confirmed(c)
       PROVE  due' \in [Writers -> {""} \union Phases]
  BY <1>21 DEF Confirmed, callVars
<1>22. ASSUME NEW c \in Stops, LateConfirms(c)
       PROVE  due' \in [Writers -> {""} \union Phases]
  BY <1>22 DEF LateConfirms, callVars
<1>23. ASSUME NEW c \in Stops, LateUnconfirmed(c)
       PROVE  due' \in [Writers -> {""} \union Phases]
  BY <1>23 DEF LateUnconfirmed, callVars
<1>24. ASSUME NEW h \in Hooks, HookReads(h)
       PROVE  due' \in [Writers -> {""} \union Phases]
  BY <1>24 DEF HookReads, Phases, Writers
<1>25. ASSUME NEW t \in Writers, PhaseWritten(t)
       PROVE  due' \in [Writers -> {""} \union Phases]
  BY <1>25 DEF PhaseWritten
<1>26. CASE UNCHANGED workVars
  BY <1>26 DEF workVars
<1> QED
  BY <1>1, <1>2, <1>3, <1>4, <1>5, <1>6, <1>7, <1>8, <1>9, <1>10, <1>11,
     <1>12, <1>13, <1>14, <1>15, <1>16, <1>17, <1>18, <1>19, <1>20, <1>21,
        <1>22, <1>23, <1>24, <1>25, <1>26 DEF WorkNext, WorkerStep, StopStep,
           Writers

-----------------------------------------------------------------------------
(* Facts that last, and the receipts that report them.                     *)

\* Work that ended, a run that landed and an answer of the server stay.
FactsLast ==
  /\ work \in Ended => work' = work
  /\ run.status \in Landings => run'.status = run.status
  /\ \A c \in Stops : answers[c] = "ok" => answers'[c] = "ok"

\* A receipt and a phase are written on the ground of a fact.
ReceiptHasGround ==
  \/ run'.receipt = run.receipt
  \/ run'.receipt \notin {"exited", "finished", "accepted"}
  \/ run'.receipt = "exited" /\ work \in Ended
  \/ run'.receipt = "finished" /\ run.status \in Landings
  \/ run'.receipt = "accepted" /\ \E c \in Stops : answers[c] = "ok"

PhaseHasGround ==
  run'.phase = run.phase \/ \E t \in Writers : run'.phase = due[t]

\* No work before its worker runs.
LEMMA NotYetStep == WorkTypeOK /\ NotYet /\ [WorkNext]_workVars => NotYet'
<1> SUFFICES ASSUME WorkTypeOK /\ NotYet, [WorkNext]_workVars PROVE NotYet'
  OBVIOUS
<1> USE DEF WorkTypeOK
<1>0. ASSUME UNCHANGED <<thread, work>> PROVE NotYet'
  BY <1>0 DEF NotYet
<1>1. CASE Spawn
  BY <1>1 DEF Spawn, NotYet
<1>2. CASE Register
  BY <1>2 DEF Register, NotYet
<1>3. CASE CommunicateReturns
  BY <1>3 DEF CommunicateReturns, NotYet
<1>4. CASE CommunicateExpires
  BY <1>4 DEF CommunicateExpires, NotYet
<1>5. CASE Release
  BY <1>5 DEF Release, NotYet
<1>6. CASE WorkerReturns
  BY <1>6 DEF WorkerReturns, NotYet
<1>7. CASE LaneNoted
  BY <1>7 DEF LaneNoted, NotYet
<1>8. CASE RemoteStarts
  BY <1>8 DEF RemoteStarts, LaneErrs, NotYet
<1>9. CASE Addressed
  BY <1>9 DEF Addressed, NotYet
<1>10. CASE Poll
  BY <1>10 DEF Poll, NotYet
<1>11. CASE PollFails
  BY <1>11 DEF PollFails, LaneErrs, NotYet
<1>12. CASE WorkEnds
  BY <1>12 DEF WorkEnds, NotYet
<1>13. ASSUME NEW c \in Stops, StopReads(c) PROVE NotYet'
  BY <1>13, <1>0 DEF StopReads
<1>14. ASSUME NEW c \in Stops, ServerAnswers(c) PROVE NotYet'
  BY <1>14 DEF ServerAnswers, NotYet
<1>15. ASSUME NEW c \in Stops, StopHears(c) PROVE NotYet'
  BY <1>15, <1>0 DEF StopHears
<1>16. ASSUME NEW c \in Stops, StopStopsWaiting(c) PROVE NotYet'
  BY <1>16, <1>0 DEF StopStopsWaiting
<1>17. ASSUME NEW c \in Stops, LateAnswer(c) PROVE NotYet'
  BY <1>17, <1>0 DEF LateAnswer
<1>18. ASSUME NEW c \in Stops, Terminate(c) PROVE NotYet'
  BY <1>18 DEF Terminate, NotYet, WorkerOK
<1>19. ASSUME NEW c \in Stops, StopConfirms(c) PROVE NotYet'
  BY <1>19, <1>0 DEF StopConfirms
<1>20. ASSUME NEW c \in Stops, StopStopsConfirming(c) PROVE NotYet'
  BY <1>20, <1>0 DEF StopStopsConfirming
<1>21. ASSUME NEW c \in Stops, Confirmed(c) PROVE NotYet'
  BY <1>21, <1>0 DEF Confirmed
<1>22. ASSUME NEW c \in Stops, LateConfirms(c) PROVE NotYet'
  BY <1>22, <1>0 DEF LateConfirms
<1>23. ASSUME NEW c \in Stops, LateUnconfirmed(c) PROVE NotYet'
  BY <1>23, <1>0 DEF LateUnconfirmed
<1>24. ASSUME NEW h \in Hooks, HookReads(h) PROVE NotYet'
  BY <1>24, <1>0 DEF HookReads
<1>25. ASSUME NEW t \in Writers, PhaseWritten(t) PROVE NotYet'
  BY <1>25, <1>0 DEF PhaseWritten
<1>26. CASE UNCHANGED workVars
  BY <1>26, <1>0 DEF workVars
<1> QED
  BY <1>1, <1>2, <1>3, <1>4, <1>5, <1>6, <1>7, <1>8, <1>9, <1>10, <1>11,
     <1>12, <1>13, <1>14, <1>15, <1>16, <1>17, <1>18, <1>19, <1>20, <1>21,
        <1>22, <1>23, <1>24, <1>25, <1>26 DEF WorkNext, WorkerStep, StopStep,
           Writers

\* Every step keeps these facts.
LEMMA FactsStep == WorkTypeOK /\ NotYet /\ [WorkNext]_workVars => FactsLast
<1> SUFFICES ASSUME WorkTypeOK /\ NotYet, [WorkNext]_workVars PROVE FactsLast
  OBVIOUS
<1> USE DEF WorkTypeOK
<1>0. ASSUME UNCHANGED <<work, answers>>, run'.status = run.status
      PROVE  FactsLast
  BY <1>0 DEF FactsLast
<1>f. ASSUME NEW s \in Landings, Finish(s)
      PROVE  run.status \in Landings => run'.status = run.status
  BY <1>f DEF Finish, Landings
<1>r. ASSUME NEW c \in Stops, NEW w, Receipt(c, w)
      PROVE  run'.status = run.status
  BY <1>r, RunKept DEF Receipt
<1>p. ASSUME NEW c \in Stops, NEW to, Promise(c, to)
      PROVE  run'.status = run.status
  <2>1. run' = [run EXCEPT !.receipt = "pending"]
    BY <1>p DEF Promise
  <2> QED
    BY <2>1, RunKept
<1>1. CASE Spawn
  BY <1>1, <1>f DEF Spawn, FactsLast, Landings, NotYet, Ended, callVars
<1>2. CASE Register
  BY <1>2, <1>0 DEF Register, callVars
<1>3. CASE CommunicateReturns
  BY <1>3, <1>0 DEF CommunicateReturns, callVars
<1>4. CASE CommunicateExpires
  BY <1>4 DEF CommunicateExpires, FactsLast, Ended, callVars
<1>5. CASE Release
  BY <1>5, <1>0 DEF Release, callVars
<1>6. CASE WorkerReturns
  BY <1>6, <1>f DEF WorkerReturns, FactsLast, Landings, NotYet, Ended,
     callVars
<1>7. CASE LaneNoted
  BY <1>7, <1>0, RunKept DEF LaneNoted, callVars
<1>8. CASE RemoteStarts
  BY <1>8, <1>f DEF RemoteStarts, LaneErrs, FactsLast, Landings, NotYet,
     Ended, callVars
<1>9. CASE Addressed
  BY <1>9, <1>0, RunKept DEF Addressed, callVars
<1>10. CASE Poll
  BY <1>10, <1>0, RunKept DEF Poll, callVars
<1>11. CASE PollFails
  BY <1>11, <1>f DEF PollFails, LaneErrs, FactsLast, Landings, NotYet, Ended,
     callVars
<1>12. CASE WorkEnds
  BY <1>12 DEF WorkEnds, FactsLast, Ended, callVars
<1>13. ASSUME NEW c \in Stops, StopReads(c) PROVE FactsLast
  BY <1>13, <1>0 DEF StopReads, callVars
<1>14. ASSUME NEW c \in Stops, ServerAnswers(c) PROVE FactsLast
  BY <1>14 DEF ServerAnswers, FactsLast, StopsOK, Ended
<1>15. ASSUME NEW c \in Stops, StopHears(c) PROVE FactsLast
  BY <1>15, <1>0, <1>r, <1>p DEF StopHears
<1>16. ASSUME NEW c \in Stops, StopStopsWaiting(c) PROVE FactsLast
  BY <1>16, <1>0, <1>r, <1>p DEF StopStopsWaiting
<1>17. ASSUME NEW c \in Stops, LateAnswer(c) PROVE FactsLast
  BY <1>17, <1>0, <1>r, <1>p DEF LateAnswer
<1>18. ASSUME NEW c \in Stops, Terminate(c) PROVE FactsLast
  BY <1>18 DEF Terminate, FactsLast
<1>19. ASSUME NEW c \in Stops, StopConfirms(c) PROVE FactsLast
  BY <1>19, <1>0, <1>r, <1>p DEF StopConfirms
<1>20. ASSUME NEW c \in Stops, StopStopsConfirming(c) PROVE FactsLast
  BY <1>20, <1>0, <1>r, <1>p DEF StopStopsConfirming
<1>21. ASSUME NEW c \in Stops, Confirmed(c) PROVE FactsLast
  BY <1>21, <1>0, <1>r, <1>p DEF Confirmed
<1>22. ASSUME NEW c \in Stops, LateConfirms(c) PROVE FactsLast
  BY <1>22, <1>0 DEF LateConfirms, callVars
<1>23. ASSUME NEW c \in Stops, LateUnconfirmed(c) PROVE FactsLast
  BY <1>23, <1>0, <1>r, <1>p DEF LateUnconfirmed
<1>24. ASSUME NEW h \in Hooks, HookReads(h) PROVE FactsLast
  BY <1>24, <1>0 DEF HookReads, callVars
<1>25. ASSUME NEW t \in Writers, PhaseWritten(t) PROVE FactsLast
  BY <1>25, <1>0, RunKept DEF PhaseWritten, callVars
<1>26. CASE UNCHANGED workVars
  BY <1>26, <1>0 DEF workVars, callVars
<1> QED
  BY <1>1, <1>2, <1>3, <1>4, <1>5, <1>6, <1>7, <1>8, <1>9, <1>10, <1>11,
     <1>12, <1>13, <1>14, <1>15, <1>16, <1>17, <1>18, <1>19, <1>20, <1>21,
        <1>22, <1>23, <1>24, <1>25, <1>26 DEF WorkNext, WorkerStep, StopStep,
           Writers

\* Every step writes on such a ground.
LEMMA GroundsStep ==
  WorkTypeOK /\ [WorkNext]_workVars => ReceiptHasGround /\ PhaseHasGround
<1> SUFFICES ASSUME WorkTypeOK, [WorkNext]_workVars
             PROVE  ReceiptHasGround /\ PhaseHasGround
  OBVIOUS
<1> USE DEF WorkTypeOK
<1> DEFINE Grounds == ReceiptHasGround /\ PhaseHasGround
<1>0. ASSUME run'.receipt = run.receipt, run'.phase = run.phase PROVE Grounds
  BY <1>0 DEF ReceiptHasGround, PhaseHasGround
<1>f. ASSUME NEW s \in Landings, Finish(s) PROVE Grounds
  BY <1>f, <1>0, RunKept DEF Finish
<1>r. ASSUME NEW c \in Stops, NEW w, Receipt(c, w)
      PROVE  run'.receipt = w /\ run'.phase = run.phase
  BY <1>r, RunKept DEF Receipt
<1>p. ASSUME NEW c \in Stops, NEW to, Promise(c, to) PROVE Grounds
  <2>1. run' = [run EXCEPT !.receipt = "pending"]
    BY <1>p DEF Promise
  <2>2. run'.receipt = "pending" /\ run'.phase = run.phase
    BY <2>1, RunKept
  <2> QED
    BY <2>2 DEF ReceiptHasGround, PhaseHasGround
<1>1. CASE Spawn
  BY <1>1, <1>f, <1>0 DEF Spawn, Landings
<1>2. CASE Register
  BY <1>2, <1>0 DEF Register, callVars
<1>3. CASE CommunicateReturns
  BY <1>3, <1>0 DEF CommunicateReturns, callVars
<1>4. CASE CommunicateExpires
  BY <1>4, <1>0 DEF CommunicateExpires, callVars
<1>5. CASE Release
  BY <1>5, <1>0 DEF Release, callVars
<1>6. CASE WorkerReturns
  BY <1>6, <1>f, <1>0 DEF WorkerReturns, Landings
<1>7. CASE LaneNoted
  BY <1>7, <1>0, RunKept DEF LaneNoted
<1>8. CASE RemoteStarts
  BY <1>8, <1>f, <1>0 DEF RemoteStarts, LaneErrs, Landings
<1>9. CASE Addressed
  BY <1>9, <1>0, RunKept DEF Addressed
<1>10. CASE Poll
  BY <1>10, <1>0, RunKept DEF Poll
<1>11. CASE PollFails
  BY <1>11, <1>f, <1>0 DEF PollFails, LaneErrs, Landings
<1>12. CASE WorkEnds
  BY <1>12, <1>0 DEF WorkEnds, callVars
<1>13. ASSUME NEW c \in Stops, StopReads(c)
       PROVE  ReceiptHasGround /\ PhaseHasGround
  BY <1>13, <1>0 DEF StopReads, callVars
<1>14. ASSUME NEW c \in Stops, ServerAnswers(c)
       PROVE  ReceiptHasGround /\ PhaseHasGround
  BY <1>14, <1>0 DEF ServerAnswers, callVars
<1>15. ASSUME NEW c \in Stops, StopHears(c)
       PROVE  ReceiptHasGround /\ PhaseHasGround
  BY <1>15, <1>0, <1>r DEF StopHears, ReceiptHasGround, PhaseHasGround
<1>16. ASSUME NEW c \in Stops, StopStopsWaiting(c)
       PROVE  ReceiptHasGround /\ PhaseHasGround
  BY <1>16, <1>0, <1>p DEF StopStopsWaiting
<1>17. ASSUME NEW c \in Stops, LateAnswer(c)
       PROVE  ReceiptHasGround /\ PhaseHasGround
  <2> DEFINE w == CASE answers[c] = "ok" -> "accepted"
                   [] answers[c] = "error" -> "failed"
                   [] OTHER -> "no answer"
  <2>1. Receipt(c, w)
    BY <1>17 DEF LateAnswer
  <2>2. w \in {"accepted", "failed", "no answer"} /\ (w = "accepted" =>
     answers[c] = "ok")
    OBVIOUS
  <2> HIDE DEF w
  <2>3. run'.receipt = w /\ run'.phase = run.phase
    BY <2>1, <1>r
  <2> QED
    BY <2>2, <2>3 DEF ReceiptHasGround, PhaseHasGround
<1>18. ASSUME NEW c \in Stops, Terminate(c)
       PROVE  ReceiptHasGround /\ PhaseHasGround
  BY <1>18, <1>0 DEF Terminate, callVars
<1>19. ASSUME NEW c \in Stops, StopConfirms(c)
       PROVE  ReceiptHasGround /\ PhaseHasGround
  BY <1>19, <1>0, <1>p DEF StopConfirms
<1>20. ASSUME NEW c \in Stops, StopStopsConfirming(c) PROVE ReceiptHasGround
   /\ PhaseHasGround
  BY <1>20, <1>0, <1>p DEF StopStopsConfirming
<1>21. ASSUME NEW c \in Stops, Confirmed(c)
       PROVE  ReceiptHasGround /\ PhaseHasGround
  BY <1>21, <1>0, <1>r DEF Confirmed, ReceiptHasGround, PhaseHasGround
<1>22. ASSUME NEW c \in Stops, LateConfirms(c)
       PROVE  ReceiptHasGround /\ PhaseHasGround
  BY <1>22, <1>0 DEF LateConfirms, callVars
<1>23. ASSUME NEW c \in Stops, LateUnconfirmed(c)
       PROVE  ReceiptHasGround /\ PhaseHasGround
  <2> DEFINE w == IF run.status \in Landings THEN "finished" ELSE
     "unconfirmed"
  <2>1. Receipt(c, w)
    BY <1>23 DEF LateUnconfirmed
  <2>2. w \in {"finished", "unconfirmed"} /\ (w = "finished" => run.status \in
     Landings)
    OBVIOUS
  <2> HIDE DEF w
  <2>3. run'.receipt = w /\ run'.phase = run.phase
    BY <2>1, <1>r
  <2> QED
    BY <2>2, <2>3 DEF ReceiptHasGround, PhaseHasGround
<1>24. ASSUME NEW h \in Hooks, HookReads(h)
       PROVE  ReceiptHasGround /\ PhaseHasGround
  BY <1>24, <1>0 DEF HookReads, callVars
<1>25. ASSUME NEW t \in Writers, PhaseWritten(t)
       PROVE  ReceiptHasGround /\ PhaseHasGround
  BY <1>25, RunKept DEF PhaseWritten, ReceiptHasGround, PhaseHasGround
<1>26. CASE UNCHANGED workVars
  BY <1>26, <1>0 DEF workVars
<1> QED
  BY <1>1, <1>2, <1>3, <1>4, <1>5, <1>6, <1>7, <1>8, <1>9, <1>10, <1>11,
     <1>12, <1>13, <1>14, <1>15, <1>16, <1>17, <1>18, <1>19, <1>20, <1>21,
        <1>22, <1>23, <1>24, <1>25, <1>26 DEF WorkNext, WorkerStep, StopStep,
           Writers

\* Every step keeps what a thread is about to write true.
LEMMA DueStep ==
  WorkTypeOK /\ NotYet /\ DueIsTrue /\ [WorkNext]_workVars => DueIsTrue'
<1> SUFFICES ASSUME WorkTypeOK /\ NotYet /\ DueIsTrue, [WorkNext]_workVars
   PROVE DueIsTrue'
  OBVIOUS
<1> USE DEF WorkTypeOK
<1>l. work \in Ended => work' = work
  BY FactsStep DEF FactsLast
<1>0. ASSUME UNCHANGED due PROVE DueIsTrue'
  BY <1>l, <1>0 DEF DueIsTrue, Ended
<1>1. CASE Spawn
  BY <1>1, <1>0 DEF Spawn
<1>2. CASE Register
  BY <1>2, <1>0 DEF Register
<1>3. CASE CommunicateReturns
  BY <1>3, <1>0 DEF CommunicateReturns
<1>4. CASE CommunicateExpires
  BY <1>4, <1>0 DEF CommunicateExpires
<1>5. CASE Release
  BY <1>5, <1>0 DEF Release
<1>6. CASE WorkerReturns
  BY <1>6, <1>0 DEF WorkerReturns
<1>7. CASE LaneNoted
  BY <1>7, <1>0 DEF LaneNoted
<1>8. CASE RemoteStarts
  BY <1>8, <1>0 DEF RemoteStarts
<1>9. CASE Addressed
  BY <1>9, <1>0 DEF Addressed
<1>10. CASE Poll
  <2>1. \/ due' = due
        \/ \E phase \in {"accepted", "executing", "blocked"} : due' = [due
           EXCEPT !["worker"] = phase]
        \/ work \in Ended /\ due' = [due EXCEPT !["worker"] = PhaseOf]
    BY <1>10 DEF Poll, Phases, Ends
  <2>2. work \in Ended => (PhaseOf = "stopped" => work = "cancelled")
    BY DEF PhaseOf, Ended
  <2> QED
    BY <1>l, <2>1, <2>2 DEF DueIsTrue, Ended, Ends
<1>11. CASE PollFails
  BY <1>11, <1>0 DEF PollFails
<1>12. CASE WorkEnds
  BY <1>12, <1>0 DEF WorkEnds
<1>13. ASSUME NEW c \in Stops, StopReads(c) PROVE DueIsTrue'
  BY <1>13, <1>0 DEF StopReads
<1>14. ASSUME NEW c \in Stops, ServerAnswers(c) PROVE DueIsTrue'
  BY <1>14, <1>0 DEF ServerAnswers
<1>15. ASSUME NEW c \in Stops, StopHears(c) PROVE DueIsTrue'
  BY <1>15, <1>0 DEF StopHears
<1>16. ASSUME NEW c \in Stops, StopStopsWaiting(c) PROVE DueIsTrue'
  BY <1>16, <1>0 DEF StopStopsWaiting
<1>17. ASSUME NEW c \in Stops, LateAnswer(c) PROVE DueIsTrue'
  BY <1>17, <1>0 DEF LateAnswer
<1>18. ASSUME NEW c \in Stops, Terminate(c) PROVE DueIsTrue'
  BY <1>18, <1>0 DEF Terminate
<1>19. ASSUME NEW c \in Stops, StopConfirms(c) PROVE DueIsTrue'
  BY <1>19, <1>0 DEF StopConfirms
<1>20. ASSUME NEW c \in Stops, StopStopsConfirming(c) PROVE DueIsTrue'
  BY <1>20, <1>0 DEF StopStopsConfirming
<1>21. ASSUME NEW c \in Stops, Confirmed(c) PROVE DueIsTrue'
  BY <1>21, <1>0 DEF Confirmed
<1>22. ASSUME NEW c \in Stops, LateConfirms(c) PROVE DueIsTrue'
  BY <1>22, <1>0 DEF LateConfirms
<1>23. ASSUME NEW c \in Stops, LateUnconfirmed(c) PROVE DueIsTrue'
  BY <1>23, <1>0 DEF LateUnconfirmed
<1>24. ASSUME NEW h \in Hooks, HookReads(h) PROVE DueIsTrue'
  BY <1>24, <1>l DEF HookReads, DueIsTrue, Ended, Ends
<1>25. ASSUME NEW t \in Writers, PhaseWritten(t) PROVE DueIsTrue'
  BY <1>25, <1>l DEF PhaseWritten, DueIsTrue, Ended, Ends
<1>26. CASE UNCHANGED workVars
  BY <1>26, <1>0 DEF workVars
<1> QED
  BY <1>1, <1>2, <1>3, <1>4, <1>5, <1>6, <1>7, <1>8, <1>9, <1>10, <1>11,
     <1>12, <1>13, <1>14, <1>15, <1>16, <1>17, <1>18, <1>19, <1>20, <1>21,
        <1>22, <1>23, <1>24, <1>25, <1>26 DEF WorkNext, WorkerStep, StopStep,
           Writers

\* So what the receipt and the phase say stays true.
LEMMA ReceiptsStep == WorkInv /\ [WorkNext]_workVars => ReceiptsAreTrue'
<1> SUFFICES ASSUME WorkInv, [WorkNext]_workVars PROVE ReceiptsAreTrue'
  OBVIOUS
<1>1. FactsLast /\ ReceiptHasGround /\ PhaseHasGround
  BY FactsStep, GroundsStep DEF WorkInv
<1>2. ReceiptsAreTrue /\ DueIsTrue
  BY DEF WorkInv
<1>3. /\ run'.receipt = "exited" => work' \in Ended
      /\ run'.receipt = "finished" => run'.status \in Landings
      /\ run'.receipt = "accepted" => \E c \in Stops : answers'[c] = "ok"
  BY <1>1, <1>2 DEF ReceiptsAreTrue, FactsLast, ReceiptHasGround
<1>4. /\ run'.phase \in Ends => work' \in Ended
      /\ run'.phase = "stopped" => work' = "cancelled"
  BY <1>1, <1>2 DEF ReceiptsAreTrue, DueIsTrue, FactsLast, PhaseHasGround, Ended
<1> QED
  BY <1>3, <1>4 DEF ReceiptsAreTrue

\* The invariant holds in every reachable state.
LEMMA WorkInvHolds == WorkSpec => []WorkInv
<1>1. WorkInit => WorkInv
  <2> SUFFICES ASSUME WorkInit PROVE WorkInv
    OBVIOUS
  <2>1. run \in Runs
    BY DEF WorkInit, Runs
  <2>2. WorkerOK /\ StopsOK /\ due \in [Writers -> {""} \union Phases]
    BY DEF WorkInit, WorkerOK, StopsOK, StopCalls
  <2>3. ReceiptsAreTrue /\ NotYet /\ DueIsTrue
    BY DEF WorkInit, ReceiptsAreTrue, NotYet, DueIsTrue, Ends
  <2> QED
    BY <2>1, <2>2, <2>3 DEF WorkInv, WorkTypeOK
<1>2. WorkInv /\ [WorkNext]_workVars => WorkInv'
  BY WorkerStepTyped, StopsStepTyped, RunStepTyped, DueStepTyped, NotYetStep, DueStep,
     ReceiptsStep DEF WorkInv, WorkTypeOK
<1> QED
  BY <1>1, <1>2, PTL DEF WorkSpec

\* However many stops and hooks interleave with the worker and the server: a
\* receipt never claims more than happened (stop_work, _receipt, _confirm), and
\* the phase reports no end of work that goes on (set_run_phase).
THEOREM ReceiptsClaimOnlyWhatHappened == WorkSpec => []WorkSafe
<1>1. WorkInv => WorkSafe
  BY DEF WorkInv, WorkSafe
<1> QED
  BY <1>1, WorkInvHolds, PTL

-----------------------------------------------------------------------------
(* Notes to a child (SteerNotes).                                          *)

Verbs == [at: {"idle", "steering", "redirecting", "capturing", "judging", "queued", "over"},
          id: AgentIds \cup {NoReceipt}, agent: Agents \cup {NoReceipt},
          ref: Agents \cup {NoReceipt}]
Receipts == [note: Notes, id: AgentIds, ref: Agents \cup {NoReceipt}, state: States]
Lines == [kind: {"none", "tool", "api"}, notes: Seq(Notes)]

Typed ==
  /\ child \in [Agents -> {"unborn", "live", "over"}]
  /\ registered \subseteq Agents /\ hooked \subseteq Agents /\ interrupted \subseteq Agents
  /\ pendingNotes \in [Agents -> Seq(Notes)] /\ slot \in [Agents -> Notes \cup {NoReceipt}]
  /\ line \in [Agents -> Lines] /\ delivered \subseteq Notes /\ verbs \in [Notes -> Verbs]
  /\ ledger \in Seq(Receipts) /\ Len(ledger) <= MaxReceipts
  /\ stopping \subseteq AgentIds
  /\ sweep \in [at: {"idle", "listed", "marking"}, ids: SUBSET AgentIds]

\* What the host says of its children: no id is registered twice, and who is not live logs
\* nothing.
HostInv ==
  /\ \A a \in registered : child[a] # "unborn"
  /\ \A a, b \in registered : IdOf[a] = IdOf[b] => a = b
  /\ \A a \in hooked : child[a] = "over"
  /\ \A a \in Agents : child[a] # "live" => line[a] = Quiet

\* Where a note is, and whose it is.
InQueue(n, a) == n \in ToSet(pendingNotes[a])
InSlot(n, a)  == slot[a] = n
InLine(n, a)  == n \in ToSet(line[a].notes)
Early(n) == verbs[n].at \in {"idle", "steering", "redirecting"}
Sent(n, a) == ~Early(n) /\ verbs[n].agent = a

\* A note is in one place of its child, and not before it is sent.
PlaceInv ==
  /\ \A n \in Notes, a \in Agents :
       /\ InQueue(n, a) => n \notin delivered /\ Sent(n, a)
       /\ InSlot(n, a) => n \notin delivered /\ ~InQueue(n, a) /\ Sent(n, a)
       /\ InLine(n, a) => n \in delivered /\ Sent(n, a)
  /\ \A n \in delivered : ~Early(n)

\* What a tool call knows of the child it sends to.
VerbInv ==
  \A n \in Notes :
    LET v == verbs[n]
    IN  /\ v.at # "idle" => v.agent \in Agents /\ v.id = IdOf[v.agent]
        /\ v.at \in {"steering", "redirecting"} => v.ref = v.agent
        /\ PromptCapture => v.ref \in {v.agent, NoReceipt}
        /\ PromptCapture /\ v.at = "capturing" =>
             \A b \in registered : IdOf[b] = v.id => b = v.agent

\* A note its child took, or may still take, or never will.
Reached(n) ==
  n \in delivered \/ InQueue(n, verbs[n].agent) \/ child[verbs[n].agent] = "over"

ReachInv ==
  /\ \A n \in Notes :
       /\ verbs[n].at \in {"capturing", "queued"} => Reached(n)
       /\ verbs[n].at = "judging" => Reached(n) \/ InSlot(n, verbs[n].agent)
  /\ \A i \in 1 .. Len(ledger) : ledger[i].state = "queued" => Reached(ledger[i].note)

\* A receipt is of a note that was sent, as it was sent; a note has one.
LedgerInv ==
  /\ \A i \in 1 .. Len(ledger) :
       LET v == verbs[ledger[i].note]
       IN  v.at = "over" /\ v.agent \in Agents /\ ledger[i].id = v.id /\ ledger[i].ref = v.ref
  /\ \A i, j \in 1 .. Len(ledger) : ledger[i].note = ledger[j].note => i = j

LandedReceipts == FrameVisible /\ PromptCapture => LandedWasRead

SteerInv == Typed /\ HostInv /\ PlaceInv /\ VerbInv /\ ReachInv /\ LedgerInv /\ LandedReceipts

-----------------------------------------------------------------------------
(* What the operators do.                                                  *)

\* A queue that gains a note.
LEMMA InAppend ==
  ASSUME NEW s \in Seq(Notes), NEW e \in Notes
  PROVE  /\ Append(s, e) \in Seq(Notes)
         /\ \A n : n \in ToSet(Append(s, e)) <=> n \in ToSet(s) \/ n = e
<1>1. Len(s) \in Nat /\ DOMAIN s = 1 .. Len(s) /\ DOMAIN Append(s, e) = 1 .. Len(s) + 1
  OBVIOUS
<1>2. Append(s, e)[Len(s) + 1] = e /\ \A i \in 1 .. Len(s) : Append(s, e)[i] = s[i]
  OBVIOUS
<1> QED
  BY <1>1, <1>2 DEF ToSet

\* An empty queue.
LEMMA EmptyIsSeq == <<>> \in Seq(Notes)
OBVIOUS

\* No note is in it.
LEMMA NoneIn == ToSet(<<>>) = {}
BY DEF ToSet

\* Notes of a queue are notes.
LEMMA ElementsAreNotes ==
  ASSUME NEW s \in Seq(Notes)
  PROVE  ToSet(s) \subseteq Notes
BY DEF ToSet

\* A note enters one queue.
LEMMA Enqueued ==
  ASSUME pendingNotes \in [Agents -> Seq(Notes)], NEW n \in Notes, NEW a \in Agents, Enqueue(n, a)
  PROVE  /\ pendingNotes' \in [Agents -> Seq(Notes)]
         /\ \A m \in Notes, b \in Agents : InQueue(m, b)' <=> InQueue(m, b) \/ (m = n /\ b = a)
<1>1. PICK q \in Seq(Notes) : q = Append(pendingNotes[a], n)
  BY InAppend
<1>2. pendingNotes' = [pendingNotes EXCEPT ![a] = q]
  BY <1>1 DEF Enqueue
<1>3. pendingNotes'[a] = q /\ \A b \in Agents : b # a => pendingNotes'[b] = pendingNotes[b]
  BY <1>2
<1>4. \A m \in Notes : m \in ToSet(q) <=> m \in ToSet(pendingNotes[a]) \/ m = n
  BY <1>1, InAppend
<1> QED
  BY <1>2, <1>3, <1>4 DEF InQueue

\* A tool call goes on.
LEMMA Moved ==
  ASSUME verbs \in [Notes -> Verbs], NEW n \in Notes,
         NEW at \in {"capturing", "judging", "queued", "over"}, Moves(n, at)
  PROVE  /\ verbs' \in [Notes -> Verbs]
         /\ verbs'[n].at = at /\ verbs'[n].id = verbs[n].id
         /\ verbs'[n].agent = verbs[n].agent /\ verbs'[n].ref = verbs[n].ref
         /\ \A m \in Notes : m # n => verbs'[m] = verbs[m]
<1>1. PICK v \in Verbs : v = verbs[n]
  OBVIOUS
<1>2. PICK w \in Verbs : w = [v EXCEPT !.at = at]
  BY DEF Verbs
<1>3. w.at = at /\ w.id = v.id /\ w.agent = v.agent /\ w.ref = v.ref
  BY <1>2 DEF Verbs
<1>4. verbs' = [verbs EXCEPT ![n] = w]
  BY <1>1, <1>2 DEF Moves
<1> QED
  BY <1>1, <1>3, <1>4

-----------------------------------------------------------------------------
(* How each part of the state changes in a step.                           *)

\* The host's children.
HostMove ==
  /\ child' \in [Agents -> {"unborn", "live", "over"}]
  /\ registered' \subseteq Agents /\ hooked' \subseteq Agents /\ interrupted' \subseteq Agents
  /\ stopping' \subseteq AgentIds
  /\ \A a \in Agents : child[a] = "over" => child'[a] = "over"
  /\ \A a \in registered' : child'[a] # "unborn"
  /\ \A a, b \in registered' : IdOf[a] = IdOf[b] => a = b
  /\ \A a \in hooked' : child'[a] = "over"
  /\ \/ registered' \subseteq registered
     \/ /\ UNCHANGED verbs
        /\ \A b \in registered' : b \in registered \/
             (PromptCapture => \A n \in Notes : verbs[n].at = "capturing" => verbs[n].id # IdOf[b])

\* No child comes back, and an id is registered once.
LEMMA HostMoves == Typed /\ HostInv /\ [SteerNext]_steerVars => HostMove
<1> SUFFICES ASSUME Typed /\ HostInv, [SteerNext]_steerVars PROVE HostMove
  OBVIOUS
<1>0. /\ child \in [Agents -> {"unborn", "live", "over"}]
      /\ registered \subseteq Agents /\ hooked \subseteq Agents /\ interrupted \subseteq Agents
      /\ stopping \subseteq AgentIds
      /\ \A a \in registered : child[a] # "unborn"
      /\ \A a, b \in registered : IdOf[a] = IdOf[b] => a = b
      /\ \A a \in hooked : child[a] = "over"
  BY DEF Typed, HostInv
<1>k. UNCHANGED <<child, registered, hooked, interrupted, stopping>> => HostMove
  BY <1>0 DEF HostMove
<1>o. ASSUME NEW a \in Agents, child' = [child EXCEPT ![a] = "over"],
             UNCHANGED <<registered, hooked, interrupted, stopping>>
      PROVE  HostMove
  BY <1>0, <1>o DEF HostMove
<1>1. ASSUME NEW a \in Agents, ChildStarts(a) PROVE HostMove
  <2>1. /\ child' = [child EXCEPT ![a] = "live"] /\ registered' = registered \cup {a}
        /\ UNCHANGED <<hooked, interrupted, stopping, verbs>>
        /\ child[a] = "unborn" /\ \A b \in registered : IdOf[b] # IdOf[a]
        /\ PromptCapture => \A n \in Notes : verbs[n].at = "capturing" => verbs[n].id # IdOf[a]
    BY <1>1 DEF ChildStarts
  <2>2. child'[a] = "live" /\ \A b \in Agents : b # a => child'[b] = child[b]
    BY <1>0, <2>1
  <2>3. child' \in [Agents -> {"unborn", "live", "over"}]
    BY <1>0, <2>1
  <2>4. \A b \in registered' : b \in registered \/ b = a
    BY <2>1
  <2>5. \A b, c \in registered' : IdOf[b] = IdOf[c] => b = c
    BY <1>0, <2>1, <2>4
  <2>6. \A b \in Agents : child[b] = "over" => child'[b] = "over"
    BY <2>1, <2>2
  <2>7. \A b \in registered' : child'[b] # "unborn"
    BY <1>0, <2>2, <2>4
  <2>8. \A b \in hooked' : child'[b] = "over"
    BY <1>0, <2>1, <2>6
  <2>9. registered' \subseteq Agents /\ hooked' \subseteq Agents /\ interrupted' \subseteq
     Agents
        /\ stopping' \subseteq AgentIds /\ UNCHANGED verbs
    BY <1>0, <2>1
  <2>10. \A b \in registered' : b \in registered \/
           (PromptCapture => \A n \in Notes : verbs[n].at = "capturing" => verbs[n].id #
              IdOf[b])
    BY <2>1, <2>4
  <2> QED
    BY <2>3, <2>5, <2>6, <2>7, <2>8, <2>9, <2>10 DEF HostMove
<1>2. ASSUME NEW a \in Agents, Drain(a, "tool") PROVE HostMove
  BY <1>2, <1>k DEF Drain
<1>3. ASSUME NEW a \in Agents, Drain(a, "api") PROVE HostMove
  BY <1>3, <1>k DEF Drain
<1>4. ASSUME NEW a \in Agents, DrainLogged(a) PROVE HostMove
  BY <1>4, <1>k DEF DrainLogged
<1>5. ASSUME NEW a \in Agents, SlotTaken(a) PROVE HostMove
  BY <1>5, <1>k DEF SlotTaken
<1>6. ASSUME NEW a \in Agents, Interrupts(a) PROVE HostMove
  BY <1>6, <1>0, <1>o DEF Interrupts
<1>7. ASSUME NEW a \in Agents, ChildEnds(a) PROVE HostMove
  BY <1>7, <1>0, <1>o DEF ChildEnds
<1>8. ASSUME NEW a \in Agents, ChildLeaves(a) PROVE HostMove
  BY <1>8, <1>0 DEF ChildLeaves, HostMove
<1>9. ASSUME NEW a \in Agents, StopHook(a) PROVE HostMove
  BY <1>9, <1>0 DEF StopHook, HostMove, agentVars
<1>10. ASSUME NEW a \in Agents, StopAsks(a) PROVE HostMove
  BY <1>10, <1>0 DEF StopAsks, HostMove, AgentIds
<1>11. ASSUME NEW n \in Notes, NEW a \in Agents, LooksUp(n, a, "steering") PROVE HostMove
  BY <1>11, <1>k DEF LooksUp, agentVars
<1>12. ASSUME NEW n \in Notes, NEW a \in Agents, LooksUp(n, a, "redirecting") PROVE HostMove
  BY <1>12, <1>k DEF LooksUp, agentVars
<1>13. ASSUME NEW n \in Notes, NEW a \in Agents, PublicSteers(n, a) PROVE HostMove
  BY <1>13, <1>k DEF PublicSteers
<1>14. ASSUME NEW n \in Notes, Steers(n) PROVE HostMove
  BY <1>14, <1>k DEF Steers
<1>15. ASSUME NEW n \in Notes, Captures(n) PROVE HostMove
  BY <1>15, <1>k DEF Captures, agentVars
<1>16. ASSUME NEW n \in Notes, Redirects(n) PROVE HostMove
  BY <1>16, <1>k DEF Redirects
<1>17. ASSUME NEW n \in Notes, Judges(n) PROVE HostMove
  BY <1>17, <1>k DEF Judges, agentVars
<1>18. ASSUME NEW n \in Notes, Ledgers(n) PROVE HostMove
  BY <1>18, <1>k DEF Ledgers, agentVars
<1>19. ASSUME NEW id \in AgentIds, StopLedgers(id) PROVE HostMove
  BY <1>19, <1>0 DEF StopLedgers, HostMove, agentVars
<1>20. CASE SweepLists
  BY <1>20, <1>k DEF SweepLists, agentVars
<1>21. CASE SweepCompares
  BY <1>21, <1>k DEF SweepCompares, agentVars
<1>22. CASE SweepMarks
  BY <1>22, <1>k DEF SweepMarks, agentVars
<1>23. CASE UNCHANGED steerVars
  BY <1>23, <1>k DEF steerVars, agentVars
<1> QED
  BY <1>1, <1>2, <1>3, <1>4, <1>5, <1>6, <1>7, <1>8, <1>9, <1>10, <1>11, <1>12, <1>13, <1>14,
     <1>15, <1>16, <1>17, <1>18, <1>19, <1>20, <1>21, <1>22, <1>23 DEF SteerNext, HostStep,
        NoteStep

\* The sweep keeps ids.
LEMMA SweepTyped ==
  Typed /\ [SteerNext]_steerVars => sweep' \in [at: {"idle", "listed", "marking"}, ids:
    SUBSET AgentIds]
<1> SUFFICES ASSUME Typed, [SteerNext]_steerVars
             PROVE  sweep' \in [at: {"idle", "listed", "marking"}, ids: SUBSET AgentIds]
  OBVIOUS
<1>0. sweep \in [at: {"idle", "listed", "marking"}, ids: SUBSET AgentIds]
  BY DEF Typed
<1>1. ASSUME NEW a \in Agents, ChildStarts(a)
      PROVE  sweep' \in [at: {"idle", "listed", "marking"}, ids: SUBSET AgentIds]
  BY <1>1, <1>0 DEF ChildStarts
<1>2. ASSUME NEW a \in Agents, Drain(a, "tool")
      PROVE  sweep' \in [at: {"idle", "listed", "marking"}, ids: SUBSET AgentIds]
  BY <1>2, <1>0 DEF Drain
<1>3. ASSUME NEW a \in Agents, Drain(a, "api")
      PROVE  sweep' \in [at: {"idle", "listed", "marking"}, ids: SUBSET AgentIds]
  BY <1>3, <1>0 DEF Drain
<1>4. ASSUME NEW a \in Agents, DrainLogged(a)
      PROVE  sweep' \in [at: {"idle", "listed", "marking"}, ids: SUBSET AgentIds]
  BY <1>4, <1>0 DEF DrainLogged
<1>5. ASSUME NEW a \in Agents, SlotTaken(a)
      PROVE  sweep' \in [at: {"idle", "listed", "marking"}, ids: SUBSET AgentIds]
  BY <1>5, <1>0 DEF SlotTaken
<1>6. ASSUME NEW a \in Agents, Interrupts(a)
      PROVE  sweep' \in [at: {"idle", "listed", "marking"}, ids: SUBSET AgentIds]
  BY <1>6, <1>0 DEF Interrupts
<1>7. ASSUME NEW a \in Agents, ChildEnds(a)
      PROVE  sweep' \in [at: {"idle", "listed", "marking"}, ids: SUBSET AgentIds]
  BY <1>7, <1>0 DEF ChildEnds
<1>8. ASSUME NEW a \in Agents, ChildLeaves(a)
      PROVE  sweep' \in [at: {"idle", "listed", "marking"}, ids: SUBSET AgentIds]
  BY <1>8, <1>0 DEF ChildLeaves
<1>9. ASSUME NEW a \in Agents, StopHook(a)
      PROVE  sweep' \in [at: {"idle", "listed", "marking"}, ids: SUBSET AgentIds]
  BY <1>9, <1>0 DEF StopHook
<1>10. ASSUME NEW a \in Agents, StopAsks(a)
       PROVE  sweep' \in [at: {"idle", "listed", "marking"}, ids: SUBSET AgentIds]
  BY <1>10, <1>0 DEF StopAsks
<1>11. ASSUME NEW n \in Notes, NEW a \in Agents, LooksUp(n, a, "steering")
       PROVE  sweep' \in [at: {"idle", "listed", "marking"}, ids: SUBSET AgentIds]
  BY <1>11, <1>0 DEF LooksUp
<1>12. ASSUME NEW n \in Notes, NEW a \in Agents, LooksUp(n, a, "redirecting")
       PROVE  sweep' \in [at: {"idle", "listed", "marking"}, ids: SUBSET AgentIds]
  BY <1>12, <1>0 DEF LooksUp
<1>13. ASSUME NEW n \in Notes, NEW a \in Agents, PublicSteers(n, a)
       PROVE  sweep' \in [at: {"idle", "listed", "marking"}, ids: SUBSET AgentIds]
  BY <1>13, <1>0 DEF PublicSteers
<1>14. ASSUME NEW n \in Notes, Steers(n)
       PROVE  sweep' \in [at: {"idle", "listed", "marking"}, ids: SUBSET AgentIds]
  BY <1>14, <1>0 DEF Steers
<1>15. ASSUME NEW n \in Notes, Captures(n)
       PROVE  sweep' \in [at: {"idle", "listed", "marking"}, ids: SUBSET AgentIds]
  BY <1>15, <1>0 DEF Captures
<1>16. ASSUME NEW n \in Notes, Redirects(n)
       PROVE  sweep' \in [at: {"idle", "listed", "marking"}, ids: SUBSET AgentIds]
  BY <1>16, <1>0 DEF Redirects
<1>17. ASSUME NEW n \in Notes, Judges(n)
       PROVE  sweep' \in [at: {"idle", "listed", "marking"}, ids: SUBSET AgentIds]
  BY <1>17, <1>0 DEF Judges
<1>18. ASSUME NEW n \in Notes, Ledgers(n)
       PROVE  sweep' \in [at: {"idle", "listed", "marking"}, ids: SUBSET AgentIds]
  BY <1>18, <1>0 DEF Ledgers
<1>19. ASSUME NEW id \in AgentIds, StopLedgers(id)
       PROVE  sweep' \in [at: {"idle", "listed", "marking"}, ids: SUBSET AgentIds]
  BY <1>19, <1>0 DEF StopLedgers
<1>20. CASE SweepLists
  <2>1. {IdOf[a] : a \in registered} \subseteq AgentIds
    BY DEF AgentIds, Typed
  <2> QED
    BY <1>20, <2>1 DEF SweepLists
<1>21. CASE SweepCompares
  <2>1. \A i \in DOMAIN ledger : ledger[i] \in Receipts
    BY DEF Typed
  <2>2. \A i \in Waiting : ledger[i].id \in AgentIds
    BY <2>1 DEF Waiting, Receipts
  <2> QED
    BY <1>21, <2>2 DEF SweepCompares
<1>22. CASE SweepMarks
  <2>1. ASSUME NEW id, sweep' = [sweep EXCEPT !.ids = @ \ {id}]
        PROVE  sweep' \in [at: {"idle", "listed", "marking"}, ids: SUBSET AgentIds]
    BY <1>0, <2>1
  <2>2. CASE sweep' = [at |-> "idle", ids |-> {}]
    BY <2>2
  <2> QED
    BY <1>22, <2>1, <2>2 DEF SweepMarks
<1>23. CASE UNCHANGED steerVars
  BY <1>23, <1>0 DEF steerVars
<1> QED
  BY <1>1, <1>2, <1>3, <1>4, <1>5, <1>6, <1>7, <1>8, <1>9, <1>10, <1>11, <1>12, <1>13, <1>14,
     <1>15, <1>16, <1>17, <1>18, <1>19, <1>20, <1>21, <1>22, <1>23 DEF SteerNext, HostStep,
        NoteStep

\* A tool call: it asks, sends its note, notes whom it sent to, and is over.
Asks(n) ==
  \E a \in registered :
    /\ verbs[n].at = "idle" /\ verbs'[n].agent = a /\ verbs'[n].id = IdOf[a]
    /\ \/ verbs'[n].at \in {"steering", "redirecting"} /\ verbs'[n].ref = a
       \/ verbs'[n].at = "capturing" /\ verbs'[n].ref = NoReceipt /\ InQueue(n, a)'
SendsNote(n) ==
  /\ verbs[n].at \in {"steering", "redirecting"} /\ verbs'[n].ref = verbs[n].ref
  /\ \/ verbs'[n].at = "over"
     \/ verbs'[n].at \in {"judging", "queued"} /\ InQueue(n, verbs[n].agent)'
     \/ verbs'[n].at = "judging" /\ InSlot(n, verbs[n].agent)'
FindsAgent(n) ==
  /\ verbs[n].at = "capturing" /\ verbs'[n].at = "queued"
  /\ \/ verbs'[n].ref = NoReceipt
     \/ verbs'[n].ref \in registered /\ IdOf[verbs'[n].ref] = verbs[n].id
Settles(n) ==
  /\ verbs'[n].ref = verbs[n].ref
  /\ \/ verbs[n].at = "judging" /\ verbs'[n].at = "queued" /\ ~InSlot(n, verbs[n].agent)
     \/ verbs[n].at \in {"judging", "queued"} /\ verbs'[n].at = "over"
Proceeds(n) ==
  /\ verbs'[n].agent = verbs[n].agent /\ verbs'[n].id = verbs[n].id
  /\ SendsNote(n) \/ FindsAgent(n) \/ Settles(n)
VerbStep ==
  /\ verbs' \in [Notes -> Verbs]
  /\ \A n \in Notes : verbs'[n] = verbs[n] \/ Asks(n) \/ Proceeds(n)

\* How the tool calls go on in a step.
LEMMA VerbsMove == Typed /\ VerbInv /\ [SteerNext]_steerVars => VerbStep
<1> SUFFICES ASSUME Typed /\ VerbInv, [SteerNext]_steerVars PROVE VerbStep
  OBVIOUS
<1>0. /\ verbs \in [Notes -> Verbs] /\ pendingNotes \in [Agents -> Seq(Notes)]
      /\ slot \in [Agents -> Notes \cup {NoReceipt}]
  BY DEF Typed
<1>k. UNCHANGED verbs => VerbStep
  BY <1>0 DEF VerbStep
<1>1. ASSUME NEW a \in Agents, ChildStarts(a) PROVE VerbStep
  BY <1>1, <1>k DEF ChildStarts, agentVars
<1>2. ASSUME NEW a \in Agents, Drain(a, "tool") PROVE VerbStep
  BY <1>2, <1>k DEF Drain, agentVars
<1>3. ASSUME NEW a \in Agents, Drain(a, "api") PROVE VerbStep
  BY <1>3, <1>k DEF Drain, agentVars
<1>4. ASSUME NEW a \in Agents, DrainLogged(a) PROVE VerbStep
  BY <1>4, <1>k DEF DrainLogged, agentVars
<1>5. ASSUME NEW a \in Agents, SlotTaken(a) PROVE VerbStep
  BY <1>5, <1>k DEF SlotTaken, agentVars
<1>6. ASSUME NEW a \in Agents, Interrupts(a) PROVE VerbStep
  BY <1>6, <1>k DEF Interrupts, agentVars
<1>7. ASSUME NEW a \in Agents, ChildEnds(a) PROVE VerbStep
  BY <1>7, <1>k DEF ChildEnds, agentVars
<1>8. ASSUME NEW a \in Agents, ChildLeaves(a) PROVE VerbStep
  BY <1>8, <1>k DEF ChildLeaves, agentVars
<1>9. ASSUME NEW a \in Agents, StopHook(a) PROVE VerbStep
  BY <1>9, <1>k DEF StopHook, agentVars
<1>10. ASSUME NEW a \in Agents, StopAsks(a) PROVE VerbStep
  BY <1>10, <1>k DEF StopAsks, agentVars
<1>11. ASSUME NEW n \in Notes, NEW a \in Agents, LooksUp(n, a, "steering") PROVE VerbStep
  <2>1. a \in registered /\ verbs[n].at = "idle"
        /\ verbs' = [verbs EXCEPT ![n] = [at |-> "steering", id |-> IdOf[a], agent |-> a, ref
           |-> a]]
    BY <1>11 DEF LooksUp
  <2>2. PICK w \in Verbs : w = [at |-> "steering", id |-> IdOf[a], agent |-> a, ref |-> a]
    BY <1>11 DEF Verbs, AgentIds
  <2>3. verbs' = [verbs EXCEPT ![n] = w]
    BY <2>1, <2>2
  <2>4. verbs'[n] = w /\ verbs' \in [Notes -> Verbs] /\ \A m \in Notes : m # n => verbs'[m] =
     verbs[m]
    BY <1>0, <2>3
  <2>5. Asks(n)
    BY <2>1, <2>2, <2>4 DEF Asks
  <2> QED
    BY <2>4, <2>5 DEF VerbStep
<1>12. ASSUME NEW n \in Notes, NEW a \in Agents, LooksUp(n, a, "redirecting") PROVE VerbStep
  <2>1. a \in registered /\ verbs[n].at = "idle"
        /\ verbs' = [verbs EXCEPT ![n] = [at |-> "redirecting", id |-> IdOf[a], agent |-> a, ref
           |-> a]]
    BY <1>12 DEF LooksUp
  <2>2. PICK w \in Verbs : w = [at |-> "redirecting", id |-> IdOf[a], agent |-> a, ref |-> a]
    BY <1>12 DEF Verbs, AgentIds
  <2>3. verbs' = [verbs EXCEPT ![n] = w]
    BY <2>1, <2>2
  <2>4. verbs'[n] = w /\ verbs' \in [Notes -> Verbs] /\ \A m \in Notes : m # n => verbs'[m] =
     verbs[m]
    BY <1>0, <2>3
  <2>5. Asks(n)
    BY <2>1, <2>2, <2>4 DEF Asks
  <2> QED
    BY <2>4, <2>5 DEF VerbStep
<1>13. ASSUME NEW n \in Notes, NEW a \in Agents, PublicSteers(n, a) PROVE VerbStep
  <2>1. /\ a \in registered /\ verbs[n].at = "idle" /\ Enqueue(n, a)
        /\ verbs' = [verbs EXCEPT ![n] = [at |-> "capturing", id |-> IdOf[a], agent |-> a,
                                          ref |-> NoReceipt]]
    BY <1>13 DEF PublicSteers
  <2>2. PICK w \in Verbs : w = [at |-> "capturing", id |-> IdOf[a], agent |-> a, ref |->
     NoReceipt]
    BY <1>13 DEF Verbs, AgentIds
  <2>3. verbs' = [verbs EXCEPT ![n] = w]
    BY <2>1, <2>2
  <2>4. verbs'[n] = w /\ verbs' \in [Notes -> Verbs] /\ \A m \in Notes : m # n => verbs'[m] =
     verbs[m]
    BY <1>0, <2>3
  <2>5. InQueue(n, a)'
    BY <1>13, <1>0, <2>1, Enqueued
  <2>6. Asks(n)
    BY <2>1, <2>2, <2>4, <2>5 DEF Asks
  <2> QED
    BY <2>4, <2>6 DEF VerbStep
<1>14. ASSUME NEW n \in Notes, Steers(n) PROVE VerbStep
  <2>0. verbs[n].at = "steering" /\ verbs[n].agent \in Agents
    BY <1>14 DEF Steers, VerbInv
  <2>1. CASE Enqueue(n, verbs[n].agent) /\ Moves(n, "queued")
    <3>1. PICK a \in Agents : a = verbs[n].agent
      BY <2>0
    <3>2. InQueue(n, a)'
      BY <1>14, <1>0, <2>1, <3>1, Enqueued
    <3> QED
      BY <1>14, <1>0, <2>0, <2>1, <3>1, <3>2, Moved DEF VerbStep, Proceeds, SendsNote
  <2>2. CASE Moves(n, "over")
    BY <1>14, <1>0, <2>0, <2>2, Moved DEF VerbStep, Proceeds, SendsNote
  <2> QED
    BY <1>14, <2>1, <2>2 DEF Steers
<1>15. ASSUME NEW n \in Notes, Captures(n) PROVE VerbStep
  <2>1. PICK ref : /\ verbs' = [verbs EXCEPT ![n].at = "queued", ![n].ref = ref]
                   /\ ref = NoReceipt \/ (ref \in registered /\ IdOf[ref] = verbs[n].id)
    BY <1>15 DEF Captures
  <2>2. ref \in Agents \cup {NoReceipt}
    BY <2>1 DEF Typed
  <2>3. PICK v \in Verbs : v = verbs[n]
    BY <1>0
  <2>4. PICK w \in Verbs : w = [v EXCEPT !.at = "queued", !.ref = ref]
    BY <2>2 DEF Verbs
  <2>5. w.at = "queued" /\ w.ref = ref /\ w.id = v.id /\ w.agent = v.agent
    BY <2>4 DEF Verbs
  <2>6. verbs' = [verbs EXCEPT ![n] = w]
    BY <1>0, <2>1, <2>3, <2>4
  <2>7. verbs'[n] = w /\ verbs' \in [Notes -> Verbs] /\ \A m \in Notes : m # n => verbs'[m] =
     verbs[m]
    BY <1>0, <2>6
  <2>8. verbs[n].at = "capturing"
    BY <1>15 DEF Captures
  <2>9. Proceeds(n)
    BY <2>1, <2>3, <2>5, <2>7, <2>8 DEF Proceeds, FindsAgent
  <2> QED
    BY <2>7, <2>9 DEF VerbStep
<1>16. ASSUME NEW n \in Notes, Redirects(n) PROVE VerbStep
  <2>0. verbs[n].at = "redirecting"
    BY <1>16 DEF Redirects
  <2>a. PICK a \in Agents : a = verbs[n].agent
    BY <2>0 DEF VerbInv
  <2>1. CASE Moves(n, "judging") /\ slot' = [slot EXCEPT ![a] = n]
    <3>1. slot'[a] = n
      BY <1>0, <2>1
    <3> QED
      BY <1>16, <1>0, <2>0, <2>1, <3>1, <2>a, Moved DEF VerbStep, Proceeds, SendsNote, InSlot
  <2>2. CASE Enqueue(n, a) /\ (Moves(n, "judging") \/ Moves(n, "queued"))
    <3>1. InQueue(n, a)'
      BY <1>16, <1>0, <2>2, Enqueued
    <3> QED
      BY <1>16, <1>0, <2>0, <2>2, <3>1, <2>a, Moved DEF VerbStep, Proceeds, SendsNote
  <2>3. CASE Moves(n, "over")
    BY <1>16, <1>0, <2>0, <2>3, Moved DEF VerbStep, Proceeds, SendsNote
  <2> QED
    BY <1>16, <2>a, <2>1, <2>2, <2>3 DEF Redirects
<1>17. ASSUME NEW n \in Notes, Judges(n) PROVE VerbStep
  <2>1. verbs[n].at = "judging"
    BY <1>17 DEF Judges
  <2>2. CASE Moves(n, "over")
    BY <1>17, <1>0, <2>1, <2>2, Moved DEF VerbStep, Proceeds, Settles
  <2>3. CASE slot[verbs[n].agent] # n /\ Moves(n, "queued")
    BY <1>17, <1>0, <2>1, <2>3, Moved DEF VerbStep, Proceeds, Settles, InSlot
  <2> QED
    BY <1>17, <2>2, <2>3 DEF Judges
<1>18. ASSUME NEW n \in Notes, Ledgers(n) PROVE VerbStep
  <2>1. verbs[n].at = "queued" /\ Moves(n, "over")
    BY <1>18 DEF Ledgers
  <2> QED
    BY <1>18, <1>0, <2>1, Moved DEF VerbStep, Proceeds, Settles
<1>19. ASSUME NEW id \in AgentIds, StopLedgers(id) PROVE VerbStep
  BY <1>19, <1>k DEF StopLedgers, agentVars
<1>20. CASE SweepLists
  BY <1>20, <1>k DEF SweepLists, agentVars
<1>21. CASE SweepCompares
  BY <1>21, <1>k DEF SweepCompares, agentVars
<1>22. CASE SweepMarks
  BY <1>22, <1>k DEF SweepMarks, agentVars
<1>23. CASE UNCHANGED steerVars
  BY <1>23, <1>k DEF steerVars
<1> QED
  BY <1>1, <1>2, <1>3, <1>4, <1>5, <1>6, <1>7, <1>8, <1>9, <1>10, <1>11, <1>12, <1>13, <1>14,
     <1>15, <1>16, <1>17, <1>18, <1>19, <1>20, <1>21, <1>22, <1>23 DEF SteerNext, HostStep,
        NoteStep

\* Where notes are: one enters a queue or a slot when its call sends it; one leaves to be
\* delivered, or with the end of its child; the notes of a line were in the queue.
Enters(n, a) == Early(n) /\ Sent(n, a)'
PlaceStep ==
  /\ pendingNotes' \in [Agents -> Seq(Notes)] /\ slot' \in [Agents -> Notes \cup {NoReceipt}]
  /\ line' \in [Agents -> Lines] /\ delivered' \subseteq Notes /\ delivered \subseteq delivered'
  /\ \A a \in Agents : child'[a] # "live" => line'[a] = Quiet
  /\ \A n \in Notes, a \in Agents :
       /\ InQueue(n, a)' => InQueue(n, a) \/ Enters(n, a)
       /\ InSlot(n, a)' => InSlot(n, a) \/ (Enters(n, a) /\ ~InQueue(n, a)')
       /\ InLine(n, a)' => InLine(n, a) \/ (InQueue(n, a) /\ n \in delivered')
       /\ InQueue(n, a) => InQueue(n, a)' \/ n \in delivered' \/ child'[a] = "over"
       /\ InSlot(n, a) => InSlot(n, a)' \/ n \in delivered' \/ child'[a] = "over"
  /\ \A n \in delivered' : n \in delivered \/
       \E a \in Agents : /\ InQueue(n, a) \/ InSlot(n, a)
                         /\ ~InQueue(n, a)' /\ ~InSlot(n, a)'

\* How the notes move in a step.
LEMMA PlacesMove ==
  Typed /\ HostInv /\ PlaceInv /\ VerbInv /\ [SteerNext]_steerVars => PlaceStep
<1> SUFFICES ASSUME Typed /\ HostInv /\ PlaceInv /\ VerbInv, [SteerNext]_steerVars
             PROVE  PlaceStep
  OBVIOUS
<1>0. /\ pendingNotes \in [Agents -> Seq(Notes)] /\ slot \in [Agents -> Notes \cup {NoReceipt}]
      /\ line \in [Agents -> Lines] /\ delivered \subseteq Notes /\ verbs \in [Notes -> Verbs]
      /\ child \in [Agents -> {"unborn", "live", "over"}]
      /\ \A a \in Agents : child[a] # "live" => line[a] = Quiet
      /\ \A n \in Notes, a \in Agents :
           (InQueue(n, a) => Sent(n, a)) /\ (InSlot(n, a) => ~InQueue(n, a) /\ Sent(n, a))
  BY DEF Typed, HostInv, PlaceInv
<1>q. Quiet \in Lines /\ \A n : n \notin ToSet(Quiet.notes)
  BY NoneIn DEF Quiet, Lines
<1>k. ASSUME UNCHANGED <<pendingNotes, slot, delivered>>,
             \A a \in Agents : child'[a] # "live" => line'[a] = Quiet,
             line' \in [Agents -> Lines], \A a \in Agents : line'[a] = line[a] \/ line'[a] =
                Quiet
      PROVE  PlaceStep
  <2>1. \A n \in Notes, a \in Agents : InLine(n, a)' => InLine(n, a)
    BY <1>k, <1>q DEF InLine
  <2>2. \A n \in Notes, a \in Agents :
          (InQueue(n, a)' <=> InQueue(n, a)) /\ (InSlot(n, a)' <=> InSlot(n, a))
    BY <1>k DEF InQueue, InSlot
  <2> QED
    BY <1>0, <1>k, <2>1, <2>2 DEF PlaceStep
<1>u. UNCHANGED <<pendingNotes, slot, delivered, line, child>> => PlaceStep
  BY <1>0, <1>k
<1>e. ASSUME NEW n \in Notes, NEW a \in Agents, Enqueue(n, a), Early(n), Sent(n, a)',
             UNCHANGED <<slot, delivered, line, child>>
      PROVE  PlaceStep
  <2>1. /\ pendingNotes' \in [Agents -> Seq(Notes)]
        /\ \A m \in Notes, b \in Agents : InQueue(m, b)' <=> InQueue(m, b) \/ (m = n /\ b = a)
    BY <1>0, <1>e, Enqueued
  <2>2. Enters(n, a)
    BY <1>e DEF Enters
  <2>3. \A m \in Notes, b \in Agents :
          (InLine(m, b)' <=> InLine(m, b)) /\ (InSlot(m, b)' <=> InSlot(m, b))
    BY <1>e DEF InLine, InSlot
  <2> QED
    BY <1>0, <1>e, <2>1, <2>2, <2>3 DEF PlaceStep
<1>1. ASSUME NEW a \in Agents, ChildStarts(a) PROVE PlaceStep
  BY <1>1, <1>k, <1>0 DEF ChildStarts
<1>2. ASSUME NEW a \in Agents, Drain(a, "tool") PROVE PlaceStep
  <2>1. /\ child[a] = "live" /\ line[a] = Quiet
        /\ line' = [line EXCEPT ![a] = [kind |-> "tool", notes |-> pendingNotes[a]]]
        /\ pendingNotes' = [pendingNotes EXCEPT ![a] = <<>>]
        /\ delivered' = delivered \cup ToSet(pendingNotes[a]) /\ UNCHANGED <<child, slot>>
    BY <1>2 DEF Drain
  <2>2. PICK q \in Seq(Notes) : q = pendingNotes[a]
    BY <1>0
  <2>3. PICK l \in Lines : l = [kind |-> "tool", notes |-> q]
    BY DEF Lines
  <2>4. PICK e \in Seq(Notes) : e = <<>>
    BY EmptyIsSeq
  <2>5. ToSet(q) \subseteq Notes /\ ToSet(e) = {}
    BY <2>4, ElementsAreNotes, NoneIn
  <2>6. /\ line' = [line EXCEPT ![a] = l] /\ pendingNotes' = [pendingNotes EXCEPT ![a] = e]
        /\ delivered' = delivered \cup ToSet(q)
    BY <2>1, <2>2, <2>3, <2>4
  <2>7. /\ line'[a] = l /\ pendingNotes'[a] = e
        /\ \A b \in Agents : b # a => line'[b] = line[b] /\ pendingNotes'[b] = pendingNotes[b]
    BY <1>0, <2>6
  <2>8. \A n \in Notes : InQueue(n, a) <=> n \in ToSet(q)
    BY <2>2 DEF InQueue
  <2>9. \A n \in Notes : ~InQueue(n, a)' /\ (InLine(n, a)' <=> n \in ToSet(q))
    BY <2>3, <2>5, <2>7 DEF InQueue, InLine
  <2>10. \A n \in Notes, b \in Agents : b # a =>
           (InQueue(n, b)' <=> InQueue(n, b)) /\ (InLine(n, b)' <=> InLine(n, b))
    BY <2>7 DEF InQueue, InLine
  <2>11. \A n \in Notes, b \in Agents : InSlot(n, b)' <=> InSlot(n, b)
    BY <2>1 DEF InSlot
  <2>12. \A n \in Notes : InQueue(n, a) => ~InSlot(n, a)
    BY <1>0
  <2>13. /\ pendingNotes' \in [Agents -> Seq(Notes)] /\ slot' \in [Agents -> Notes \cup
            {NoReceipt}]
         /\ line' \in [Agents -> Lines] /\ delivered' \subseteq Notes
         /\ delivered \subseteq delivered'
    BY <1>0, <2>1, <2>5, <2>6
  <2>14. \A b \in Agents : child'[b] # "live" => line'[b] = Quiet
    BY <1>0, <2>1, <2>7
  <2>15. \A n \in Notes : n \in delivered' <=> n \in delivered \/ InQueue(n, a)
    BY <2>6, <2>8
  <2> QED
    BY <1>2, <2>8, <2>9, <2>10, <2>11, <2>12, <2>13, <2>14, <2>15 DEF PlaceStep
<1>3. ASSUME NEW a \in Agents, Drain(a, "api") PROVE PlaceStep
  <2>1. /\ child[a] = "live" /\ line[a] = Quiet
        /\ line' = [line EXCEPT ![a] = [kind |-> "api", notes |-> pendingNotes[a]]]
        /\ pendingNotes' = [pendingNotes EXCEPT ![a] = <<>>]
        /\ delivered' = delivered \cup ToSet(pendingNotes[a]) /\ UNCHANGED <<child, slot>>
    BY <1>3 DEF Drain
  <2>2. PICK q \in Seq(Notes) : q = pendingNotes[a]
    BY <1>0
  <2>3. PICK l \in Lines : l = [kind |-> "api", notes |-> q]
    BY DEF Lines
  <2>4. PICK e \in Seq(Notes) : e = <<>>
    BY EmptyIsSeq
  <2>5. ToSet(q) \subseteq Notes /\ ToSet(e) = {}
    BY <2>4, ElementsAreNotes, NoneIn
  <2>6. /\ line' = [line EXCEPT ![a] = l] /\ pendingNotes' = [pendingNotes EXCEPT ![a] = e]
        /\ delivered' = delivered \cup ToSet(q)
    BY <2>1, <2>2, <2>3, <2>4
  <2>7. /\ line'[a] = l /\ pendingNotes'[a] = e
        /\ \A b \in Agents : b # a => line'[b] = line[b] /\ pendingNotes'[b] = pendingNotes[b]
    BY <1>0, <2>6
  <2>8. \A n \in Notes : InQueue(n, a) <=> n \in ToSet(q)
    BY <2>2 DEF InQueue
  <2>9. \A n \in Notes : ~InQueue(n, a)' /\ (InLine(n, a)' <=> n \in ToSet(q))
    BY <2>3, <2>5, <2>7 DEF InQueue, InLine
  <2>10. \A n \in Notes, b \in Agents : b # a =>
           (InQueue(n, b)' <=> InQueue(n, b)) /\ (InLine(n, b)' <=> InLine(n, b))
    BY <2>7 DEF InQueue, InLine
  <2>11. \A n \in Notes, b \in Agents : InSlot(n, b)' <=> InSlot(n, b)
    BY <2>1 DEF InSlot
  <2>12. \A n \in Notes : InQueue(n, a) => ~InSlot(n, a)
    BY <1>0
  <2>13. /\ pendingNotes' \in [Agents -> Seq(Notes)] /\ slot' \in [Agents -> Notes \cup
            {NoReceipt}]
         /\ line' \in [Agents -> Lines] /\ delivered' \subseteq Notes
         /\ delivered \subseteq delivered'
    BY <1>0, <2>1, <2>5, <2>6
  <2>14. \A b \in Agents : child'[b] # "live" => line'[b] = Quiet
    BY <1>0, <2>1, <2>7
  <2>15. \A n \in Notes : n \in delivered' <=> n \in delivered \/ InQueue(n, a)
    BY <2>6, <2>8
  <2> QED
    BY <1>3, <2>8, <2>9, <2>10, <2>11, <2>12, <2>13, <2>14, <2>15 DEF PlaceStep
<1>4. ASSUME NEW a \in Agents, DrainLogged(a) PROVE PlaceStep
  <2>1. line' = [line EXCEPT ![a] = Quiet] /\ UNCHANGED <<pendingNotes, slot, delivered, child>>
    BY <1>4 DEF DrainLogged
  <2>2. line'[a] = Quiet /\ \A b \in Agents : b # a => line'[b] = line[b]
    BY <1>0, <2>1
  <2>3. line' \in [Agents -> Lines]
    BY <1>0, <1>q, <2>1
  <2>4. \A b \in Agents : child'[b] # "live" => line'[b] = Quiet
    BY <1>0, <2>1, <2>2
  <2> QED
    BY <1>k, <2>1, <2>2, <2>3, <2>4
<1>5. ASSUME NEW a \in Agents, SlotTaken(a) PROVE PlaceStep
  <2>1. /\ slot' = [slot EXCEPT ![a] = NoReceipt] /\ delivered' = delivered \cup {slot[a]}
        /\ slot[a] # NoReceipt /\ UNCHANGED <<child, pendingNotes, line>>
    BY <1>5 DEF SlotTaken
  <2>2. PICK m \in Notes : m = slot[a]
    BY <1>0, <2>1
  <2>3. slot'[a] = NoReceipt /\ \A b \in Agents : b # a => slot'[b] = slot[b]
    BY <1>0, <2>1
  <2>4. \A n \in Notes : ~InSlot(n, a)' /\ (InSlot(n, a) => n = m)
    BY <2>2, <2>3, SteerAssumption DEF InSlot
  <2>5. \A n \in Notes, b \in Agents : b # a => (InSlot(n, b)' <=> InSlot(n, b))
    BY <2>3 DEF InSlot
  <2>6. \A n \in Notes, b \in Agents :
          (InQueue(n, b)' <=> InQueue(n, b)) /\ (InLine(n, b)' <=> InLine(n, b))
    BY <2>1 DEF InQueue, InLine
  <2>7. InSlot(m, a) /\ ~InQueue(m, a)
    BY <1>0, <2>2 DEF InSlot
  <2>8. /\ pendingNotes' \in [Agents -> Seq(Notes)] /\ slot' \in [Agents -> Notes \cup
           {NoReceipt}]
        /\ line' \in [Agents -> Lines] /\ delivered' \subseteq Notes
        /\ delivered \subseteq delivered'
    BY <1>0, <2>1, <2>2
  <2>9. \A b \in Agents : child'[b] # "live" => line'[b] = Quiet
    BY <1>0, <2>1
  <2>10. \A n \in delivered' : n \in delivered \/ n = m
    BY <2>1, <2>2
  <2>11. m \in delivered'
    BY <2>1, <2>2
  <2> QED
    BY <1>5, <2>4, <2>5, <2>6, <2>7, <2>8, <2>9, <2>10, <2>11 DEF PlaceStep
<1>6. ASSUME NEW a \in Agents, Interrupts(a) PROVE PlaceStep
  <2>1. /\ child' = [child EXCEPT ![a] = "over"]
        /\ pendingNotes' = [pendingNotes EXCEPT ![a] = <<>>]
        /\ slot' = [slot EXCEPT ![a] = NoReceipt] /\ line[a] = Quiet
        /\ UNCHANGED <<line, delivered>>
    BY <1>6 DEF Interrupts
  <2>2. PICK e \in Seq(Notes) : e = <<>>
    BY EmptyIsSeq
  <2>3. pendingNotes' = [pendingNotes EXCEPT ![a] = e] /\ ToSet(e) = {}
    BY <2>1, <2>2, NoneIn
  <2>4. /\ child'[a] = "over" /\ pendingNotes'[a] = e /\ slot'[a] = NoReceipt
        /\ \A b \in Agents : b # a => child'[b] = child[b] /\ slot'[b] = slot[b]
        /\ \A b \in Agents : b # a => pendingNotes'[b] = pendingNotes[b]
    BY <1>0, <2>1, <2>3
  <2>5. \A n \in Notes : ~InQueue(n, a)' /\ ~InSlot(n, a)'
    BY <2>3, <2>4, SteerAssumption DEF InQueue, InSlot
  <2>6. \A n \in Notes, b \in Agents : b # a =>
          (InQueue(n, b)' <=> InQueue(n, b)) /\ (InSlot(n, b)' <=> InSlot(n, b))
    BY <2>4 DEF InQueue, InSlot
  <2>7. \A n \in Notes, b \in Agents : InLine(n, b)' <=> InLine(n, b)
    BY <2>1 DEF InLine
  <2>8. /\ pendingNotes' \in [Agents -> Seq(Notes)] /\ slot' \in [Agents -> Notes \cup
           {NoReceipt}]
        /\ line' \in [Agents -> Lines] /\ delivered' = delivered /\ delivered \subseteq Notes
    BY <1>0, <2>1, <2>3
  <2>9. \A b \in Agents : child'[b] # "live" => line'[b] = Quiet
    BY <1>0, <2>1, <2>4
  <2> QED
    BY <1>6, <2>4, <2>5, <2>6, <2>7, <2>8, <2>9 DEF PlaceStep
<1>7. ASSUME NEW a \in Agents, ChildEnds(a) PROVE PlaceStep
  BY <1>7, <1>k, <1>0 DEF ChildEnds
<1>8. ASSUME NEW a \in Agents, ChildLeaves(a) PROVE PlaceStep
  BY <1>8, <1>u DEF ChildLeaves, agentVars
<1>9. ASSUME NEW a \in Agents, StopHook(a) PROVE PlaceStep
  BY <1>9, <1>u DEF StopHook, agentVars
<1>10. ASSUME NEW a \in Agents, StopAsks(a) PROVE PlaceStep
  BY <1>10, <1>u DEF StopAsks, agentVars
<1>11. ASSUME NEW n \in Notes, NEW a \in Agents, LooksUp(n, a, "steering") PROVE PlaceStep
  BY <1>11, <1>u DEF LooksUp, agentVars
<1>12. ASSUME NEW n \in Notes, NEW a \in Agents, LooksUp(n, a, "redirecting") PROVE PlaceStep
  BY <1>12, <1>u DEF LooksUp, agentVars
<1>13. ASSUME NEW n \in Notes, NEW a \in Agents, PublicSteers(n, a) PROVE PlaceStep
  <2>1. /\ verbs[n].at = "idle" /\ Enqueue(n, a) /\ UNCHANGED <<child, slot, line, delivered>>
        /\ verbs' = [verbs EXCEPT ![n] = [at |-> "capturing", id |-> IdOf[a], agent |-> a,
                                          ref |-> NoReceipt]]
    BY <1>13 DEF PublicSteers
  <2>2. Early(n) /\ Sent(n, a)'
    BY <1>0, <2>1 DEF Early, Sent
  <2> QED
    BY <1>13, <1>e, <2>1, <2>2
<1>14. ASSUME NEW n \in Notes, Steers(n) PROVE PlaceStep
  <2>0. verbs[n].at = "steering" /\ UNCHANGED <<child, slot, line, delivered>>
    BY <1>14 DEF Steers
  <2>1. PICK a \in Agents : a = verbs[n].agent
    BY <2>0 DEF VerbInv
  <2>2. CASE Enqueue(n, a) /\ Moves(n, "queued")
    <3>1. Early(n) /\ Sent(n, a)'
      BY <1>14, <1>0, <2>0, <2>1, <2>2, Moved DEF Early, Sent
    <3> QED
      BY <1>14, <1>e, <2>0, <2>2, <3>1
  <2>3. CASE UNCHANGED pendingNotes
    BY <1>u, <2>0, <2>3
  <2> QED
    BY <1>14, <2>1, <2>2, <2>3 DEF Steers
<1>15. ASSUME NEW n \in Notes, Captures(n) PROVE PlaceStep
  BY <1>15, <1>u DEF Captures, agentVars
<1>16. ASSUME NEW n \in Notes, Redirects(n) PROVE PlaceStep
  <2>0. verbs[n].at = "redirecting" /\ UNCHANGED <<child, line, delivered>>
    BY <1>16 DEF Redirects
  <2>1. PICK a \in Agents : a = verbs[n].agent
    BY <2>0 DEF VerbInv
  <2>2. CASE Enqueue(n, a) /\ (Moves(n, "queued") \/ Moves(n, "judging")) /\ UNCHANGED slot
    <3>1. Early(n) /\ Sent(n, a)'
      BY <1>16, <1>0, <2>0, <2>1, <2>2, Moved DEF Early, Sent
    <3> QED
      BY <1>16, <1>e, <2>0, <2>2, <3>1
  <2>3. CASE UNCHANGED <<pendingNotes, slot>>
    BY <1>u, <2>0, <2>3
  <2>4. CASE slot[a] = NoReceipt /\ slot' = [slot EXCEPT ![a] = n] /\ Moves(n, "judging")
             /\ UNCHANGED pendingNotes
    <3>1. Early(n) /\ Sent(n, a)'
      BY <1>16, <1>0, <2>0, <2>1, <2>4, Moved DEF Early, Sent
    <3>2. slot'[a] = n /\ \A b \in Agents : b # a => slot'[b] = slot[b]
      BY <1>0, <2>4
    <3>3. slot' \in [Agents -> Notes \cup {NoReceipt}]
      BY <1>0, <2>4
    <3>4. \A m \in Notes : (InSlot(m, a)' <=> m = n) /\ ~InSlot(m, a)
      BY <2>4, <3>2, SteerAssumption DEF InSlot
    <3>5. \A m \in Notes, b \in Agents : b # a => (InSlot(m, b)' <=> InSlot(m, b))
      BY <3>2 DEF InSlot
    <3>6. \A m \in Notes, b \in Agents :
            (InQueue(m, b)' <=> InQueue(m, b)) /\ (InLine(m, b)' <=> InLine(m, b))
      BY <2>0, <2>4 DEF InQueue, InLine
    <3>7. Enters(n, a) /\ ~InQueue(n, a)'
      BY <1>0, <3>1, <3>6 DEF Enters, Sent
    <3>8. \A b \in Agents : child'[b] # "live" => line'[b] = Quiet
      BY <1>0, <2>0
    <3>9. /\ pendingNotes' \in [Agents -> Seq(Notes)] /\ line' \in [Agents -> Lines]
          /\ delivered' = delivered /\ delivered \subseteq Notes
      BY <1>0, <2>0, <2>4
    <3> QED
      BY <1>16, <3>3, <3>4, <3>5, <3>6, <3>7, <3>8, <3>9 DEF PlaceStep
  <2> QED
    BY <1>16, <2>1, <2>2, <2>3, <2>4 DEF Redirects
<1>17. ASSUME NEW n \in Notes, Judges(n) PROVE PlaceStep
  BY <1>17, <1>u DEF Judges, agentVars
<1>18. ASSUME NEW n \in Notes, Ledgers(n) PROVE PlaceStep
  BY <1>18, <1>u DEF Ledgers, agentVars
<1>19. ASSUME NEW id \in AgentIds, StopLedgers(id) PROVE PlaceStep
  BY <1>19, <1>u DEF StopLedgers, agentVars
<1>20. CASE SweepLists
  BY <1>20, <1>u DEF SweepLists, agentVars
<1>21. CASE SweepCompares
  BY <1>21, <1>u DEF SweepCompares, agentVars
<1>22. CASE SweepMarks
  BY <1>22, <1>u DEF SweepMarks, agentVars
<1>23. CASE UNCHANGED steerVars
  BY <1>23, <1>u DEF steerVars, agentVars
<1> QED
  BY <1>1, <1>2, <1>3, <1>4, <1>5, <1>6, <1>7, <1>8, <1>9, <1>10, <1>11, <1>12, <1>13, <1>14,
     <1>15, <1>16, <1>17, <1>18, <1>19, <1>20, <1>21, <1>22, <1>23 DEF SteerNext, HostStep,
        NoteStep

-----------------------------------------------------------------------------
(* The ledger.                                                             *)

\* A receipt is of a note.
LEMMA ReceiptIs ==
  ASSUME NEW s \in Seq(Receipts), NEW i \in 1 .. Len(s)
  PROVE  s[i] \in Receipts /\ s[i].note \in Notes
<1>1. s[i] \in Receipts
  OBVIOUS
<1> QED
  BY <1>1 DEF Receipts

\* A receipt that is marked keeps what it is of, and its place.
LEMMA MarkedIs ==
  ASSUME ledger \in Seq(Receipts), NEW S, NEW st \in States
  PROVE  /\ Marked(S, st) \in Seq(Receipts) /\ Len(Marked(S, st)) = Len(ledger)
         /\ \A i \in 1 .. Len(ledger) :
              /\ Marked(S, st)[i].note = ledger[i].note /\ Marked(S, st)[i].id = ledger[i].id
              /\ Marked(S, st)[i].ref = ledger[i].ref
              /\ Marked(S, st)[i].state = IF i \in S THEN st ELSE ledger[i].state
<1>1. Len(ledger) \in Nat /\ DOMAIN ledger = 1 .. Len(ledger)
  OBVIOUS
<1>2. \A i \in 1 .. Len(ledger) :
        LET r == [ledger[i] EXCEPT !.state = st]
        IN  /\ r \in Receipts /\ r.note = ledger[i].note /\ r.id = ledger[i].id
            /\ r.ref = ledger[i].ref /\ r.state = st
  <2> TAKE i \in 1 .. Len(ledger)
  <2>1. PICK q \in Receipts : q = ledger[i]
    BY <1>1
  <2>2. [q EXCEPT !.state = st] \in Receipts
    BY DEF Receipts
  <2> QED
    BY <2>1, <2>2 DEF Receipts
<1>3. \A i \in 1 .. Len(ledger) : ledger[i] \in Receipts
  BY <1>1
<1>4. Marked(S, st) = [i \in 1 .. Len(ledger) |->
                         IF i \in S THEN [ledger[i] EXCEPT !.state = st] ELSE ledger[i]]
  BY <1>1 DEF Marked
<1>5. \A i \in 1 .. Len(ledger) :
        Marked(S, st)[i] = IF i \in S THEN [ledger[i] EXCEPT !.state = st] ELSE ledger[i]
  BY <1>4
<1>6. Marked(S, st) \in [1 .. Len(ledger) -> Receipts]
  BY <1>2, <1>3, <1>4
<1>7. Marked(S, st) \in Seq(Receipts) /\ Len(Marked(S, st)) = Len(ledger)
  BY <1>1, <1>6
<1> QED
  BY <1>2, <1>5, <1>7

\* A receipt that is recorded is the last, and at the bound the first one goes.
LEMMA RecordedIs ==
  ASSUME ledger \in Seq(Receipts), Len(ledger) <= MaxReceipts, NEW r \in Receipts
  PROVE  \E d \in {0, 1} :
           /\ Recorded(r) \in Seq(Receipts) /\ Len(Recorded(r)) = Len(ledger) + 1 - d
           /\ Len(Recorded(r)) <= MaxReceipts
           /\ \A i \in 1 .. Len(ledger) - d : Recorded(r)[i] = ledger[i + d]
           /\ Recorded(r)[Len(ledger) + 1 - d] = r
<1>0. Append(ledger, r) \in Seq(Receipts)
  OBVIOUS
<1>1. PICK all \in Seq(Receipts) : all = Append(ledger, r)
  BY <1>0
<1>2. /\ Len(ledger) \in Nat /\ Len(all) = Len(ledger) + 1 /\ all[Len(ledger) + 1] = r
      /\ \A i \in 1 .. Len(ledger) : all[i] = ledger[i]
  BY <1>1
<1>3. CASE Len(all) > MaxReceipts
  <2>1. Recorded(r) = Tail(all)
    BY <1>1, <1>3 DEF Recorded
  <2>2. /\ Tail(all) \in Seq(Receipts) /\ Len(Tail(all)) = Len(ledger)
        /\ \A i \in 1 .. Len(ledger) : Tail(all)[i] = all[i + 1]
    BY <1>2
  <2>3. Len(ledger) >= 1
    BY <1>2, <1>3, SteerAssumption
  <2>4. \A i \in 1 .. Len(ledger) - 1 : Tail(all)[i] = ledger[i + 1]
    BY <1>2, <2>2
  <2>5. Tail(all)[Len(ledger)] = r
    BY <1>2, <2>2, <2>3
  <2>6. Len(ledger) + 1 - 1 = Len(ledger)
    BY <1>2
  <2> QED
    BY <2>1, <2>2, <2>4, <2>5, <2>6
<1>4. CASE ~(Len(all) > MaxReceipts)
  <2>1. Recorded(r) = all
    BY <1>1, <1>4 DEF Recorded
  <2>2. Len(all) <= MaxReceipts
    BY <1>2, <1>4, SteerAssumption
  <2>3. Len(ledger) + 1 - 0 = Len(ledger) + 1 /\ Len(ledger) - 0 = Len(ledger)
        /\ \A i \in 1 .. Len(ledger) : i + 0 = i
    BY <1>2
  <2> QED
    BY <1>2, <2>1, <2>2, <2>3
<1> QED
  BY <1>3, <1>4

\* What one step does to the receipts.
Lands(i, a) ==
  /\ line[a] # Quiet /\ i \in Drainable(a)
  /\ InLine(ledger[i].note, a) \/ (FrameVisible => ledger[i].ref = a)
Marks ==
  /\ Len(ledger') = Len(ledger)
  /\ \A i \in 1 .. Len(ledger) :
       /\ ledger'[i].note = ledger[i].note /\ ledger'[i].id = ledger[i].id
       /\ ledger'[i].ref = ledger[i].ref
       /\ \/ ledger'[i].state = ledger[i].state
          \/ ledger[i].state = "queued" /\ ledger'[i].state \in {"unconfirmed", "superseded"}
          \/ ledger'[i].state = "landed" /\ \E a \in Agents : Lands(i, a)
Adds(n) ==
  \E d \in {0, 1}, r \in Receipts :
    /\ Len(ledger') = Len(ledger) + 1 - d
    /\ \A i \in 1 .. Len(ledger) - d : ledger'[i] = ledger[i + d]
    /\ ledger'[Len(ledger) + 1 - d] = r
    /\ r.note = n /\ r.id = verbs[n].id /\ r.ref = verbs[n].ref
    /\ \/ r.state = "queued" /\ verbs[n].at = "queued"
       \/ r.state = "redirected" /\ verbs[n].at = "judging"
    /\ verbs'[n].at = "over" /\ verbs'[n].id = verbs[n].id /\ verbs'[n].ref = verbs[n].ref
LedgerStep ==
  /\ ledger' \in Seq(Receipts) /\ Len(ledger') <= MaxReceipts
  /\ Marks \/ \E n \in Notes : Adds(n)

\* A receipt is recorded as its call is over.
LEMMA RecordAdds ==
  ASSUME Typed, VerbInv, NEW n \in Notes, NEW s \in {"queued", "redirected"},
         Record(n, s), Moves(n, "over"), s = "queued" => verbs[n].at = "queued",
         s = "redirected" => verbs[n].at = "judging"
  PROVE  LedgerStep
<1>0. ledger \in Seq(Receipts) /\ Len(ledger) <= MaxReceipts /\ verbs \in [Notes -> Verbs]
  BY DEF Typed
<1>1. verbs[n].at \in {"queued", "judging"}
  OBVIOUS
<1>2. verbs[n].id \in AgentIds /\ verbs[n].ref \in Agents \cup {NoReceipt}
  BY <1>0, <1>1 DEF VerbInv, AgentIds, Verbs
<1>3. PICK r \in Receipts : r = [note |-> n, id |-> verbs[n].id, ref |-> verbs[n].ref, state |-> s]
  BY <1>2 DEF Receipts, States
<1>4. r.note = n /\ r.id = verbs[n].id /\ r.ref = verbs[n].ref /\ r.state = s
  BY <1>3
<1>5. ledger' = Recorded(r)
  BY <1>3 DEF Record
<1>6. verbs'[n].at = "over" /\ verbs'[n].id = verbs[n].id /\ verbs'[n].ref = verbs[n].ref
  BY <1>0, Moved
<1>7. PICK d \in {0, 1} :
           /\ ledger' \in Seq(Receipts) /\ Len(ledger') = Len(ledger) + 1 - d
           /\ Len(ledger') <= MaxReceipts
           /\ \A i \in 1 .. Len(ledger) - d : ledger'[i] = ledger[i + d]
           /\ ledger'[Len(ledger) + 1 - d] = r
  BY <1>0, <1>5, RecordedIs
<1>8. Adds(n)
  BY <1>4, <1>6, <1>7 DEF Adds
<1> QED
  BY <1>7, <1>8 DEF LedgerStep

\* How the receipts change in a step.
LEMMA LedgersMove == Typed /\ VerbInv /\ [SteerNext]_steerVars => LedgerStep
<1> SUFFICES ASSUME Typed /\ VerbInv, [SteerNext]_steerVars PROVE LedgerStep
  OBVIOUS
<1>0. /\ ledger \in Seq(Receipts) /\ Len(ledger) <= MaxReceipts /\ line \in [Agents -> Lines]
  BY DEF Typed
<1>k. UNCHANGED ledger => LedgerStep
  BY <1>0 DEF LedgerStep, Marks
<1>g. ASSUME NEW id, NEW st \in {"unconfirmed", "superseded"},
             ledger' = Marked({i \in Waiting : ledger[i].id = id}, st)
      PROVE  LedgerStep
  <2>1. st \in States
    BY DEF States
  <2>2. PICK S : S = {i \in Waiting : ledger[i].id = id}
    OBVIOUS
  <2>3. \A i \in S : ledger[i].state = "queued"
    BY <2>2 DEF Waiting
  <2> QED
    BY <1>0, <1>g, <2>1, <2>2, <2>3, MarkedIs DEF LedgerStep, Marks
<1>l. ASSUME NEW a \in Agents, NEW S, \A i \in S : Lands(i, a), ledger' = Marked(S, "landed")
      PROVE  LedgerStep
  <2>1. "landed" \in States
    BY DEF States
  <2> QED
    BY <1>0, <1>l, <2>1, MarkedIs DEF LedgerStep, Marks
<1>1. ASSUME NEW a \in Agents, ChildStarts(a) PROVE LedgerStep
  BY <1>1, <1>k DEF ChildStarts
<1>2. ASSUME NEW a \in Agents, Drain(a, "tool") PROVE LedgerStep
  BY <1>2, <1>k DEF Drain
<1>3. ASSUME NEW a \in Agents, Drain(a, "api") PROVE LedgerStep
  BY <1>3, <1>k DEF Drain
<1>4. ASSUME NEW a \in Agents, DrainLogged(a) PROVE LedgerStep
  <2>0. line[a] # Quiet
    BY <1>4 DEF DrainLogged, Quiet
  <2>1. ASSUME NEW k \in 1 .. Len(line[a].notes),
               ledger' = Marked(FromPreview(a, ToSet(SubSeq(line[a].notes, 1, k))), "landed")
        PROVE  LedgerStep
    <3>1. PICK q \in Seq(Notes) : q = line[a].notes
      BY <1>0 DEF Lines
    <3>2. \A m \in ToSet(SubSeq(q, 1, k)) : m \in ToSet(q)
      <4>1. k \in 1 .. Len(q)
        BY <2>1, <3>1
      <4>2. /\ DOMAIN SubSeq(q, 1, k) = 1 .. k
            /\ \A i \in 1 .. k : SubSeq(q, 1, k)[i] = q[i] /\ i \in DOMAIN q
        BY <4>1
      <4> QED
        BY <4>2 DEF ToSet
    <3>3. PICK shown : shown = ToSet(SubSeq(line[a].notes, 1, k))
      OBVIOUS
    <3>4. \A m \in shown : InLine(m, a)
      BY <3>1, <3>2, <3>3 DEF InLine
    <3>5. \A i \in FromPreview(a, shown) : Lands(i, a)
      BY <2>0, <3>4 DEF FromPreview, SameBatch, Lands
    <3> QED
      BY <1>l, <2>1, <3>3, <3>5
  <2>2. CASE ledger' = Marked(OfAgent(a), "landed")
    <3>1. \A i \in OfAgent(a) : Lands(i, a)
      BY <2>0 DEF OfAgent, Lands
    <3> QED
      BY <1>l, <2>2, <3>1
  <2> QED
    BY <1>4, <2>1, <2>2 DEF DrainLogged
<1>5. ASSUME NEW a \in Agents, SlotTaken(a) PROVE LedgerStep
  BY <1>5, <1>k DEF SlotTaken
<1>6. ASSUME NEW a \in Agents, Interrupts(a) PROVE LedgerStep
  BY <1>6, <1>k DEF Interrupts
<1>7. ASSUME NEW a \in Agents, ChildEnds(a) PROVE LedgerStep
  BY <1>7, <1>k DEF ChildEnds
<1>8. ASSUME NEW a \in Agents, ChildLeaves(a) PROVE LedgerStep
  BY <1>8, <1>k DEF ChildLeaves
<1>9. ASSUME NEW a \in Agents, StopHook(a) PROVE LedgerStep
  BY <1>9, <1>g DEF StopHook, Gone
<1>10. ASSUME NEW a \in Agents, StopAsks(a) PROVE LedgerStep
  BY <1>10, <1>k DEF StopAsks
<1>11. ASSUME NEW n \in Notes, NEW a \in Agents, LooksUp(n, a, "steering") PROVE LedgerStep
  BY <1>11, <1>k DEF LooksUp
<1>12. ASSUME NEW n \in Notes, NEW a \in Agents, LooksUp(n, a, "redirecting") PROVE LedgerStep
  BY <1>12, <1>k DEF LooksUp
<1>13. ASSUME NEW n \in Notes, NEW a \in Agents, PublicSteers(n, a) PROVE LedgerStep
  BY <1>13, <1>k DEF PublicSteers
<1>14. ASSUME NEW n \in Notes, Steers(n) PROVE LedgerStep
  BY <1>14, <1>k DEF Steers
<1>15. ASSUME NEW n \in Notes, Captures(n) PROVE LedgerStep
  BY <1>15, <1>k DEF Captures
<1>16. ASSUME NEW n \in Notes, Redirects(n) PROVE LedgerStep
  BY <1>16, <1>k DEF Redirects
<1>17. ASSUME NEW n \in Notes, Judges(n) PROVE LedgerStep
  <2>1. CASE UNCHANGED ledger
    BY <1>k, <2>1
  <2>2. CASE Record(n, "redirected") /\ Moves(n, "over")
    BY <1>17, <2>2, RecordAdds DEF Judges
  <2> QED
    BY <1>17, <2>1, <2>2 DEF Judges
<1>18. ASSUME NEW n \in Notes, Ledgers(n) PROVE LedgerStep
  BY <1>18, RecordAdds DEF Ledgers
<1>19. ASSUME NEW id \in AgentIds, StopLedgers(id) PROVE LedgerStep
  BY <1>19, <1>g DEF StopLedgers, Superseded
<1>20. CASE SweepLists
  BY <1>20, <1>k DEF SweepLists
<1>21. CASE SweepCompares
  BY <1>21, <1>k DEF SweepCompares
<1>22. CASE SweepMarks
  <2>1. CASE UNCHANGED ledger
    BY <1>k, <2>1
  <2>2. ASSUME NEW id, Gone(id)
        PROVE  LedgerStep
    BY <1>g, <2>2 DEF Gone
  <2> QED
    BY <1>22, <2>1, <2>2 DEF SweepMarks
<1>23. CASE UNCHANGED steerVars
  BY <1>23, <1>k DEF steerVars
<1> QED
  BY <1>1, <1>2, <1>3, <1>4, <1>5, <1>6, <1>7, <1>8, <1>9, <1>10, <1>11, <1>12, <1>13, <1>14,
     <1>15, <1>16, <1>17, <1>18, <1>19, <1>20, <1>21, <1>22, <1>23 DEF SteerNext, HostStep,
        NoteStep

-----------------------------------------------------------------------------
(* What a step of each part keeps.                                         *)

\* A note that was sent stays with its child.
LEMMA SentStays ==
  ASSUME VerbStep, NEW n \in Notes, ~Early(n)
  PROVE  ~Early(n)' /\ verbs'[n].agent = verbs[n].agent /\ verbs'[n].id = verbs[n].id
<1>1. CASE verbs'[n] = verbs[n]
  BY <1>1 DEF Early
<1>2. CASE Asks(n)
  BY <1>2 DEF Asks, Early
<1>3. CASE Proceeds(n)
  BY <1>3 DEF Proceeds, SendsNote, FindsAgent, Settles, Early
<1> QED
  BY <1>1, <1>2, <1>3 DEF VerbStep

\* A note stays in one place.
LEMMA PlacesKept ==
  ASSUME Typed, PlaceInv, PlaceStep, VerbStep
  PROVE  PlaceInv'
<1>1. ASSUME NEW n \in Notes, NEW a \in Agents, Sent(n, a)
      PROVE  Sent(n, a)' /\ ~Early(n)'
  BY <1>1, SentStays DEF Sent
<1>2. \A n \in delivered : ~Early(n)
  BY DEF PlaceInv
<1>3. ASSUME NEW n \in Notes, NEW a \in Agents, NEW b \in Agents, Sent(n, a), Sent(n, b)
      PROVE  a = b
  BY <1>3 DEF Sent
<1>4. ASSUME NEW n \in Notes, NEW a \in Agents, InQueue(n, a)'
      PROVE  n \notin delivered' /\ Sent(n, a)'
  <2>1. CASE InQueue(n, a)
    <3>1. Sent(n, a) /\ n \notin delivered
      BY <2>1 DEF PlaceInv
    <3>2. n \notin delivered'
      BY <1>3, <1>4, <3>1 DEF PlaceInv, PlaceStep
    <3> QED
      BY <1>1, <3>1, <3>2
  <2>2. CASE Enters(n, a)
    BY <1>2, <2>2 DEF PlaceInv, PlaceStep, Enters, Sent
  <2> QED
    BY <1>4, <2>1, <2>2 DEF PlaceStep
<1>5. ASSUME NEW n \in Notes, NEW a \in Agents, InSlot(n, a)'
      PROVE  n \notin delivered' /\ ~InQueue(n, a)' /\ Sent(n, a)'
  <2>1. CASE InSlot(n, a)
    <3>1. Sent(n, a) /\ n \notin delivered /\ ~InQueue(n, a)
      BY <2>1 DEF PlaceInv
    <3>2. n \notin delivered'
      BY <1>3, <1>5, <3>1 DEF PlaceInv, PlaceStep
    <3>3. ~InQueue(n, a)'
      BY <3>1 DEF PlaceStep, Enters, Sent
    <3> QED
      BY <1>1, <3>1, <3>2, <3>3
  <2>2. CASE Enters(n, a) /\ ~InQueue(n, a)'
    BY <1>2, <2>2 DEF PlaceInv, PlaceStep, Enters, Sent
  <2> QED
    BY <1>5, <2>1, <2>2 DEF PlaceStep
<1>6. ASSUME NEW n \in Notes, NEW a \in Agents, InLine(n, a)'
      PROVE  n \in delivered' /\ Sent(n, a)'
  BY <1>1, <1>6 DEF PlaceInv, PlaceStep
<1>7. ASSUME NEW n \in delivered'
      PROVE  ~Early(n)'
  <2>1. n \in Notes
    BY DEF PlaceStep
  <2>2. n \in delivered \/ \E a \in Agents : InQueue(n, a) \/ InSlot(n, a)
    BY DEF PlaceStep
  <2>3. ~Early(n)
    BY <1>2, <2>1, <2>2 DEF PlaceInv, Sent
  <2> QED
    BY <2>1, <2>3, SentStays
<1> QED
  BY <1>4, <1>5, <1>6, <1>7 DEF PlaceInv

\* A call keeps whom it sends to, and what it noted.
LEMMA VerbsKept ==
  ASSUME Typed, HostInv, VerbInv, VerbStep, HostMove
  PROVE  VerbInv'
<1>0. registered \subseteq Agents
  BY DEF Typed
<1> SUFFICES ASSUME NEW n \in Notes
             PROVE  LET v == verbs'[n]
                    IN  /\ v.at # "idle" => v.agent \in Agents /\ v.id = IdOf[v.agent]
                        /\ v.at \in {"steering", "redirecting"} => v.ref = v.agent
                        /\ PromptCapture => v.ref \in {v.agent, NoReceipt}
                        /\ PromptCapture /\ v.at = "capturing" =>
                             \A b \in registered' : IdOf[b] = v.id => b = v.agent
  BY DEF VerbInv
<1>v. LET v == verbs[n]
      IN  /\ v.at # "idle" => v.agent \in Agents /\ v.id = IdOf[v.agent]
          /\ v.at \in {"steering", "redirecting"} => v.ref = v.agent
          /\ PromptCapture => v.ref \in {v.agent, NoReceipt}
          /\ PromptCapture /\ v.at = "capturing" =>
               \A b \in registered : IdOf[b] = v.id => b = v.agent
  BY DEF VerbInv
<1>1. CASE verbs'[n] = verbs[n]
  <2>1. ASSUME PromptCapture, verbs[n].at = "capturing", NEW b \in registered',
               IdOf[b] = verbs[n].id
        PROVE  b = verbs[n].agent
    BY <1>v, <2>1 DEF HostMove
  <2> QED
    BY <1>v, <1>1, <2>1
<1>2. CASE Asks(n) /\ verbs'[n] # verbs[n]
  <2>1. PICK a \in registered :
          /\ verbs'[n].agent = a /\ verbs'[n].id = IdOf[a]
          /\ \/ verbs'[n].at \in {"steering", "redirecting"} /\ verbs'[n].ref = a
             \/ verbs'[n].at = "capturing" /\ verbs'[n].ref = NoReceipt
    BY <1>2 DEF Asks
  <2>2. registered' \subseteq registered
    BY <1>2 DEF HostMove
  <2>3. \A b \in registered' : IdOf[b] = IdOf[a] => b = a
    BY <2>2 DEF HostInv
  <2> QED
    BY <1>0, <2>1, <2>3
<1>3. CASE Proceeds(n)
  <2>1. CASE SendsNote(n)
    BY <1>v, <1>3, <2>1 DEF Proceeds, SendsNote
  <2>2. CASE FindsAgent(n)
    BY <1>v, <1>3, <2>2 DEF Proceeds, FindsAgent
  <2>3. CASE Settles(n)
    BY <1>v, <1>3, <2>3 DEF Proceeds, Settles
  <2> QED
    BY <1>3, <2>1, <2>2, <2>3 DEF Proceeds
<1> QED
  BY <1>1, <1>2, <1>3 DEF VerbStep

\* A note that was within reach of its child stays so.
LEMMA ReachedStays ==
  ASSUME VerbInv, PlaceStep, VerbStep, HostMove, NEW n \in Notes, ~Early(n)
  PROVE  /\ Reached(n) => Reached(n)'
         /\ InSlot(n, verbs[n].agent) => Reached(n)' \/ InSlot(n, verbs[n].agent)'
<1>1. PICK a \in Agents : a = verbs[n].agent
  BY DEF VerbInv, Early
<1>2. verbs'[n].agent = a
  BY <1>1, SentStays
<1>3. /\ Reached(n) <=> n \in delivered \/ InQueue(n, a) \/ child[a] = "over"
      /\ Reached(n)' <=> n \in delivered' \/ InQueue(n, a)' \/ child'[a] = "over"
      /\ InSlot(n, verbs[n].agent) <=> InSlot(n, a)
      /\ InSlot(n, verbs[n].agent)' <=> InSlot(n, a)'
  BY <1>1, <1>2 DEF Reached, InQueue, InSlot
<1>4. /\ n \in delivered => n \in delivered'
      /\ InQueue(n, a) => InQueue(n, a)' \/ n \in delivered' \/ child'[a] = "over"
      /\ InSlot(n, a) => InSlot(n, a)' \/ n \in delivered' \/ child'[a] = "over"
  BY DEF PlaceStep
<1>5. child[a] = "over" => child'[a] = "over"
  BY DEF HostMove
<1> QED
  BY <1>3, <1>4, <1>5

\* The receipts after a step are those before it, marked, or one more.
LEMMA ReceiptsAfter ==
  ASSUME Typed, LedgerStep, NEW i \in 1 .. Len(ledger')
  PROVE  \/ \E j \in 1 .. Len(ledger) :
              /\ ledger'[i].note = ledger[j].note /\ ledger'[i].id = ledger[j].id
              /\ ledger'[i].ref = ledger[j].ref
              /\ \/ ledger'[i].state = ledger[j].state
                 \/ ledger'[i].state \in {"unconfirmed", "superseded"}
                 \/ ledger'[i].state = "landed" /\ \E a \in Agents : Lands(j, a)
         \/ \E n \in Notes :
              /\ ledger'[i].note = n /\ ledger'[i].id = verbs'[n].id
              /\ ledger'[i].ref = verbs'[n].ref
              /\ ledger'[i].state \in {"queued", "redirected"}
              /\ verbs[n].at \in {"queued", "judging"} /\ verbs'[n].at = "over"
              /\ ledger'[i].state = "queued" => verbs[n].at = "queued"
<1>0. Len(ledger) \in Nat
  BY DEF Typed
<1>1. CASE Marks
  BY <1>1 DEF Marks
<1>2. ASSUME NEW n \in Notes, Adds(n)
      PROVE  \/ \E j \in 1 .. Len(ledger) : ledger'[i] = ledger[j]
             \/ /\ ledger'[i].note = n /\ ledger'[i].id = verbs'[n].id
                /\ ledger'[i].ref = verbs'[n].ref
                /\ ledger'[i].state \in {"queued", "redirected"}
                /\ verbs[n].at \in {"queued", "judging"} /\ verbs'[n].at = "over"
                /\ ledger'[i].state = "queued" => verbs[n].at = "queued"
  <2>1. PICK d \in {0, 1}, r \in Receipts :
          /\ Len(ledger') = Len(ledger) + 1 - d
          /\ \A k \in 1 .. Len(ledger) - d : ledger'[k] = ledger[k + d]
          /\ ledger'[Len(ledger) + 1 - d] = r
          /\ r.note = n /\ r.id = verbs[n].id /\ r.ref = verbs[n].ref
          /\ \/ r.state = "queued" /\ verbs[n].at = "queued"
             \/ r.state = "redirected" /\ verbs[n].at = "judging"
          /\ verbs'[n].at = "over" /\ verbs'[n].id = verbs[n].id /\ verbs'[n].ref = verbs[n].ref
    BY <1>2 DEF Adds
  <2>2. CASE i = Len(ledger) + 1 - d
    BY <2>1, <2>2
  <2>3. CASE i # Len(ledger) + 1 - d
    <3>1. i \in 1 .. Len(ledger) - d /\ i + d \in 1 .. Len(ledger)
      BY <1>0, <2>1, <2>3
    <3> QED
      BY <2>1, <3>1
  <2> QED
    BY <2>2, <2>3
<1> QED
  BY <1>1, <1>2 DEF LedgerStep

\* What a call sent is within reach, and what a waiting receipt is of.
LEMMA ReachKept ==
  ASSUME Typed, VerbInv, ReachInv, LedgerInv, PlaceStep, VerbStep, HostMove, LedgerStep
  PROVE  ReachInv'
<1>1. ASSUME NEW n \in Notes, verbs'[n].at \in {"capturing", "queued"}
      PROVE  Reached(n)'
  <2>1. CASE verbs'[n] = verbs[n]
    <3>1. Reached(n) /\ ~Early(n)
      BY <1>1, <2>1 DEF ReachInv, Early
    <3> QED
      BY <3>1, ReachedStays
  <2>2. CASE Asks(n)
    <3>1. PICK a \in registered : verbs'[n].agent = a /\ InQueue(n, a)'
      BY <1>1, <2>2 DEF Asks
    <3> QED
      BY <3>1 DEF Reached, InQueue
  <2>3. CASE Proceeds(n)
    <3>1. CASE SendsNote(n)
      <4>1. InQueue(n, verbs[n].agent)' /\ verbs'[n].agent = verbs[n].agent
        BY <1>1, <2>3, <3>1 DEF Proceeds, SendsNote
      <4> QED
        BY <4>1 DEF Reached
    <3>2. CASE FindsAgent(n) \/ Settles(n)
      <4>1. ~Early(n) /\ Reached(n)
        BY <1>1, <3>2 DEF FindsAgent, Settles, Early, ReachInv
      <4> QED
        BY <4>1, ReachedStays
    <3> QED
      BY <2>3, <3>1, <3>2 DEF Proceeds
  <2> QED
    BY <2>1, <2>2, <2>3 DEF VerbStep
<1>2. ASSUME NEW n \in Notes, verbs'[n].at = "judging"
      PROVE  Reached(n)' \/ InSlot(n, verbs[n].agent)'
  <2>1. CASE verbs'[n] = verbs[n]
    <3>1. (Reached(n) \/ InSlot(n, verbs[n].agent)) /\ ~Early(n)
      BY <1>2, <2>1 DEF ReachInv, Early
    <3> QED
      BY <3>1, ReachedStays
  <2>2. CASE Asks(n)
    BY <1>2, <2>2 DEF Asks
  <2>3. CASE Proceeds(n)
    BY <1>2, <2>3 DEF Proceeds, SendsNote, FindsAgent, Settles, Reached
  <2> QED
    BY <2>1, <2>2, <2>3 DEF VerbStep
<1>3. ASSUME NEW i \in 1 .. Len(ledger'), ledger'[i].state = "queued"
      PROVE  Reached(ledger[i].note)'
  <2>1. PICK n \in Notes : n = ledger'[i].note
    BY ReceiptIs DEF LedgerStep
  <2>2. Reached(n) /\ ~Early(n)
    <3>1. CASE \E j \in 1 .. Len(ledger) : ledger[j].note = n /\ ledger[j].state = "queued"
      BY <3>1 DEF ReachInv, LedgerInv, Early
    <3>2. CASE verbs[n].at = "queued"
      BY <3>2 DEF ReachInv, Early
    <3> QED
      BY <1>3, <2>1, <3>1, <3>2, ReceiptsAfter
  <2>3. Reached(n)'
    BY <2>2, ReachedStays
  <2> QED
    BY <2>1, <2>3 DEF Reached, InQueue
<1> QED
  BY <1>1, <1>2, <1>3 DEF ReachInv

\* A note that was ledgered is over, and is not ledgered again.
LEMMA LedgerKept ==
  ASSUME Typed, VerbInv, LedgerInv, VerbStep, LedgerStep
  PROVE  LedgerInv'
<1>0. Len(ledger) \in Nat
  BY DEF Typed
<1>1. ASSUME NEW n \in Notes, verbs[n].at = "over"
      PROVE  verbs'[n] = verbs[n]
  BY <1>1 DEF VerbStep, Asks, Proceeds, SendsNote, FindsAgent, Settles
<1>2. \A j \in 1 .. Len(ledger) : ledger[j].note \in Notes
  BY ReceiptIs DEF Typed
<1>3. ASSUME NEW i \in 1 .. Len(ledger')
      PROVE  LET v == verbs'[ledger'[i].note]
             IN  v.at = "over" /\ v.agent \in Agents /\ ledger'[i].id = v.id
                 /\ ledger'[i].ref = v.ref
  <2>1. ASSUME NEW j \in 1 .. Len(ledger), ledger'[i].note = ledger[j].note,
               ledger'[i].id = ledger[j].id, ledger'[i].ref = ledger[j].ref
        PROVE  LET v == verbs'[ledger'[i].note]
               IN  v.at = "over" /\ v.agent \in Agents /\ ledger'[i].id = v.id
                   /\ ledger'[i].ref = v.ref
    BY <1>1, <1>2, <2>1 DEF LedgerInv
  <2>2. ASSUME NEW n \in Notes, ledger'[i].note = n, ledger'[i].id = verbs'[n].id,
               ledger'[i].ref = verbs'[n].ref,
               verbs[n].at \in {"queued", "judging"}, verbs'[n].at = "over"
        PROVE  LET v == verbs'[ledger'[i].note]
               IN  v.at = "over" /\ v.agent \in Agents /\ ledger'[i].id = v.id
                   /\ ledger'[i].ref = v.ref
    <3>1. verbs'[n].agent = verbs[n].agent
      BY <2>2, SentStays DEF Early
    <3>2. verbs[n].agent \in Agents
      BY <2>2 DEF VerbInv
    <3> QED
      BY <2>2, <3>1, <3>2
  <2> QED
    BY <2>1, <2>2, ReceiptsAfter
<1>4. ASSUME NEW i \in 1 .. Len(ledger'), NEW j \in 1 .. Len(ledger'),
             ledger'[i].note = ledger'[j].note
      PROVE  i = j
  <2>1. CASE Marks
    BY <1>4, <2>1 DEF Marks, LedgerInv
  <2>2. ASSUME NEW n \in Notes, Adds(n)
        PROVE  i = j
    <3>1. PICK d \in {0, 1} :
            /\ Len(ledger') = Len(ledger) + 1 - d
            /\ \A k \in 1 .. Len(ledger) - d : ledger'[k] = ledger[k + d]
            /\ ledger'[Len(ledger) + 1 - d].note = n
            /\ verbs[n].at # "over"
      BY <2>2 DEF Adds
    <3>2. ASSUME NEW k \in 1 .. Len(ledger'), k # Len(ledger) + 1 - d
          PROVE  k + d \in 1 .. Len(ledger) /\ ledger'[k] = ledger[k + d] /\ ledger'[k].note # n
      <4>1. k \in 1 .. Len(ledger) - d /\ k + d \in 1 .. Len(ledger)
        BY <1>0, <3>1, <3>2
      <4>2. ledger'[k] = ledger[k + d]
        BY <3>1, <4>1
      <4>3. ledger[k + d].note # n
        BY <3>1, <4>1 DEF LedgerInv
      <4> QED
        BY <4>1, <4>2, <4>3
    <3>3. CASE i # Len(ledger) + 1 - d /\ j # Len(ledger) + 1 - d
      <4>1. /\ i + d \in 1 .. Len(ledger) /\ j + d \in 1 .. Len(ledger)
            /\ ledger[i + d].note = ledger[j + d].note
        BY <1>4, <3>2, <3>3
      <4>2. i + d = j + d
        BY <4>1 DEF LedgerInv
      <4> QED
        BY <4>2
    <3> QED
      BY <1>4, <3>1, <3>2, <3>3
  <2> QED
    BY <2>1, <2>2 DEF LedgerStep
<1> QED
  BY <1>3, <1>4 DEF LedgerInv

\* A receipt lands when its child took the note: it is in the line, or it was within reach
\* of the child that logs, which is live and has it no more in its queue.
LEMMA LandsRead ==
  ASSUME Typed, HostInv, PlaceInv, VerbInv, ReachInv, LedgerInv, FrameVisible, PromptCapture,
         NEW i \in 1 .. Len(ledger), NEW a \in Agents, Lands(i, a)
  PROVE  ledger[i].note \in delivered
<1>1. PICK n \in Notes : n = ledger[i].note
  BY ReceiptIs DEF Typed
<1>2. CASE InLine(n, a)
  BY <1>1, <1>2 DEF PlaceInv
<1>3. CASE ledger[i].ref = a
  <2>1. verbs[n].ref = a /\ verbs[n].agent = a
    BY <1>1, <1>3, SteerAssumption DEF LedgerInv, VerbInv
  <2>2. ledger[i].state = "queued" /\ n \notin ToSet(pendingNotes[a])
    BY <1>1 DEF Lands, Drainable, Waiting
  <2>3. child[a] = "live"
    BY DEF Lands, HostInv
  <2>4. Reached(n)
    BY <1>1, <2>2 DEF ReachInv
  <2> QED
    BY <1>1, <2>1, <2>2, <2>3, <2>4 DEF Reached, InQueue
<1> QED
  BY <1>1, <1>2, <1>3 DEF Lands

\* Receipts that say landed stay true.
LEMMA LandingsKept ==
  ASSUME SteerInv, PlaceStep, VerbStep, LedgerStep
  PROVE  LandedReceipts'
<1> SUFFICES ASSUME FrameVisible, PromptCapture, NEW i \in 1 .. Len(ledger'),
                    ledger'[i].state = "landed"
             PROVE  ledger'[i].note \in delivered'
  <2>1. DOMAIN ledger' = 1 .. Len(ledger')
    BY DEF LedgerStep
  <2> QED
    BY <2>1 DEF LandedReceipts, LandedWasRead
<1>1. DOMAIN ledger = 1 .. Len(ledger)
  BY DEF SteerInv, Typed
<1>2. PICK j \in 1 .. Len(ledger) :
        /\ ledger'[i].note = ledger[j].note
        /\ ledger[j].state = "landed" \/ \E a \in Agents : Lands(j, a)
  BY ReceiptsAfter DEF SteerInv
<1>3. ledger[j].note \in delivered
  BY <1>1, <1>2, LandsRead DEF SteerInv, LandedReceipts, LandedWasRead
<1> QED
  BY <1>2, <1>3 DEF PlaceStep

-----------------------------------------------------------------------------
(* The theorems.                                                           *)

\* No child was born, no note sent.
LEMMA SteerStarts == SteerInit => SteerInv
<1> SUFFICES ASSUME SteerInit
             PROVE  SteerInv
  OBVIOUS
<1>1. /\ child = [a \in Agents |-> "unborn"] /\ registered = {} /\ hooked = {}
      /\ interrupted = {} /\ delivered = {} /\ stopping = {} /\ ledger = <<>>
      /\ pendingNotes = [a \in Agents |-> <<>>] /\ slot = [a \in Agents |-> NoReceipt]
      /\ line = [a \in Agents |-> Quiet] /\ sweep = [at |-> "idle", ids |-> {}]
      /\ verbs = [n \in Notes |->
                    [at |-> "idle", id |-> NoReceipt, agent |-> NoReceipt, ref |-> NoReceipt]]
  BY DEF SteerInit
<1>2. Quiet \in Lines /\ ToSet(Quiet.notes) = {}
  BY NoneIn DEF Quiet, Lines
<1>3. PICK v \in Verbs :
        v = [at |-> "idle", id |-> NoReceipt, agent |-> NoReceipt, ref |-> NoReceipt]
  BY DEF Verbs
<1>4. v.at = "idle" /\ v.ref = NoReceipt
  BY <1>3
<1>5. verbs = [n \in Notes |-> v] /\ \A n \in Notes : verbs[n] = v
  BY <1>1, <1>3
<1>6. Len(ledger) = 0 /\ ledger \in Seq(Receipts)
  BY <1>1
<1>7. pendingNotes \in [Agents -> Seq(Notes)]
  BY <1>1, EmptyIsSeq
<1>8. sweep \in [at: {"idle", "listed", "marking"}, ids: SUBSET AgentIds]
  BY <1>1
<1>9. Typed
  BY <1>1, <1>2, <1>5, <1>6, <1>7, <1>8, SteerAssumption DEF Typed
<1>10. HostInv
  BY <1>1 DEF HostInv
<1>11. ASSUME NEW n \in Notes, NEW a \in Agents
       PROVE  ~InQueue(n, a) /\ ~InSlot(n, a) /\ ~InLine(n, a)
  <2>1. pendingNotes[a] = <<>> /\ slot[a] = NoReceipt /\ line[a] = Quiet
    BY <1>1
  <2> QED
    BY <1>2, <2>1, NoneIn, SteerAssumption DEF InQueue, InSlot, InLine
<1>12. PlaceInv
  BY <1>1, <1>11 DEF PlaceInv
<1>13. VerbInv /\ ReachInv
  BY <1>4, <1>5, <1>6 DEF VerbInv, ReachInv
<1>14. LedgerInv /\ LandedReceipts
  <2>1. DOMAIN ledger = {}
    BY <1>1
  <2> QED
    BY <1>6, <2>1 DEF LedgerInv, LandedReceipts, LandedWasRead
<1> QED
  BY <1>9, <1>10, <1>12, <1>13, <1>14 DEF SteerInv

\* The invariant is inductive.
LEMMA SteerKeeps ==
  ASSUME SteerInv, [SteerNext]_steerVars
  PROVE  SteerInv'
<1>1. Typed /\ HostInv /\ PlaceInv /\ VerbInv /\ ReachInv /\ LedgerInv
  BY DEF SteerInv
<1>2. HostMove
  BY <1>1, HostMoves
<1>3. VerbStep
  BY <1>1, VerbsMove
<1>4. PlaceStep
  BY <1>1, PlacesMove
<1>5. LedgerStep
  BY <1>1, LedgersMove
<1>6. sweep' \in [at: {"idle", "listed", "marking"}, ids: SUBSET AgentIds]
  BY <1>1, SweepTyped
<1>7. Typed'
  BY <1>2, <1>3, <1>4, <1>5, <1>6 DEF Typed, HostMove, VerbStep, PlaceStep, LedgerStep
<1>8. HostInv'
  BY <1>2, <1>4 DEF HostInv, HostMove, PlaceStep
<1>9. PlaceInv' /\ VerbInv'
  BY <1>1, <1>2, <1>3, <1>4, PlacesKept, VerbsKept
<1>10. ReachInv' /\ LedgerInv'
  BY <1>1, <1>2, <1>3, <1>4, <1>5, ReachKept, LedgerKept
<1>11. LandedReceipts'
  BY <1>3, <1>4, <1>5, LandingsKept
<1> QED
  BY <1>7, <1>8, <1>9, <1>10, <1>11 DEF SteerInv

\* The invariant of the notes and their receipts holds in every state.
THEOREM SteerInvHolds == SteerSpec => []SteerInv
<1>1. SteerInv /\ [SteerNext]_steerVars => SteerInv'
  BY SteerKeeps
<1> QED
  BY <1>1, SteerStarts, PTL DEF SteerSpec

\* What the invariant says of the type of the state.
LEMMA SteerTyped ==
  ASSUME SteerInv
  PROVE  SteerTypeOK
<1>1. DOMAIN ledger = 1 .. Len(ledger)
  BY DEF SteerInv, Typed
<1>2. \A a \in Agents : ToSet(pendingNotes[a]) \subseteq Notes
  BY ElementsAreNotes DEF SteerInv, Typed
<1>3. ASSUME NEW a \in Agents
      PROVE  line[a].kind \in {"none", "tool", "api"} /\ ToSet(line[a].notes) \subseteq delivered
  <2>1. line[a].kind \in {"none", "tool", "api"} /\ line[a].notes \in Seq(Notes)
    BY DEF SteerInv, Typed, Lines
  <2>2. ToSet(line[a].notes) \subseteq Notes
    BY <2>1, ElementsAreNotes
  <2> QED
    BY <2>1, <2>2 DEF SteerInv, PlaceInv, InLine
<1>4. \A i \in DOMAIN ledger :
        ledger[i] \in [note: Notes, id: AgentIds, ref: Agents \union {NoReceipt}, state: States]
  BY <1>1, ReceiptIs DEF SteerInv, Typed, Receipts
<1>5. \A i, j \in DOMAIN ledger : ledger[i].note = ledger[j].note => i = j
  BY <1>1 DEF SteerInv, LedgerInv
<1>6. /\ registered \subseteq {a \in Agents : child[a] # "unborn"}
      /\ \A a, b \in registered : IdOf[a] = IdOf[b] => a = b
      /\ hooked \subseteq {a \in Agents : child[a] = "over"}
  BY DEF SteerInv, Typed, HostInv
<1>7. /\ child \in [Agents -> {"unborn", "live", "over"}]
      /\ interrupted \subseteq Agents /\ delivered \subseteq Notes
      /\ \A a \in Agents : slot[a] \in Notes \union {NoReceipt}
      /\ verbs \in [Notes -> Verbs] /\ Len(ledger) <= MaxReceipts
      /\ stopping \subseteq AgentIds
      /\ sweep \in [at: {"idle", "listed", "marking"}, ids: SUBSET AgentIds]
  BY DEF SteerInv, Typed
<1> QED
  BY <1>2, <1>3, <1>4, <1>5, <1>6, <1>7 DEF SteerTypeOK, Verbs

\* Where the frame that logs a drain names the draining child, and no id changes hands
\* between a public steer and the registry read behind it, a receipt says landed only of a
\* note its child took from its queue: whatever the notes, the children and the ids they
\* share, and however the note, its receipt and the line are ordered.
THEOREM NotesAreTrue ==
  ASSUME FrameVisible, PromptCapture
  PROVE  SteerSpec => []SteerSafe
<1>1. SteerInv => SteerSafe
  BY SteerTyped DEF SteerInv, SteerSafe, LandedReceipts
<1> QED
  BY <1>1, SteerInvHolds, PTL

\* A line goes out as the child logs it.
LineStep == \A b \in Agents : line[b] # Quiet /\ line'[b] = Quiet => DrainLogged(b)

\* Only its log ends a line.
LEMMA LinesMove == Typed /\ [SteerNext]_steerVars => LineStep
<1> SUFFICES ASSUME Typed, [SteerNext]_steerVars PROVE LineStep
  OBVIOUS
<1>0. line \in [Agents -> Lines]
  BY DEF Typed
<1>k. UNCHANGED line => LineStep
  BY DEF LineStep
<1>1. ASSUME NEW a \in Agents, ChildStarts(a) PROVE LineStep
  BY <1>1, <1>k DEF ChildStarts, agentVars
<1>2. ASSUME NEW a \in Agents, Drain(a, "tool") PROVE LineStep
  <2>1. /\ line' = [line EXCEPT ![a] = [kind |-> "tool", notes |-> pendingNotes[a]]]
        /\ line[a] = Quiet
    BY <1>2 DEF Drain
  <2>2. \A b \in Agents : b # a => line'[b] = line[b]
    BY <1>0, <2>1
  <2> QED
    BY <2>1, <2>2 DEF LineStep
<1>3. ASSUME NEW a \in Agents, Drain(a, "api") PROVE LineStep
  <2>1. /\ line' = [line EXCEPT ![a] = [kind |-> "api", notes |-> pendingNotes[a]]]
        /\ line[a] = Quiet
    BY <1>3 DEF Drain
  <2>2. \A b \in Agents : b # a => line'[b] = line[b]
    BY <1>0, <2>1
  <2> QED
    BY <2>1, <2>2 DEF LineStep
<1>4. ASSUME NEW a \in Agents, DrainLogged(a) PROVE LineStep
  <2>1. line' = [line EXCEPT ![a] = Quiet]
    BY <1>4 DEF DrainLogged
  <2>2. \A b \in Agents : b # a => line'[b] = line[b]
    BY <1>0, <2>1
  <2> QED
    BY <1>4, <2>2 DEF LineStep
<1>5. ASSUME NEW a \in Agents, SlotTaken(a) PROVE LineStep
  BY <1>5, <1>k DEF SlotTaken, agentVars
<1>6. ASSUME NEW a \in Agents, Interrupts(a) PROVE LineStep
  BY <1>6, <1>k DEF Interrupts, agentVars
<1>7. ASSUME NEW a \in Agents, ChildEnds(a) PROVE LineStep
  BY <1>7, <1>k DEF ChildEnds, agentVars
<1>8. ASSUME NEW a \in Agents, ChildLeaves(a) PROVE LineStep
  BY <1>8, <1>k DEF ChildLeaves, agentVars
<1>9. ASSUME NEW a \in Agents, StopHook(a) PROVE LineStep
  BY <1>9, <1>k DEF StopHook, agentVars
<1>10. ASSUME NEW a \in Agents, StopAsks(a) PROVE LineStep
  BY <1>10, <1>k DEF StopAsks, agentVars
<1>11. ASSUME NEW n \in Notes, NEW a \in Agents, LooksUp(n, a, "steering") PROVE LineStep
  BY <1>11, <1>k DEF LooksUp, agentVars
<1>12. ASSUME NEW n \in Notes, NEW a \in Agents, LooksUp(n, a, "redirecting") PROVE LineStep
  BY <1>12, <1>k DEF LooksUp, agentVars
<1>13. ASSUME NEW n \in Notes, NEW a \in Agents, PublicSteers(n, a) PROVE LineStep
  BY <1>13, <1>k DEF PublicSteers, agentVars
<1>14. ASSUME NEW n \in Notes, Steers(n) PROVE LineStep
  BY <1>14, <1>k DEF Steers, agentVars
<1>15. ASSUME NEW n \in Notes, Captures(n) PROVE LineStep
  BY <1>15, <1>k DEF Captures, agentVars
<1>16. ASSUME NEW n \in Notes, Redirects(n) PROVE LineStep
  BY <1>16, <1>k DEF Redirects, agentVars
<1>17. ASSUME NEW n \in Notes, Judges(n) PROVE LineStep
  BY <1>17, <1>k DEF Judges, agentVars
<1>18. ASSUME NEW n \in Notes, Ledgers(n) PROVE LineStep
  BY <1>18, <1>k DEF Ledgers, agentVars
<1>19. ASSUME NEW id \in AgentIds, StopLedgers(id) PROVE LineStep
  BY <1>19, <1>k DEF StopLedgers, agentVars
<1>20. CASE SweepLists
  BY <1>20, <1>k DEF SweepLists, agentVars
<1>21. CASE SweepCompares
  BY <1>21, <1>k DEF SweepCompares, agentVars
<1>22. CASE SweepMarks
  BY <1>22, <1>k DEF SweepMarks, agentVars
<1>23. CASE UNCHANGED steerVars
  BY <1>23, <1>k DEF steerVars, agentVars
<1> QED
  BY <1>1, <1>2, <1>3, <1>4, <1>5, <1>6, <1>7, <1>8, <1>9, <1>10, <1>11, <1>12, <1>13, <1>14,
     <1>15, <1>16, <1>17, <1>18, <1>19, <1>20, <1>21, <1>22, <1>23 DEF SteerNext, HostStep,
        NoteStep

\* Of two receipts of one batch, the line that lands one lands the other: they carry the same
\* id and the same reference, so they match it, or go with one that does, alike.
LEMMA LandsAlike ==
  ASSUME SteerInv, NEW a \in Agents, DrainLogged(a), NEW i \in Waiting, NEW j \in Waiting,
         ledger[i].ref = a, ledger[j].ref = a,
         ledger[i].note \in ToSet(line[a].notes), ledger[j].note \in ToSet(line[a].notes),
         ledger'[i].state = "landed"
  PROVE  ledger'[j].state = "landed"
<1>0. /\ ledger \in Seq(Receipts) /\ i \in 1 .. Len(ledger) /\ j \in 1 .. Len(ledger)
      /\ ledger[i].state = "queued" /\ ledger[j].state = "queued" /\ "landed" \in States
  BY DEF SteerInv, Typed, Waiting, States
<1>1. PICK n \in Notes : n = ledger[i].note
  BY <1>0, ReceiptIs
<1>2. PICK m \in Notes : m = ledger[j].note
  BY <1>0, ReceiptIs
<1>3. ledger[i].id = ledger[j].id
  <2>1. verbs[n].id = IdOf[a] /\ verbs[m].id = IdOf[a]
    BY <1>1, <1>2 DEF SteerInv, PlaceInv, VerbInv, InLine, Sent, Early
  <2> QED
    BY <1>0, <1>1, <1>2, <2>1 DEF SteerInv, LedgerInv
<1>4. j \in Drainable(a)
  <2>1. m \notin ToSet(pendingNotes[a])
    BY <1>2 DEF SteerInv, PlaceInv, InLine, InQueue
  <2> QED
    BY <1>2, <2>1 DEF Drainable
<1>5. ASSUME NEW S, ledger' = Marked(S, "landed")
      PROVE  i \in S /\ (j \in S => ledger'[j].state = "landed")
  BY <1>0, <1>5, MarkedIs
<1>6. ASSUME NEW shown, i \in FromPreview(a, shown)
      PROVE  j \in FromPreview(a, shown)
  <2>1. PICK k \in Drainable(a) : ledger[k].note \in shown /\ (k = i \/ SameBatch(k, i, a))
    BY <1>6 DEF FromPreview
  <2>2. SameBatch(k, j, a)
    BY <1>3, <2>1, SteerAssumption DEF SameBatch
  <2> QED
    BY <1>4, <2>1, <2>2 DEF FromPreview
<1>7. ASSUME NEW k \in 1 .. Len(line[a].notes),
             ledger' = Marked(FromPreview(a, ToSet(SubSeq(line[a].notes, 1, k))), "landed")
      PROVE  ledger'[j].state = "landed"
  <2>1. PICK shown : shown = ToSet(SubSeq(line[a].notes, 1, k))
    OBVIOUS
  <2> QED
    BY <1>5, <1>6, <1>7, <2>1
<1>8. CASE ledger' = Marked(OfAgent(a), "landed")
  <2>1. i \in OfAgent(a)
    BY <1>5, <1>8
  <2>2. j \in OfAgent(a)
    BY <1>4, <2>1 DEF OfAgent
  <2> QED
    BY <1>5, <1>8, <2>2
<1> QED
  BY <1>7, <1>8 DEF DrainLogged

\* One line lands all the waiting receipts of its batch or none: however many notes the
\* preview cut off, and whether or not the frame shows which child drained them.
THEOREM BatchesLandTogether == SteerSpec => LandsTogether
<1>1. SteerInv /\ [SteerNext]_steerVars =>
        [\A a \in Agents :
           line[a] # Quiet /\ line'[a] = Quiet =>
             LET batch == {i \in Waiting :
                             ledger[i].ref = a /\ ledger[i].note \in ToSet(line[a].notes)}
             IN  (\E i \in batch : ledger'[i].state = "landed")
                   => \A i \in batch : ledger'[i].state = "landed"]_steerVars
  <2> SUFFICES ASSUME SteerInv, [SteerNext]_steerVars, NEW a \in Agents,
                      line[a] # Quiet, line'[a] = Quiet,
                      NEW i \in Waiting, ledger[i].ref = a,
                      ledger[i].note \in ToSet(line[a].notes), ledger'[i].state = "landed",
                      NEW j \in Waiting, ledger[j].ref = a,
                      ledger[j].note \in ToSet(line[a].notes)
               PROVE  ledger'[j].state = "landed"
    OBVIOUS
  <2>1. DrainLogged(a)
    BY LinesMove DEF SteerInv, LineStep
  <2> QED
    BY <2>1, LandsAlike
<1>2. SteerSpec => []SteerInv
  BY SteerInvHolds
<1> QED
  BY <1>1, <1>2, PTL DEF SteerSpec, LandsTogether

-----------------------------------------------------------------------------
(* The credential of a session (Credentials).                              *)

\* The types of the environment, the logins and the session's credential.
CredValues ==
  /\ vendor \in {"openai", "grok"}
  /\ keys \in [{"scoped", "shared"} -> {"absent", "blank", "present"}]
  /\ preference \in {"absent", "enabled", "disabled", "invalid"}
  /\ hostKey \in [here : BOOLEAN, asks : BOOLEAN] /\ renews \in BOOLEAN
  /\ hostLogin \in Logins /\ stored \in Logins /\ pool \in Logins
  /\ used \in [lane : {"none", "oauth", "configured", "env"}, left : Logins,
               preference : {"absent", "enabled", "disabled", "invalid"},
               scoped : {"absent", "blank", "present"}]
  /\ edited \in 0 .. MaxEdits

\* What every reachable state of the credentials has.
CredInv == CredValues /\ LoginIsLive /\ NeverMetered

\* The login a resolver hands out is a login with time left, or none.
LEMMA OAuthLives ==
  ASSUME CredValues
  PROVE  OAuth \in Logins /\ (OAuth # Missing => OAuth > 0)
<1> USE LifeAssumption DEF Logins, Missing, Unusable, CredValues
<1>1. CodexOAuth \in Logins /\ (CodexOAuth # Missing => CodexOAuth > 0)
  <2>1. CASE HermesGives
    <3>1. CodexOAuth = IF hostLogin = 0 THEN MaxLife ELSE hostLogin
      BY <2>1 DEF CodexOAuth
    <3> QED
      BY <2>1, <3>1 DEF HermesGives
  <2>2. CASE ~HermesGives /\ Outlives(stored)
    <3>1. CodexOAuth = stored
      BY <2>2 DEF CodexOAuth
    <3> QED
      BY <2>2, <3>1 DEF Outlives
  <2>3. CASE ~HermesGives /\ ~Outlives(stored)
    BY <2>3 DEF CodexOAuth
  <2> QED
    BY <2>1, <2>2, <2>3
<1>2. InspectStore \in Logins
  BY DEF InspectStore
<1>3. XaiOAuth \in Logins /\ (XaiOAuth # Missing => XaiOAuth > 0)
  BY <1>2 DEF XaiOAuth, HostGives, Outlives
<1> QED
  BY <1>1, <1>3 DEF OAuth

\* What the resolvers answer: a subscription only when there is one, no key where the
\* subscription was asked for, nothing where the scoped key is blank.
LEMMA ResolvedWell ==
  ASSUME CredValues
  PROVE  /\ Resolved \in {"none", "oauth", "configured", "env"}
         /\ Resolved = "oauth" => OAuth # Missing
         /\ preference \in {"enabled", "invalid"} => Resolved \notin {"configured", "env"}
         /\ keys.scoped = "blank" /\ preference # "enabled" => Resolved = "none"
<1>1. CASE preference = "invalid"
  BY <1>1 DEF Resolved, Decides
<1>2. CASE preference = "enabled"
  <2>1. Resolved = IF OAuth = Missing THEN "none" ELSE "oauth"
    BY <1>2 DEF Resolved, Decides
  <2> QED
    BY <1>2, <2>1
<1>3. CASE preference \notin {"invalid", "enabled"}
  <2>1. Resolved = IF Named("scoped") THEN (IF keys.scoped = "blank" THEN "none" ELSE "configured")
                   ELSE IF Named("shared") THEN (IF keys.shared = "blank" THEN "none" ELSE "env")
                   ELSE IF OAuth = Missing THEN "none" ELSE "oauth"
    BY <1>3 DEF Resolved, Decides
  <2> QED
    BY <1>3, <2>1 DEF Named
<1> QED
  BY <1>1, <1>2, <1>3

\* The diagnostic of xAI names the lane the resolver takes, except for an expired login
\* that the host cannot renew: the two texts of each case are compared.
LEMMA DoctorForetells ==
  ASSUME CredValues
  PROVE  DoctorAgrees
<1> SUFFICES ASSUME vendor = "grok"
             PROVE  \/ Diagnosed = Resolved
                    \/ Diagnosed = "oauth" /\ Resolved = "none" /\ InspectStore = 0 /\ ~renews
  BY DEF DoctorAgrees
<1>1. OAuth = XaiOAuth /\ Usable = XaiUsable
  BY DEF OAuth, Usable
<1>2. InspectStore \in Logins
  BY DEF InspectStore, CredValues, Logins, Missing, Unusable
<1>3. ~XaiUsable => XaiOAuth = Missing
  BY <1>2 DEF XaiUsable, XaiOAuth, HostGives, Outlives, CredValues
<1>4. XaiUsable /\ XaiOAuth = Missing => InspectStore = 0 /\ ~renews
  BY <1>2, LifeAssumption DEF XaiUsable, XaiOAuth, HostGives, Outlives, CredValues, Missing
<1>5. CASE preference = "invalid"
  BY <1>5 DEF Resolved, Diagnosed, Decides
<1>6. CASE preference = "enabled"
  <2>1. Resolved = IF XaiOAuth = Missing THEN "none" ELSE "oauth"
    BY <1>1, <1>6 DEF Resolved, Decides
  <2>2. Diagnosed = IF XaiUsable THEN "oauth" ELSE "none"
    BY <1>1, <1>6 DEF Diagnosed
  <2> QED
    BY <1>3, <1>4, <2>1, <2>2
<1>7. CASE preference \in {"absent", "disabled"}
  <2>1. Resolved = IF Named("scoped") THEN (IF keys.scoped = "blank" THEN "none" ELSE "configured")
                   ELSE IF Named("shared") THEN (IF keys.shared = "blank" THEN "none" ELSE "env")
                   ELSE IF XaiOAuth = Missing THEN "none" ELSE "oauth"
    BY <1>1, <1>7 DEF Resolved, Decides
  <2>2. CASE keys.scoped = "blank" \/ keys.scoped = "present"
    BY <1>7, <2>1, <2>2 DEF Diagnosed, Named
  <2>3. CASE keys.scoped = "absent" /\ (keys.shared = "blank" \/ keys.shared = "present")
    BY <1>7, <2>1, <2>3 DEF Diagnosed, Named
  <2>4. CASE keys.scoped = "absent" /\ keys.shared = "absent"
    <3>1. Resolved = IF XaiOAuth = Missing THEN "none" ELSE "oauth"
      BY <2>1, <2>4 DEF Named
    <3>2. Diagnosed = IF XaiUsable THEN "oauth" ELSE "none"
      BY <1>1, <1>7, <2>4 DEF Diagnosed
    <3> QED
      BY <1>3, <1>4, <3>1, <3>2
  <2>5. keys.scoped \in {"absent", "blank", "present"} /\ keys.shared \in {"absent", "blank", "present"}
    BY DEF CredValues
  <2> QED
    BY <2>2, <2>3, <2>4, <2>5
<1> QED
  BY <1>5, <1>6, <1>7 DEF CredValues

\* However logins age, are renewed, edited and lost, and whatever the operator sets: a
\* session opens with a token that is alive, never with a metered key where the
\* subscription was asked for, and the diagnostic foretells the lane (talk_auth.py,
\* resolve_auth and auth_diagnostic; talk_grok_auth.py, resolve_grok_auth).
THEOREM CredentialsAreSafe == CredSpec => []CredentialsSafe
<1>1. CredInit => CredInv
  <2> SUFFICES ASSUME CredInit PROVE CredInv
    OBVIOUS
  <2>1. hostKey \in [here : BOOLEAN, asks : BOOLEAN]
    <3>1. [here |-> FALSE, asks |-> FALSE] \in [here : BOOLEAN, asks : BOOLEAN]
      OBVIOUS
    <3>2. [here |-> TRUE, asks |-> TRUE] \in [here : BOOLEAN, asks : BOOLEAN]
      OBVIOUS
    <3> QED
      BY <3>1, <3>2 DEF CredInit
  <2>2. used = [lane |-> "none", left |-> 0, preference |-> "absent", scoped |-> "absent"]
    BY DEF CredInit, NotUsed
  <2>3. hostLogin \in Logins /\ stored \in Logins /\ pool \in Logins /\ 0 \in Logins
    BY LifeAssumption DEF CredInit, Logins, Missing, Unusable
  <2>4. LoginIsLive /\ NeverMetered
    BY <2>2 DEF LoginIsLive, NeverMetered
  <2> QED
    BY <2>1, <2>2, <2>3, <2>4, LifeAssumption DEF CredInit, CredInv, CredValues
<1>2. CredInv /\ [CredNext]_credVars => CredInv'
  <2> SUFFICES ASSUME CredInv, [CredNext]_credVars
               PROVE  CredInv'
    OBVIOUS
  <2>1. CASE Open
    <3>1. /\ OAuth \in Logins /\ (OAuth # Missing => OAuth > 0)
          /\ Resolved \in {"none", "oauth", "configured", "env"}
          /\ Resolved = "oauth" => OAuth # Missing
          /\ preference \in {"enabled", "invalid"} => Resolved \notin {"configured", "env"}
          /\ keys.scoped = "blank" /\ preference # "enabled" => Resolved = "none"
      BY OAuthLives, ResolvedWell DEF CredInv
    <3>2. used' = [lane |-> Resolved, left |-> OAuth, preference |-> preference, scoped |-> keys.scoped]
      BY <2>1 DEF Open
    <3>3. hostLogin' \in Logins /\ stored' \in Logins /\ pool' \in Logins
      BY <2>1, LifeAssumption DEF Open, CredInv, CredValues, Logins
    <3>4. LoginIsLive' /\ NeverMetered'
      BY <3>1, <3>2 DEF LoginIsLive, NeverMetered
    <3>5. CredValues'
      BY <2>1, <3>1, <3>2, <3>3 DEF Open, CredInv, CredValues
    <3> QED
      BY <3>4, <3>5 DEF CredInv
  <2>2. CASE TimePasses
    <3>1. hostLogin' \in Logins /\ stored' \in Logins /\ pool' \in Logins
      BY <2>2, LifeAssumption DEF TimePasses, CredInv, CredValues, Logins, Missing, Unusable
    <3> QED
      BY <2>2, <3>1 DEF TimePasses, CredInv, CredValues, LoginIsLive, NeverMetered
  <2>3. CASE Edit
    <3>1. hostLogin' \in Logins /\ stored' \in Logins /\ pool' \in Logins /\ edited' \in 0 .. MaxEdits
      BY <2>3, LifeAssumption DEF Edit, CredInv, CredValues, Logins
    <3>2. hostKey' \in [here : BOOLEAN, asks : BOOLEAN] /\ renews' \in BOOLEAN
      BY <2>3 DEF Edit, CredInv, CredValues
    <3> QED
      BY <2>3, <3>1, <3>2 DEF Edit, CredInv, CredValues, LoginIsLive, NeverMetered
  <2>4. CASE UNCHANGED credVars
    BY <2>4 DEF credVars, CredInv, CredValues, LoginIsLive, NeverMetered
  <2> QED
    BY <2>1, <2>2, <2>3, <2>4 DEF CredNext
<1>3. CredInv => CredentialsSafe
  BY DoctorForetells DEF CredInv, CredValues, CredTypeOK, CredentialsSafe
<1> QED
  BY <1>1, <1>2, <1>3, PTL DEF CredSpec

-----------------------------------------------------------------------------
(* A Gemini session (GeminiSession).                                       *)

GemFields == {"state", "captured", "open", "trailing", "words", "names", "cancelled", "owner", "results",
              "contexts", "retired", "fence", "interrupted", "doomed", "ended"}
ToldFields == {"messages", "bracket", "asked", "retired", "sent", "revoked", "abandoned", "forgot", "turn",
               "sentRevoked"}

GemShape == gem = [f \in GemFields |-> gem[f]] /\ told = [f \in ToldFields |-> told[f]]

\* What was cancelled, in the order it was.
GemRows  == [id: GemCalls, logged: BOOLEAN]
IdsOf(s) == {s[n].id : n \in DOMAIN s}

Senders == [at: {"idle"}] \union [at: {"waits"}, command: Commands]
             \union [at: {"sends"}, command: Commands, wire: BOOLEAN]

GemTyped ==
  /\ GemShape
  /\ gem.state \in {"new", "connected", "closed", "failed"}
  /\ gem.captured \in BOOLEAN /\ gem.open \in BOOLEAN
  /\ gem.cancelled \in Seq(GemRows) /\ Len(gem.cancelled) <= MaxCancelled
  /\ gem.owner \in [GemCalls -> GemCalls \union {NoBatch}]
  /\ gem.results \in [GemCalls -> {0, 1, 2}] /\ gem.retired \subseteq GemCalls
  /\ told.asked \in [GemCalls -> Nat] /\ told.retired \in [GemCalls -> Nat] /\ told.sent \in [GemCalls -> Nat]

\* The bracket that was told is the one the adapter believes open; and what a session that is
\* not connected yet has not done.
BracketInv ==
  /\ told.bracket \in {"open", "closed"} /\ (~gem.captured => (told.bracket = "open" <=> gem.open))
  /\ gem.state = "new" => /\ told.bracket = "closed" /\ ~gem.open /\ told.revoked = {} /\ gem.retired = {}
                          /\ \A c \in GemCalls : gem.owner[c] = NoBatch

\* A delegation is told of once its batch stands, its end is told once it is retired; only a
\* captured session delegates, and it forgets nothing of what was cancelled.
AskInv ==
  /\ IF gem.captured THEN told.revoked \subseteq IdsOf(gem.cancelled)
     ELSE gem.retired = {} /\ \A c \in GemCalls : gem.owner[c] = NoBatch
  /\ \A d \in GemCalls :
       /\ told.asked[d] <= 1 /\ told.retired[d] <= 1
       /\ d \in gem.retired <=> told.retired[d] = 1
       /\ Batch(d) = {} => told.asked[d] = 0 /\ told.retired[d] = 0
       /\ Batch(d) \cap told.revoked # {} => d \in gem.retired

\* A cancelled call that is not forgotten is still known, so no result of it was sent.
CancelInv == told.revoked \ told.forgot \subseteq IdsOf(gem.cancelled) /\ ~told.sentRevoked

\* A result that went out is recorded, or its delegation is retired.
SentInv ==
  \A d \in GemCalls \ told.abandoned :
    told.sent[d] <= 1 /\ (told.sent[d] = 1 => gem.results[d] # 0 \/ d \in gem.retired)

\* One sender at a time is out of the lock's way, and its result is the first of its call.
SenderInv ==
  /\ senders \in [GemSenders -> Senders]
  /\ \A s, u \in GemSenders : senders[s].at = "sends" /\ senders[u].at = "sends" => s = u
  /\ \A s \in GemSenders :
       senders[s].at = "sends" /\ senders[s].command.kind = "result" /\ senders[s].wire
       /\ senders[s].command.call \notin told.abandoned => told.sent[senders[s].command.call] = 0

GemInv == GemTyped /\ BracketInv /\ AskInv /\ CancelInv /\ SentInv /\ SenderInv

-----------------------------------------------------------------------------
(* Steps that leave a part alone.                                          *)

LEMMA SendersStay ==
  ASSUME SenderInv, senders' = senders, told'.sent = told.sent, told'.abandoned = told.abandoned
  PROVE  SenderInv'
BY DEF SenderInv

\* A step that changes neither the bracket, nor what was asked, nor what was cancelled: what
\* was sent and recorded must be looked at.
LEMMA GemFrame ==
  ASSUME GemInv, GemShape', gem'.state \in {"new", "connected", "closed", "failed"},
         gem'.state = "new" => gem.state = "new",
         gem'.captured = gem.captured, gem'.open = gem.open, gem'.owner = gem.owner, gem'.retired = gem.retired,
         gem'.cancelled \in Seq(GemRows), Len(gem'.cancelled) <= MaxCancelled,
         IdsOf(gem'.cancelled) = IdsOf(gem.cancelled),
         told'.bracket = told.bracket, told'.asked = told.asked, told'.retired = told.retired,
         told'.revoked = told.revoked, told'.forgot = told.forgot, told'.sentRevoked => told.sentRevoked,
         gem'.results \in [GemCalls -> {0, 1, 2}], told'.sent \in [GemCalls -> Nat], SentInv', SenderInv'
  PROVE  GemInv'
<1>1. GemTyped'
  BY DEF GemInv, GemTyped
<1>2. BracketInv'
  BY DEF GemInv, BracketInv
<1>3. AskInv'
  <2>1. \A d \in GemCalls : Batch(d)' = Batch(d)
    BY DEF Batch
  <2> QED
    BY <2>1 DEF GemInv, AskInv
<1>4. CancelInv'
  BY DEF GemInv, CancelInv
<1> QED
  BY <1>1, <1>2, <1>3, <1>4 DEF GemInv

\* And one that sends nothing.
LEMMA GemQuiet ==
  ASSUME GemInv, GemShape', gem'.state \in {"new", "connected", "closed", "failed"},
         gem'.state = "new" => gem.state = "new",
         gem'.captured = gem.captured, gem'.open = gem.open, gem'.owner = gem.owner, gem'.retired = gem.retired,
         gem'.cancelled = gem.cancelled, gem'.results = gem.results,
         told'.bracket = told.bracket, told'.asked = told.asked, told'.retired = told.retired,
         told'.revoked = told.revoked, told'.forgot = told.forgot, told'.sentRevoked = told.sentRevoked,
         told'.sent = told.sent, told'.abandoned = told.abandoned, SenderInv'
  PROVE  GemInv'
<1>1. SentInv'
  BY DEF GemInv, SentInv
<1> QED
  BY <1>1, GemFrame DEF GemInv, GemTyped

\* The session keeps its fields in every step.
LEMMA GemShapeKept ==
  ASSUME GemShape, GemNext
  PROVE  GemShape'
<1> USE DEF GemShape, GemFields, ToldFields
<1>1. CASE GemConnect
  BY <1>1 DEF GemConnect
<1>2. CASE GemClose \/ GoAway \/ DoomIsRead \/ GemEnds
  BY <1>2 DEF GemClose, GoAway, Doom, DoomIsRead, GemEnds
<1>3. ASSUME NEW m \in Content, ServerContent(m) PROVE GemShape'
  <2>1. \E o, w, t, b : gem' = [gem EXCEPT !.open = o, !.words = w, !.trailing = t]
                        /\ told' = [told EXCEPT !.messages = @ + 1, !.bracket = b]
    BY <1>3 DEF ServerContent
  <2> QED
    BY <2>1
<1>4. ASSUME NEW m \in Content, DelegationContent(m) PROVE GemShape'
  <2>1. \E f, i, t : gem' = [gem EXCEPT !.fence = f, !.interrupted = i]
                     /\ told' = [told EXCEPT !.messages = @ + 1, !.turn = t]
    BY <1>4 DEF DelegationContent
  <2> QED
    BY <2>1
<1>5. ASSUME NEW batch, ToolCall(batch) PROVE GemShape'
  BY <1>5 DEF ToolCall
<1>6. ASSUME NEW batch, NEW lead, Delegation(lead, batch) PROVE GemShape'
  <2>1. CASE (gem' = gem /\ told' = [told EXCEPT !.messages = @ + 1]) \/ Doom
    BY <2>1 DEF Doom
  <2>2. CASE ~((gem' = gem /\ told' = [told EXCEPT !.messages = @ + 1]) \/ Doom)
    <3>1. gem' = [gem EXCEPT !.owner = gem'.owner, !.retired = gem'.retired]
      BY <1>6, <2>2 DEF Delegation
    <3>2. \/ told' = [told EXCEPT !.messages = @ + 1, !.retired[lead] = @ + 1]
          \/ told' = [told EXCEPT !.messages = @ + 1, !.asked[lead] = @ + 1]
      BY <1>6, <2>2 DEF Delegation
    <3>3. told' = [told EXCEPT !.messages = @ + 1, !.retired = told'.retired, !.asked = told'.asked]
      BY <3>2
    <3> QED
      BY <3>1, <3>3
  <2> QED
    BY <2>1, <2>2
<1>7. ASSUME NEW c, Cancellation(c) PROVE GemShape'
  <2>1. CASE Doom
    BY <2>1 DEF Doom
  <2>2. CASE ~Doom
    <3>1. gem' = [gem EXCEPT !.names = gem'.names, !.cancelled = gem'.cancelled, !.retired = gem'.retired]
      BY <1>7, <2>2 DEF Cancellation
    <3>2. told' = [told EXCEPT !.messages = @ + 1, !.revoked = told'.revoked, !.forgot = told'.forgot,
                      !.retired = told'.retired]
      BY <1>7, <2>2 DEF Cancellation
    <3> QED
      BY <3>1, <3>2
  <2> QED
    BY <2>1, <2>2
<1>8. ASSUME NEW s \in GemSenders, Sends(s) PROVE GemShape'
  BY <1>8 DEF Sends
<1>9. ASSUME NEW s \in GemSenders, Encodes(s) PROVE GemShape'
  <2>1. gem' = [gem EXCEPT !.fence = gem'.fence, !.names = gem'.names, !.trailing = gem'.trailing,
                   !.cancelled = gem'.cancelled]
    <3>1. CASE gem' = gem
      BY <3>1
    <3>2. CASE gem' = [gem EXCEPT !.fence = @ \/ ~gem.interrupted]
      BY <3>2
    <3>3. CASE gem' = [gem EXCEPT !.trailing = FALSE]
      BY <3>3
    <3> QED
      BY <1>9, <3>1, <3>2, <3>3 DEF Encodes
  <2>2. told' = told \/ \E r : told' = [told EXCEPT !.sentRevoked = r]
    BY <1>9 DEF Encodes
  <2> QED
    BY <2>1, <2>2
<1>10. ASSUME NEW s \in GemSenders, SenderDone(s) \/ SendBreaks(s) PROVE GemShape'
  <2>1. \/ gem' = gem
        \/ gem' = [gem EXCEPT !.state = "failed"]
        \/ \E r, x : gem' = [gem EXCEPT !.results = r, !.contexts = x]
    <3>1. CASE SendBreaks(s)
      BY <3>1 DEF SendBreaks
    <3>2. CASE SenderDone(s)
      <4> DEFINE k == senders[s].command
      <4>1. CASE gem' = gem
        BY <4>1
      <4>2. CASE gem' = [gem EXCEPT !.results[k.call] = k.content, !.contexts[k.call] = IF k.context = 1 THEN 1 ELSE @]
        <5>1. gem' = [gem EXCEPT !.results = gem'.results, !.contexts = gem'.contexts]
          BY <4>2
        <5> QED
          BY <5>1
      <4> QED
        BY <3>2, <4>1, <4>2 DEF SenderDone
    <3> QED
      BY <1>10, <3>1, <3>2
  <2>2. told' = told \/ \E t, a : told' = [told EXCEPT !.sent = t, !.abandoned = a]
    <3> DEFINE k == senders[s].command
               more == [told EXCEPT !.sent[k.call] = IF @ < 2 THEN @ + 1 ELSE @]
               gone == [told EXCEPT !.sent[k.call] = IF @ < 2 THEN @ + 1 ELSE @, !.abandoned = @ \union {k.call}]
    <3>1. told' = told \/ told' = more \/ told' = gone
      BY <1>10 DEF SenderDone, SendBreaks
    <3>2. CASE told' = more \/ told' = gone
      <4>1. told' = [told EXCEPT !.sent = told'.sent, !.abandoned = told'.abandoned]
        BY <3>2
      <4> QED
        BY <4>1
    <3> QED
      BY <3>1, <3>2
  <2> QED
    BY <2>1, <2>2
<1> QED
  BY <1>1, <1>2, <1>3, <1>4, <1>5, <1>6, <1>7, <1>8, <1>9, <1>10 DEF GemNext

-----------------------------------------------------------------------------
(* The steps that are quiet.                                               *)

\* What a message the adapter cannot take leaves alone.
LEMMA DoomQuiet ==
  ASSUME GemInv, GemShape', Doom, senders' = senders
  PROVE  GemInv'
<1>1. GemShape
  BY DEF GemInv, GemTyped
<1>2. /\ gem'.state = gem.state /\ gem'.captured = gem.captured /\ gem'.open = gem.open
      /\ gem'.cancelled = gem.cancelled /\ gem'.owner = gem.owner /\ gem'.results = gem.results
      /\ gem'.retired = gem.retired
  BY <1>1 DEF Doom, GemShape, GemFields
<1>3. /\ told'.bracket = told.bracket /\ told'.asked = told.asked /\ told'.retired = told.retired
      /\ told'.sent = told.sent /\ told'.revoked = told.revoked /\ told'.abandoned = told.abandoned
      /\ told'.forgot = told.forgot /\ told'.sentRevoked = told.sentRevoked
  BY <1>1 DEF Doom, GemShape, ToldFields
<1>4. SenderInv'
  BY <1>3, SendersStay DEF GemInv
<1> QED
  BY <1>2, <1>3, <1>4, GemQuiet DEF GemInv, GemTyped

\* What changes the state or a fence only.
LEMMA StateQuiet ==
  ASSUME GemInv, GemShape', SenderInv', 
         told' = [told EXCEPT !.messages = told'.messages, !.turn = told'.turn],
         \/ gem' = gem
         \/ gem' = [gem EXCEPT !.trailing = FALSE]
         \/ /\ gem' = [gem EXCEPT !.state = gem'.state, !.ended = gem'.ended, !.doomed = gem'.doomed]
            /\ gem'.state \in {"closed", "failed"}
         \/ gem' = [gem EXCEPT !.fence = gem'.fence, !.interrupted = gem'.interrupted]
  PROVE  GemInv'
<1>1. GemShape
  BY DEF GemInv, GemTyped
<1>2. /\ gem'.captured = gem.captured /\ gem'.open = gem.open
      /\ gem'.cancelled = gem.cancelled /\ gem'.owner = gem.owner /\ gem'.results = gem.results
      /\ gem'.retired = gem.retired
      /\ gem'.state = gem.state \/ gem'.state \in {"closed", "failed"}
  BY <1>1 DEF GemShape, GemFields
<1>3. /\ told'.bracket = told.bracket /\ told'.asked = told.asked /\ told'.retired = told.retired
      /\ told'.sent = told.sent /\ told'.revoked = told.revoked /\ told'.abandoned = told.abandoned
      /\ told'.forgot = told.forgot /\ told'.sentRevoked = told.sentRevoked
  BY <1>1 DEF GemShape, ToldFields
<1> QED
  BY <1>2, <1>3, GemQuiet DEF GemInv, GemTyped

LEMMA QuietSteps ==
  ASSUME GemInv, GemShape',
         \/ GemClose \/ GoAway \/ DoomIsRead \/ GemEnds
         \/ \E m \in Content : DelegationContent(m)
  PROVE  GemInv'
<1>0. GemShape /\ SenderInv
  BY DEF GemInv, GemTyped
<1>1. CASE GoAway
  BY <1>1, DoomQuiet DEF GoAway
<1>2. CASE GemClose \/ DoomIsRead \/ GemEnds
  <2>1. SenderInv'
    BY <1>0, <1>2, SendersStay DEF GemClose, DoomIsRead, GemEnds
  <2>2. told' = [told EXCEPT !.messages = told'.messages, !.turn = told'.turn]
    BY <1>0, <1>2 DEF GemClose, DoomIsRead, GemEnds, GemShape, ToldFields
  <2>3. /\ gem' = [gem EXCEPT !.state = gem'.state, !.ended = gem'.ended, !.doomed = gem'.doomed]
        /\ gem'.state \in {"closed", "failed"}
    <3>1. CASE GemClose
      BY <1>0, <3>1 DEF GemClose, GemShape, GemFields
    <3>2. CASE DoomIsRead
      BY <1>0, <3>2 DEF DoomIsRead, GemShape, GemFields
    <3>3. CASE GemEnds
      BY <1>0, <3>3 DEF GemEnds, GemShape, GemFields
    <3> QED
      BY <1>2, <3>1, <3>2, <3>3
  <2> QED
    BY <2>1, <2>2, <2>3, StateQuiet
<1>3. ASSUME NEW m \in Content, DelegationContent(m) PROVE GemInv'
  <2>1. told'.sent = told.sent /\ told'.abandoned = told.abandoned
    BY <1>0, <1>3 DEF DelegationContent, GemShape, ToldFields
  <2>2. SenderInv'
    BY <1>0, <1>3, <2>1, SendersStay DEF DelegationContent
  <2>3. gem' = [gem EXCEPT !.fence = gem'.fence, !.interrupted = gem'.interrupted]
    BY <1>0, <1>3 DEF DelegationContent, GemShape, GemFields
  <2>4. told' = [told EXCEPT !.messages = told'.messages, !.turn = told'.turn]
    BY <1>0, <1>3 DEF DelegationContent, GemShape, ToldFields
  <2> QED
    BY <2>2, <2>3, <2>4, StateQuiet
<1> QED
  BY <1>1, <1>2, <1>3

-----------------------------------------------------------------------------
(* A response: its bracket is told as it opens and ends.                   *)

\* What a response changes leaves the delegations and the results alone.
LEMMA ResponseKeeps ==
  ASSUME GemInv, GemShape', ~gem.captured, gem.state # "new", senders' = senders,
         gem' = [gem EXCEPT !.open = gem'.open, !.words = gem'.words, !.trailing = gem'.trailing,
                    !.names = gem'.names], gem'.open \in BOOLEAN,
         told' = [told EXCEPT !.messages = told'.messages, !.bracket = told'.bracket],
         told'.bracket \in {"open", "closed"}, told'.bracket = "open" <=> gem'.open
  PROVE  GemInv'
<1>1. GemShape
  BY DEF GemInv, GemTyped
<1>2. /\ gem'.state = gem.state /\ gem'.captured = gem.captured /\ gem'.open \in BOOLEAN
      /\ gem'.cancelled = gem.cancelled /\ gem'.owner = gem.owner /\ gem'.results = gem.results
      /\ gem'.retired = gem.retired
  BY <1>1 DEF GemShape, GemFields
<1>3. /\ told'.asked = told.asked /\ told'.retired = told.retired
      /\ told'.sent = told.sent /\ told'.revoked = told.revoked /\ told'.abandoned = told.abandoned
      /\ told'.forgot = told.forgot /\ told'.sentRevoked = told.sentRevoked
  BY <1>1 DEF GemShape, ToldFields
<1>4. GemTyped'
  BY <1>2, <1>3 DEF GemInv, GemTyped
<1>5. BracketInv'
  BY <1>2 DEF BracketInv
<1>6. AskInv'
  <2>1. \A d \in GemCalls : Batch(d)' = Batch(d)
    BY <1>2 DEF Batch
  <2> QED
    BY <1>2, <1>3, <2>1 DEF GemInv, AskInv
<1>7. CancelInv' /\ SentInv' /\ SenderInv'
  BY <1>2, <1>3, SendersStay DEF GemInv, CancelInv, SentInv
<1> QED
  BY <1>4, <1>5, <1>6, <1>7 DEF GemInv

LEMMA ResponseSteps ==
  ASSUME GemInv, GemShape',
         (\E m \in Content : ServerContent(m)) \/ \E batch \in SUBSET GemCalls \ {{}} : ToolCall(batch)
  PROVE  GemInv'
<1>0. GemShape /\ BracketInv /\ gem.open \in BOOLEAN
  BY DEF GemInv, GemTyped
<1>1. ASSUME NEW m \in Content, ServerContent(m) PROVE GemInv'
  <2> DEFINE open == gem.open \/ Opens(m)
             ends == open /\ (m.interrupted \/ m.generationComplete \/ m.turnComplete)
             one  == IF Opens(m) THEN Started(told.bracket) ELSE told.bracket
  <2>1. ~gem.captured /\ gem.state # "new" /\ senders' = senders
    BY <1>1 DEF ServerContent, GemReads
  <2>2. one \in {"open", "closed"} /\ (one = "open" <=> open)
    BY <1>0, <2>1 DEF BracketInv, Opens, Started
  <2>3. /\ gem' = [gem EXCEPT !.open = gem'.open, !.words = gem'.words, !.trailing = gem'.trailing,
                     !.names = gem'.names]
        /\ gem'.open = (open /\ ~ends)
    <3> HIDE DEF open, ends
    <3>1. gem' = [gem EXCEPT
              !.open = open /\ ~ends,
              !.words = (@ \/ m.input) /\ ~m.interrupted /\ ~m.output /\ ~EndFlushes(m),
              !.trailing = /\ ~m.interrupted /\ ~m.turnComplete
                           /\ m.generationComplete \/ (@ /\ ~m.input)]
      BY <1>1 DEF ServerContent, open, ends
    <3> QED
      BY <1>0, <3>1 DEF GemShape, GemFields
  <2>4. told' = [told EXCEPT !.messages = @ + 1, !.bracket = IF ends THEN Finished(one) ELSE one]
    BY <1>1 DEF ServerContent
  <2> HIDE DEF open, ends, one
  <2>5. /\ told'.bracket = IF ends THEN Finished(one) ELSE one
        /\ told' = [told EXCEPT !.messages = told'.messages, !.bracket = told'.bracket]
    BY <1>0, <2>4 DEF GemShape, ToldFields
  <2>6. ends => open
    BY DEF ends
  <2>7. told'.bracket \in {"open", "closed"} /\ (told'.bracket = "open" <=> gem'.open)
    BY <2>2, <2>3, <2>5, <2>6 DEF Finished
  <2> QED
    BY <2>1, <2>3, <2>5, <2>7, ResponseKeeps
<1>2. ASSUME NEW batch, ToolCall(batch) PROVE GemInv'
  <2> DEFINE b == Finished(IF gem.open THEN told.bracket ELSE Started(told.bracket))
  <2>1. ~gem.captured /\ gem.state # "new" /\ senders' = senders
    BY <1>2 DEF ToolCall, GemReads
  <2>2. b = "closed"
    BY <1>0, <2>1 DEF BracketInv, Started, Finished
  <2>3. /\ gem' = [gem EXCEPT !.open = gem'.open, !.words = gem'.words, !.trailing = gem'.trailing,
                     !.names = gem'.names]
        /\ gem'.open = FALSE
    BY <1>0, <1>2 DEF ToolCall, GemShape, GemFields
  <2>4. told' = [told EXCEPT !.messages = @ + 1, !.bracket = b]
    BY <1>2 DEF ToolCall
  <2> HIDE DEF b
  <2>5. told'.bracket = b /\ told' = [told EXCEPT !.messages = told'.messages, !.bracket = told'.bracket]
    BY <1>0, <2>4 DEF GemShape, ToldFields
  <2> QED
    BY <2>1, <2>2, <2>3, <2>5, ResponseKeeps
<1> QED
  BY <1>1, <1>2

-----------------------------------------------------------------------------
(* What is asked for and what is cancelled.                                *)

LEMMA ConnectStep ==
  ASSUME GemInv, GemShape', GemConnect
  PROVE  GemInv'
<1>1. GemShape /\ gem.state = "new" /\ told' = told /\ senders' = senders
  BY DEF GemInv, GemTyped, GemConnect
<1>2. /\ gem'.state \in {"connected", "failed"} /\ gem'.captured \in BOOLEAN /\ gem'.open = gem.open
      /\ gem'.cancelled = gem.cancelled /\ gem'.owner = gem.owner /\ gem'.results = gem.results
      /\ gem'.retired = gem.retired
  BY <1>1 DEF GemConnect, GemShape, GemFields
<1>3. GemTyped'
  BY <1>1, <1>2 DEF GemInv, GemTyped
<1>4. BracketInv'
  BY <1>1, <1>2 DEF GemInv, BracketInv
<1>5. AskInv'
  <2>1. \A d \in GemCalls : Batch(d)' = Batch(d)
    BY <1>2 DEF Batch
  <2>2. \A d \in GemCalls : /\ told.asked[d] <= 1 /\ told.retired[d] <= 1
                            /\ d \in gem.retired <=> told.retired[d] = 1
                            /\ Batch(d) = {} => told.asked[d] = 0 /\ told.retired[d] = 0
                            /\ Batch(d) \cap told.revoked # {} => d \in gem.retired
    BY DEF GemInv, AskInv
  <2>3. told.revoked = {} /\ gem.retired = {} /\ \A c \in GemCalls : gem.owner[c] = NoBatch
    BY <1>1 DEF GemInv, BracketInv
  <2> QED
    BY <1>1, <1>2, <2>1, <2>2, <2>3 DEF AskInv
<1>6. CancelInv' /\ SentInv' /\ SenderInv'
  BY <1>1, <1>2, SendersStay DEF GemInv, CancelInv, SentInv
<1> QED
  BY <1>3, <1>4, <1>5, <1>6 DEF GemInv

\* A batch that is new is asked for, or retired at once.
LEMMA NewBatch ==
  ASSUME GemInv, GemShape', NEW lead \in GemCalls, NEW batch \in SUBSET GemCalls, lead \in batch,
         gem.captured, gem.state # "new", senders' = senders,
         \A c \in batch : gem.owner[c] = NoBatch, Batch(lead) = {},
         gem' = [gem EXCEPT !.owner = [c \in GemCalls |-> IF c \in batch THEN lead ELSE @[c]],
                            !.retired = IF BornRetired(batch) THEN @ \union {lead} ELSE @],
         told' = IF BornRetired(batch)
                 THEN [told EXCEPT !.messages = @ + 1, !.retired[lead] = @ + 1]
                 ELSE [told EXCEPT !.messages = @ + 1, !.asked[lead] = @ + 1]
  PROVE  GemInv'
<1>0. GemShape /\ lead # NoBatch
  BY GeminiAssumption DEF GemInv, GemTyped, NoBatch
<1>1. /\ gem'.state = gem.state /\ gem'.captured = gem.captured /\ gem'.open = gem.open
      /\ gem'.cancelled = gem.cancelled /\ gem'.results = gem.results
      /\ gem'.owner = [c \in GemCalls |-> IF c \in batch THEN lead ELSE gem.owner[c]]
      /\ gem'.retired = IF BornRetired(batch) THEN gem.retired \union {lead} ELSE gem.retired
  <2> DEFINE o == [c \in GemCalls |-> IF c \in batch THEN lead ELSE gem.owner[c]]
             r == IF BornRetired(batch) THEN gem.retired \union {lead} ELSE gem.retired
  <2>1. gem' = [gem EXCEPT !.owner = o, !.retired = r]
    OBVIOUS
  <2> HIDE DEF o, r
  <2>2. /\ gem'.state = gem.state /\ gem'.captured = gem.captured /\ gem'.open = gem.open
        /\ gem'.cancelled = gem.cancelled /\ gem'.results = gem.results /\ gem'.owner = o /\ gem'.retired = r
    BY <1>0, <2>1 DEF GemShape, GemFields
  <2> QED
    BY <2>2 DEF o, r
<1>2. told.asked \in [GemCalls -> Nat] /\ told.retired \in [GemCalls -> Nat]
  BY DEF GemInv, GemTyped
<1>3. /\ told'.bracket = told.bracket /\ told'.sent = told.sent /\ told'.revoked = told.revoked
      /\ told'.abandoned = told.abandoned /\ told'.forgot = told.forgot
      /\ told'.sentRevoked = told.sentRevoked
      /\ told'.asked = IF BornRetired(batch) THEN told.asked ELSE [told.asked EXCEPT ![lead] = @ + 1]
      /\ told'.retired = IF BornRetired(batch) THEN [told.retired EXCEPT ![lead] = @ + 1] ELSE told.retired
  <2>1. CASE BornRetired(batch)
    <3>1. told' = [told EXCEPT !.messages = @ + 1, !.retired[lead] = @ + 1]
      BY <2>1
    <3> QED
      BY <1>0, <2>1, <3>1 DEF GemShape, ToldFields
  <2>2. CASE ~BornRetired(batch)
    <3>1. told' = [told EXCEPT !.messages = @ + 1, !.asked[lead] = @ + 1]
      BY <2>2
    <3> QED
      BY <1>0, <2>2, <3>1 DEF GemShape, ToldFields
  <2> QED
    BY <2>1, <2>2
<1>4. /\ told.asked[lead] = 0 /\ told.retired[lead] = 0 /\ lead \notin gem.retired
      /\ told.revoked \subseteq IdsOf(gem.cancelled)
  BY DEF GemInv, AskInv
<1>5. GemTyped'
  <2>1. gem'.owner \in [GemCalls -> GemCalls \union {NoBatch}] /\ gem'.retired \subseteq GemCalls
    BY <1>1 DEF GemInv, GemTyped
  <2>2. told'.asked \in [GemCalls -> Nat] /\ told'.retired \in [GemCalls -> Nat]
    BY <1>2, <1>3
  <2> QED
    BY <1>1, <1>3, <2>1, <2>2 DEF GemInv, GemTyped
<1>6. BracketInv'
  BY <1>1, <1>3 DEF GemInv, BracketInv
<1>7. AskInv'
  <2>1. told'.revoked \subseteq IdsOf(gem'.cancelled) /\ gem'.captured
    BY <1>1, <1>3, <1>4
  <2>2. ASSUME NEW d \in GemCalls
        PROVE  /\ told'.asked[d] <= 1 /\ told'.retired[d] <= 1
               /\ d \in gem'.retired <=> told'.retired[d] = 1
               /\ Batch(d)' = {} => told'.asked[d] = 0 /\ told'.retired[d] = 0
               /\ Batch(d)' \cap told'.revoked # {} => d \in gem'.retired
    <3>1. /\ told.asked[d] <= 1 /\ told.retired[d] <= 1
          /\ d \in gem.retired <=> told.retired[d] = 1
          /\ Batch(d) = {} => told.asked[d] = 0 /\ told.retired[d] = 0
          /\ Batch(d) \cap told.revoked # {} => d \in gem.retired
      BY DEF GemInv, AskInv
    <3>2. CASE d = lead
      <4>1. Batch(d)' = batch
        BY <1>0, <1>1, <3>2 DEF Batch
      <4>2. batch \cap told.revoked # {} => BornRetired(batch)
        BY <1>4 DEF BornRetired, CancelledIds, IdsOf
      <4>3. /\ told'.asked[d] <= 1 /\ told'.retired[d] <= 1
            /\ d \in gem'.retired <=> told'.retired[d] = 1
        BY <1>1, <1>2, <1>3, <1>4, <3>2
      <4> QED
        BY <1>1, <1>3, <3>2, <4>1, <4>2, <4>3
    <3>3. CASE d # lead
      <4>1. Batch(d)' = Batch(d)
        <5>1. d # NoBatch
          BY GeminiAssumption DEF NoBatch
        <5> QED
          BY <1>1, <3>3, <5>1 DEF Batch
      <4>2. told'.asked[d] = told.asked[d] /\ told'.retired[d] = told.retired[d]
        BY <1>2, <1>3, <3>3
      <4>3. d \in gem'.retired <=> d \in gem.retired
        BY <1>1, <3>3
      <4> QED
        BY <1>3, <3>1, <4>1, <4>2, <4>3
    <3> QED
      BY <3>2, <3>3
  <2> QED
    BY <2>1, <2>2 DEF AskInv
<1>8. CancelInv' /\ SentInv' /\ SenderInv'
  <2>1. \A d \in gem.retired : d \in gem'.retired
    BY <1>1
  <2> QED
    BY <1>1, <1>3, <2>1, SendersStay DEF GemInv, CancelInv, SentInv
<1> QED
  BY <1>5, <1>6, <1>7, <1>8 DEF GemInv

LEMMA DelegationStep ==
  ASSUME GemInv, GemShape', NEW lead \in GemCalls, NEW batch \in SUBSET GemCalls, Delegation(lead, batch)
  PROVE  GemInv'
<1>0. GemShape /\ gem.captured /\ gem.state # "new" /\ senders' = senders /\ lead \in batch
  BY DEF GemInv, GemTyped, Delegation, GemReads
<1>1. CASE Doom
  BY <1>0, <1>1, DoomQuiet
<1>2. CASE gem' = gem /\ told' = [told EXCEPT !.messages = @ + 1]
  <2>1. /\ told' = [told EXCEPT !.messages = told'.messages, !.turn = told'.turn]
        /\ told'.sent = told.sent /\ told'.abandoned = told.abandoned
    BY <1>0, <1>2 DEF GemShape, ToldFields
  <2>2. SenderInv'
    BY <1>0, <2>1, SendersStay DEF GemInv
  <2> QED
    BY <1>2, <2>1, <2>2, StateQuiet
<1>3. CASE ~Doom /\ ~(gem' = gem /\ told' = [told EXCEPT !.messages = @ + 1])
  <2>1. /\ \A c \in batch : gem.owner[c] = NoBatch
        /\ Batch(lead) = {}
        /\ gem' = [gem EXCEPT !.owner = [c \in GemCalls |-> IF c \in batch THEN lead ELSE @[c]],
                              !.retired = IF BornRetired(batch) THEN @ \union {lead} ELSE @]
        /\ told' = IF BornRetired(batch)
                    THEN [told EXCEPT !.messages = @ + 1, !.retired[lead] = @ + 1]
                    ELSE [told EXCEPT !.messages = @ + 1, !.asked[lead] = @ + 1]
    BY <1>3 DEF Delegation
  <2> QED
    BY <1>0, <2>1, NewBatch
<1> QED
  BY <1>1, <1>2, <1>3

\* What is known of the cancelled calls after one more.
LEMMA RecordedWell ==
  ASSUME GemTyped, NEW c \in GemCalls
  PROVE  /\ Noted(c) \in Seq(GemRows) /\ Len(Noted(c)) <= MaxCancelled /\ c \in IdsOf(Noted(c))
         /\ (c \in CancelledIds \/ Len(gem.cancelled) < MaxCancelled) => CancelledIds \subseteq IdsOf(Noted(c))
<1> DEFINE q == gem.cancelled
           e == [id |-> c, logged |-> FALSE]
           marked == [n \in DOMAIN q |-> IF q[n].id = c THEN e ELSE q[n]]
<1>1. q \in Seq(GemRows) /\ Len(q) <= MaxCancelled /\ MaxCancelled \in Nat \ {0} /\ e \in GemRows
  BY GeminiAssumption DEF GemTyped, GemRows
<1>2. CASE c \in CancelledIds
  <2>1. marked \in Seq(GemRows) /\ Len(marked) = Len(q) /\ DOMAIN marked = DOMAIN q
    <3>1. DOMAIN q = 1 .. Len(q) /\ Len(q) \in Nat /\ \A n \in 1 .. Len(q) : q[n] \in GemRows
      BY <1>1
    <3>2. \A n \in 1 .. Len(q) : marked[n] \in GemRows
      BY <1>1, <3>1
    <3>3. marked \in [1 .. Len(q) -> GemRows] /\ DOMAIN marked = DOMAIN q
      BY <3>1, <3>2
    <3> HIDE DEF marked
    <3> QED
      BY <3>1, <3>3
  <2>2. \A n \in DOMAIN q : marked[n].id = q[n].id
    OBVIOUS
  <2>3. Noted(c) = marked
    BY <1>1, <1>2, <2>1 DEF Noted
  <2> HIDE DEF marked
  <2>4. IdsOf(marked) = CancelledIds
    BY <2>1, <2>2 DEF IdsOf, CancelledIds
  <2> QED
    BY <1>1, <1>2, <2>1, <2>3, <2>4
<1>3. CASE c \notin CancelledIds
  <2> DEFINE s == Append(q, e)
  <2>1. /\ s \in Seq(GemRows) /\ Len(s) = Len(q) + 1 /\ s[Len(q) + 1] = e
        /\ \A n \in DOMAIN q : n \in DOMAIN s /\ s[n] = q[n]
    BY <1>1
  <2>2. Noted(c) = IF Len(s) > MaxCancelled THEN Tail(s) ELSE s
    BY <1>3 DEF Noted
  <2> HIDE DEF q, e, s
  <2>3. CASE Len(s) > MaxCancelled
    <3>1. /\ Tail(s) \in Seq(GemRows) /\ Len(Tail(s)) = Len(q) /\ Len(q) >= 1
          /\ Tail(s)[Len(q)] = e /\ Len(q) \in DOMAIN Tail(s)
      BY <1>1, <2>1, <2>3
    <3>2. c \in IdsOf(Tail(s))
      BY <3>1 DEF IdsOf, e
    <3> QED
      BY <1>1, <1>3, <2>1, <2>2, <2>3, <3>1, <3>2 DEF q
  <2>4. CASE ~(Len(s) > MaxCancelled)
    <3>1. Len(q) + 1 \in DOMAIN s
      BY <1>1, <2>1
    <3>2. c \in IdsOf(s)
      BY <2>1, <3>1 DEF IdsOf, e
    <3>3. CancelledIds \subseteq IdsOf(s)
      BY <2>1 DEF CancelledIds, IdsOf, q
    <3> QED
      BY <1>1, <2>1, <2>2, <2>4, <3>2, <3>3
  <2> QED
    BY <2>3, <2>4
<1> QED
  BY <1>2, <1>3

LEMMA CancellationStep ==
  ASSUME GemInv, GemShape', NEW c \in GemCalls, Cancellation(c)
  PROVE  GemInv'
<1>0. GemShape /\ GemTyped /\ gem.state # "new" /\ senders' = senders
  BY DEF GemInv, GemTyped, Cancellation, GemReads
<1> DEFINE r == IF gem.captured THEN gem.retired \union Retires(c) ELSE gem.retired
           q == [d \in GemCalls |-> IF gem.captured /\ d \in Retires(c) THEN told.retired[d] + 1
                                    ELSE told.retired[d]]
           known == {Noted(c)[n].id : n \in DOMAIN Noted(c)}
<1>1. CASE gem.captured /\ c \notin CancelledIds /\ Len(gem.cancelled) >= MaxCancelled
  BY <1>0, <1>1, DoomQuiet DEF Cancellation
<1>2. CASE ~(gem.captured /\ c \notin CancelledIds /\ Len(gem.cancelled) >= MaxCancelled)
  <2>1. /\ gem' = [gem EXCEPT !.names = @ \ {c}, !.cancelled = Noted(c), !.retired = r]
        /\ told' = [told EXCEPT !.messages = @ + 1, !.revoked = @ \union {c},
                       !.forgot = @ \union (CancelledIds \ known), !.retired = q]
    BY <1>0, <1>2 DEF Cancellation, GemShape, GemFields, ToldFields
  <2>2. /\ Noted(c) \in Seq(GemRows) /\ Len(Noted(c)) <= MaxCancelled /\ c \in IdsOf(Noted(c))
        /\ gem.captured => CancelledIds \subseteq IdsOf(Noted(c))
    <3>1. gem.cancelled \in Seq(GemRows) /\ MaxCancelled \in Nat
      BY <1>0, GeminiAssumption DEF GemTyped
    <3>2. gem.captured => c \in CancelledIds \/ Len(gem.cancelled) < MaxCancelled
      BY <1>2, <3>1
    <3> QED
      BY <1>0, <3>2, RecordedWell
  <2>3. known = IdsOf(Noted(c)) /\ CancelledIds = IdsOf(gem.cancelled)
    BY DEF IdsOf, CancelledIds
  <2>4. /\ r \subseteq GemCalls /\ gem.retired \subseteq r
        /\ \A d \in GemCalls : d \in r <=> d \in gem.retired \/ (gem.captured /\ d \in Retires(c))
    BY <1>0 DEF GemTyped, Retires
  <2>5. told.retired \in [GemCalls -> Nat] /\ gem.owner \in [GemCalls -> GemCalls \union {NoBatch}]
    BY <1>0 DEF GemTyped
  <2>6. q \in [GemCalls -> Nat]
    BY <2>5
  <2>7. \A d \in GemCalls : q[d] = IF gem.captured /\ d \in Retires(c) THEN told.retired[d] + 1 ELSE told.retired[d]
    OBVIOUS
  <2> HIDE DEF r, q, known
  <2>8. /\ gem'.state = gem.state /\ gem'.captured = gem.captured /\ gem'.open = gem.open
        /\ gem'.cancelled = Noted(c) /\ gem'.owner = gem.owner /\ gem'.results = gem.results
        /\ gem'.retired = r
    BY <1>0, <2>1 DEF GemShape, GemFields
  <2>9. /\ told'.bracket = told.bracket /\ told'.asked = told.asked /\ told'.retired = q
        /\ told'.sent = told.sent /\ told'.revoked = told.revoked \union {c} /\ told'.abandoned = told.abandoned
        /\ told'.forgot = told.forgot \union (CancelledIds \ known) /\ told'.sentRevoked = told.sentRevoked
    BY <1>0, <2>1 DEF GemShape, ToldFields
  <2>10. GemTyped'
    BY <2>2, <2>4, <2>6, <2>8, <2>9 DEF GemInv, GemTyped
  <2>11. BracketInv'
    BY <1>0, <2>8, <2>9 DEF GemInv, BracketInv
  <2>12. AskInv'
    <3>1. IF gem'.captured THEN told'.revoked \subseteq IdsOf(gem'.cancelled)
          ELSE gem'.retired = {} /\ \A d \in GemCalls : gem'.owner[d] = NoBatch
      <4>1. CASE gem.captured
        BY <2>2, <2>3, <2>8, <2>9, <4>1 DEF GemInv, AskInv
      <4>2. CASE ~gem.captured
        BY <2>8, <4>2 DEF GemInv, AskInv, r
      <4> QED
        BY <4>1, <4>2
    <3>2. ASSUME NEW d \in GemCalls
          PROVE  /\ told'.asked[d] <= 1 /\ told'.retired[d] <= 1
                 /\ d \in gem'.retired <=> told'.retired[d] = 1
                 /\ Batch(d)' = {} => told'.asked[d] = 0 /\ told'.retired[d] = 0
                 /\ Batch(d)' \cap told'.revoked # {} => d \in gem'.retired
      <4>1. /\ told.asked[d] <= 1 /\ told.retired[d] <= 1 /\ told.retired[d] \in Nat
            /\ d \in gem.retired <=> told.retired[d] = 1
            /\ Batch(d) = {} => told.asked[d] = 0 /\ told.retired[d] = 0
            /\ Batch(d) \cap told.revoked # {} => d \in gem.retired
        BY <2>5 DEF GemInv, AskInv
      <4>2. Batch(d)' = Batch(d)
        BY <2>8 DEF Batch
      <4>3. d # NoBatch
        BY GeminiAssumption DEF NoBatch
      <4>4. d \in Retires(c) => c \in Batch(d) /\ d \notin gem.retired
        BY DEF Retires, Batch
      <4>5. c \in Batch(d) => d \in gem.retired \/ (gem.captured /\ d \in Retires(c))
        <5>1. CASE gem.captured
          BY <4>3, <5>1 DEF Retires, Batch
        <5>2. CASE ~gem.captured
          BY <4>3, <5>2 DEF GemInv, AskInv, Batch
        <5> QED
          BY <5>1, <5>2
      <4>6. /\ told'.asked[d] <= 1 /\ told'.retired[d] <= 1
            /\ d \in gem'.retired <=> told'.retired[d] = 1
        BY <2>4, <2>7, <2>8, <2>9, <4>1, <4>4
      <4>7. Batch(d)' = {} => told'.asked[d] = 0 /\ told'.retired[d] = 0
        BY <2>7, <2>9, <4>1, <4>2, <4>4
      <4>8. Batch(d)' \cap told'.revoked # {} => d \in gem'.retired
        BY <2>4, <2>8, <2>9, <4>1, <4>2, <4>5
      <4> QED
        BY <4>6, <4>7, <4>8
    <3> QED
      BY <3>1, <3>2 DEF AskInv
  <2>13. CancelInv'
    BY <2>2, <2>3, <2>8, <2>9 DEF GemInv, CancelInv
  <2>14. SentInv'
    BY <2>4, <2>8, <2>9 DEF GemInv, SentInv
  <2>15. SenderInv'
    BY <1>0, <2>9, SendersStay DEF GemInv
  <2> QED
    BY <2>10, <2>11, <2>12, <2>13, <2>14, <2>15 DEF GemInv
<1> QED
  BY <1>1, <1>2

-----------------------------------------------------------------------------
(* The senders.                                                            *)

\* A command is one of the four.
LEMMA CommandWell ==
  ASSUME NEW k \in Commands
  PROVE  /\ k.kind \in {"start", "cancel", "tool", "result"}
         /\ k.kind \in {"tool", "result"} => k.call \in GemCalls
         /\ k.kind = "result" => k.content \in {1, 2}
BY DEF Commands

\* A sender that does not wait for the lock's owner is idle, waits or sends.
LEMMA SenderWell ==
  ASSUME SenderInv, NEW s \in GemSenders
  PROVE  /\ senders[s] \in Senders
         /\ senders[s].at = "waits" => senders[s].command \in Commands
         /\ senders[s].at = "sends" => senders[s].command \in Commands /\ senders[s].wire \in BOOLEAN
<1>1. senders[s] \in Senders
  BY DEF SenderInv
<1> QED
  BY <1>1 DEF Senders

\* A sender that stops, and the others that stay.
LEMMA SenderStops ==
  ASSUME SenderInv, NEW s \in GemSenders, NEW v \in Senders, v.at # "sends",
         senders' = [senders EXCEPT ![s] = v],
         \/ told'.sent = told.sent /\ told'.abandoned = told.abandoned
         \/ senders[s].at = "sends"
  PROVE  SenderInv'
<1>1. /\ senders' \in [GemSenders -> Senders]
      /\ \A u \in GemSenders : senders'[u].at = "sends" => u # s /\ senders'[u] = senders[u]
  BY DEF SenderInv
<1> QED
  BY <1>1 DEF SenderInv

\* A sender that takes the lock.
LEMMA SenderStarts ==
  ASSUME SenderInv, NEW s \in GemSenders, ~Locked, NEW k \in Commands, NEW w \in BOOLEAN,
         senders' = [senders EXCEPT ![s] = [at |-> "sends", command |-> k, wire |-> w]],
         told'.sent = told.sent, told'.abandoned = told.abandoned,
         k.kind = "result" /\ w /\ k.call \notin told.abandoned => told.sent[k.call] = 0
  PROVE  SenderInv'
<1> DEFINE v == [at |-> "sends", command |-> k, wire |-> w]
<1>1. v \in Senders /\ v.command = k /\ v.wire = w
  BY DEF Senders
<1>2. senders' = [senders EXCEPT ![s] = v]
  OBVIOUS
<1> HIDE DEF v
<1>3. /\ senders' \in [GemSenders -> Senders]
      /\ \A u \in GemSenders : u # s => senders'[u].at # "sends"
      /\ senders'[s] = v
  BY <1>1, <1>2 DEF SenderInv, Locked
<1> QED
  BY <1>1, <1>3 DEF SenderInv

LEMMA SendsStep ==
  ASSUME GemInv, GemShape', NEW s \in GemSenders, Sends(s)
  PROVE  GemInv'
<1>1. PICK k \in Commands : senders' = [senders EXCEPT ![s] = [at |-> "waits", command |-> k]]
  BY DEF Sends
<1>2. gem' = gem /\ told' = told
  BY DEF Sends
<1>3. [at |-> "waits", command |-> k] \in Senders /\ [at |-> "waits", command |-> k].at # "sends"
  BY DEF Senders
<1>4. SenderInv'
  BY <1>1, <1>2, <1>3, SenderStops DEF GemInv
<1> QED
  BY <1>2, <1>4, GemQuiet DEF GemInv, GemTyped

LEMMA EncodesStep ==
  ASSUME GemInv, GemShape', NEW s \in GemSenders, Encodes(s)
  PROVE  GemInv'
<1> DEFINE k == senders[s].command
<1>0. /\ GemShape /\ GemTyped /\ SenderInv /\ CancelInv /\ SentInv
      /\ senders[s].at = "waits" /\ ~Locked /\ k \in Commands
  BY SenderWell DEF GemInv, GemTyped, Encodes
<1>1. CASE k.kind \in {"start", "cancel"}
  <2>1. told' = told
    BY <1>1 DEF Encodes
  <2>2. /\ gem'.captured = gem.captured /\ gem'.open = gem.open /\ gem'.owner = gem.owner
        /\ gem'.retired = gem.retired /\ gem'.cancelled = gem.cancelled /\ gem'.results = gem.results
        /\ gem'.state = gem.state
    <3>1. gem' = [gem EXCEPT !.trailing = FALSE] \/ gem' = [gem EXCEPT !.fence = @ \/ ~gem.interrupted]
      BY <1>1 DEF Encodes
    <3> QED
      BY <1>0, <3>1 DEF GemShape, GemFields
  <2>3. PICK w \in BOOLEAN : senders' = [senders EXCEPT ![s] = [at |-> "sends", command |-> k, wire |-> w]]
    BY <1>1 DEF Encodes
  <2>4. SenderInv'
    <3> HIDE DEF k
    <3> QED
      BY <1>0, <1>1, <2>1, <2>3, SenderStarts
  <2> QED
    BY <1>0, <2>1, <2>2, <2>4, GemQuiet DEF GemTyped
<1>2. CASE k.kind = "tool"
  <2> DEFINE rows == [n \in DOMAIN gem.cancelled |->
                        IF gem.cancelled[n].id = k.call THEN [gem.cancelled[n] EXCEPT !.logged = TRUE]
                        ELSE gem.cancelled[n]]
  <2>1. /\ gem' = [gem EXCEPT !.names = @ \ {k.call}, !.trailing = @ /\ Drops(k), !.cancelled = rows]
        /\ senders' = [senders EXCEPT ![s] = [at |-> "sends", command |-> k, wire |-> ~Drops(k)]]
        /\ told' = IF ~Drops(k) THEN [told EXCEPT !.sentRevoked = @ \/ k.call \in told.revoked \ told.forgot]
                   ELSE told
    <3>1. gem' = [gem EXCEPT !.names = @ \ {k.call}, !.trailing = @ /\ Drops(k),
                         !.cancelled = [n \in DOMAIN @ |->
                            IF @[n].id = k.call THEN [@[n] EXCEPT !.logged = TRUE] ELSE @[n]]]
      BY <1>2 DEF Encodes
    <3>2. gem' = [gem EXCEPT !.names = @ \ {k.call}, !.trailing = @ /\ Drops(k), !.cancelled = rows]
      BY <1>0, <3>1 DEF GemShape, GemFields
    <3> QED
      BY <1>2, <3>2 DEF Encodes
  <2>2. rows \in Seq(GemRows) /\ Len(rows) = Len(gem.cancelled) /\ IdsOf(rows) = IdsOf(gem.cancelled)
    <3> DEFINE c == gem.cancelled
    <3>1. DOMAIN c = 1 .. Len(c) /\ Len(c) \in Nat /\ \A n \in 1 .. Len(c) : c[n] \in GemRows
      BY <1>0 DEF GemTyped
    <3>2. \A n \in 1 .. Len(c) : rows[n] \in GemRows /\ rows[n].id = c[n].id
      BY <3>1 DEF GemRows
    <3>3. rows \in [1 .. Len(c) -> GemRows] /\ DOMAIN rows = DOMAIN c
      BY <3>1, <3>2
    <3> HIDE DEF rows
    <3> QED
      BY <3>1, <3>2, <3>3 DEF IdsOf
  <2> HIDE DEF rows
  <2>3. /\ gem'.captured = gem.captured /\ gem'.open = gem.open /\ gem'.owner = gem.owner
        /\ gem'.retired = gem.retired /\ gem'.cancelled = rows /\ gem'.results = gem.results
        /\ gem'.state = gem.state
    BY <1>0, <2>1 DEF GemShape, GemFields
  <2>4. ~Drops(k) => k.call \notin told.revoked \ told.forgot
    BY <1>0 DEF CancelInv, Drops, CancelledIds, IdsOf
  <2>5. /\ told'.bracket = told.bracket /\ told'.asked = told.asked /\ told'.retired = told.retired
        /\ told'.revoked = told.revoked /\ told'.forgot = told.forgot /\ told'.sent = told.sent
        /\ told'.abandoned = told.abandoned /\ (told'.sentRevoked => told.sentRevoked)
    <3> HIDE DEF k
    <3> QED
      BY <1>0, <2>1, <2>4 DEF GemShape, ToldFields
  <2>6. SenderInv'
    <3> HIDE DEF k
    <3> QED
      BY <1>0, <1>2, <2>1, <2>5, SenderStarts
  <2>7. SentInv'
    BY <1>0, <2>3, <2>5 DEF SentInv
  <2> QED
    BY <1>0, <2>2, <2>3, <2>5, <2>6, <2>7, GemFrame DEF GemTyped
<1>3. CASE k.kind = "result"
  <2>1. gem' = gem /\ told' = told
    BY <1>3 DEF Encodes
  <2>2. SenderInv'
    <3>1. CASE senders' = [senders EXCEPT ![s] = [at |-> "idle"]]
      <4>1. [at |-> "idle"] \in Senders /\ [at |-> "idle"].at # "sends"
        BY DEF Senders
      <4> QED
        BY <1>0, <2>1, <3>1, <4>1, SenderStops
    <3>2. CASE senders' = [senders EXCEPT ![s] = [at |-> "sends", command |-> k, wire |-> GoesOut(k)]]
      <4>1. k.call \in GemCalls
        BY <1>0, <1>3, CommandWell
      <4>2. GoesOut(k) /\ k.call \notin told.abandoned => told.sent[k.call] = 0
        BY <1>0, <4>1 DEF GoesOut, SentInv, GemTyped
      <4>3. GoesOut(k) \in BOOLEAN
        BY DEF GoesOut
      <4> HIDE DEF k
      <4> QED
        BY <1>0, <2>1, <3>2, <4>2, <4>3, SenderStarts
    <3> QED
      BY <1>3, <3>1, <3>2 DEF Encodes
  <2> QED
    BY <1>0, <2>1, <2>2, GemQuiet DEF GemTyped
<1> QED
  BY <1>0, <1>1, <1>2, <1>3, CommandWell

\* A result that goes out is the first, and is recorded unless its delegation was retired.
LEMMA DoneStep ==
  ASSUME GemInv, GemShape', NEW s \in GemSenders, SenderDone(s)
  PROVE  GemInv'
<1> DEFINE k == senders[s].command
           records == k.kind = "result" /\ k.call \notin gem.retired
           out == k.kind = "result" /\ senders[s].wire
<1>0. /\ GemShape /\ GemTyped /\ SenderInv /\ SentInv
      /\ senders[s].at = "sends" /\ k \in Commands
  BY SenderWell DEF GemInv, GemTyped, SenderDone
<1>1. /\ gem' = IF records THEN [gem EXCEPT !.results[k.call] = k.content,
                                    !.contexts[k.call] = IF k.context = 1 THEN 1 ELSE @] ELSE gem
      /\ told' = IF out THEN [told EXCEPT !.sent[k.call] = IF @ < 2 THEN @ + 1 ELSE @] ELSE told
      /\ senders' = [senders EXCEPT ![s] = [at |-> "idle"]]
  BY DEF SenderDone
<1>2. k.kind = "result" => k.call \in GemCalls /\ k.content \in {1, 2}
  BY <1>0, CommandWell
<1>3. out /\ k.call \notin told.abandoned => told.sent[k.call] = 0
  BY <1>0 DEF SenderInv
<1> HIDE DEF records, out, k
<1>4. /\ gem'.state = gem.state /\ gem'.captured = gem.captured /\ gem'.open = gem.open
      /\ gem'.owner = gem.owner /\ gem'.retired = gem.retired /\ gem'.cancelled = gem.cancelled
      /\ gem'.results = IF records THEN [gem.results EXCEPT ![k.call] = k.content] ELSE gem.results
  BY <1>0, <1>1 DEF GemShape, GemFields
<1>5. /\ told'.bracket = told.bracket /\ told'.asked = told.asked /\ told'.retired = told.retired
      /\ told'.revoked = told.revoked /\ told'.forgot = told.forgot /\ told'.abandoned = told.abandoned
      /\ told'.sentRevoked = told.sentRevoked
      /\ told'.sent = IF out THEN [told.sent EXCEPT ![k.call] = IF @ < 2 THEN @ + 1 ELSE @] ELSE told.sent
  BY <1>0, <1>1 DEF GemShape, ToldFields
<1>6. gem'.results \in [GemCalls -> {0, 1, 2}]
  BY <1>0, <1>2, <1>4 DEF GemTyped, records
<1>7. told'.sent \in [GemCalls -> Nat]
  BY <1>0, <1>2, <1>5 DEF GemTyped, out
<1>8. SenderInv'
  <2>1. [at |-> "idle"] \in Senders /\ [at |-> "idle"].at # "sends"
    BY DEF Senders
  <2> QED
    BY <1>0, <1>1, <2>1, SenderStops
<1>9. SentInv'
  <2> SUFFICES ASSUME NEW d \in GemCalls, d \notin told.abandoned
               PROVE  told'.sent[d] <= 1 /\ (told'.sent[d] = 1 => gem'.results[d] # 0 \/ d \in gem'.retired)
    BY <1>5 DEF SentInv
  <2>1. told.sent[d] <= 1 /\ told.sent[d] \in Nat /\ (told.sent[d] = 1 => gem.results[d] # 0 \/ d \in gem.retired)
    BY <1>0 DEF SentInv, GemTyped
  <2>2. gem.results[d] # 0 => gem'.results[d] # 0
    BY <1>0, <1>2, <1>4 DEF records, GemTyped
  <2>3. CASE out /\ d = k.call
    <3>1. told'.sent[d] = 1
      BY <1>0, <1>3, <1>5, <2>3 DEF GemTyped
    <3>2. d \notin gem.retired => gem'.results[d] # 0
      BY <1>0, <1>2, <1>4, <2>3 DEF records, out, GemTyped
    <3> QED
      BY <1>4, <3>1, <3>2
  <2>4. CASE ~(out /\ d = k.call)
    <3>1. told'.sent[d] = told.sent[d]
      BY <1>0, <1>5, <2>4 DEF GemTyped
    <3> QED
      BY <1>4, <2>1, <2>2, <3>1
  <2> QED
    BY <2>3, <2>4
<1> QED
  BY <1>0, <1>4, <1>5, <1>6, <1>7, <1>8, <1>9, GemFrame DEF GemTyped

\* A send that breaks: the result may be out and is not recorded, and its call is given up.
LEMMA BreaksStep ==
  ASSUME GemInv, GemShape', NEW s \in GemSenders, SendBreaks(s)
  PROVE  GemInv'
<1> DEFINE k == senders[s].command
           out == k.kind = "result" /\ senders[s].wire
<1>0. /\ GemShape /\ GemTyped /\ SenderInv /\ SentInv
      /\ senders[s].at = "sends" /\ k \in Commands
  BY SenderWell DEF GemInv, GemTyped, SendBreaks
<1>1. /\ \/ gem' = [gem EXCEPT !.state = "failed"] /\ told' = told
         \/ /\ gem' = gem
            /\ told' = IF out THEN [told EXCEPT !.sent[k.call] = IF @ < 2 THEN @ + 1 ELSE @,
                                           !.abandoned = @ \union {k.call}] ELSE told
      /\ senders' = [senders EXCEPT ![s] = [at |-> "idle"]]
  BY DEF SendBreaks
<1>2. (k.kind = "result" => k.call \in GemCalls) /\ out \in BOOLEAN
  BY <1>0, CommandWell
<1> HIDE DEF out, k
<1>3. /\ gem'.state \in {gem.state, "failed"} /\ gem'.captured = gem.captured /\ gem'.open = gem.open
      /\ gem'.owner = gem.owner /\ gem'.retired = gem.retired /\ gem'.cancelled = gem.cancelled
      /\ gem'.results = gem.results
  BY <1>0, <1>1 DEF GemShape, GemFields
<1>4. /\ told'.bracket = told.bracket /\ told'.asked = told.asked /\ told'.retired = told.retired
      /\ told'.revoked = told.revoked /\ told'.forgot = told.forgot /\ told'.sentRevoked = told.sentRevoked
      /\ \/ told'.sent = told.sent /\ told'.abandoned = told.abandoned
         \/ /\ out
            /\ told'.sent = [told.sent EXCEPT ![k.call] = IF @ < 2 THEN @ + 1 ELSE @]
            /\ told'.abandoned = told.abandoned \union {k.call}
  <2> DEFINE gone == [told EXCEPT !.sent[k.call] = IF @ < 2 THEN @ + 1 ELSE @, !.abandoned = @ \union {k.call}]
  <2>1. told' = told \/ (out /\ told' = gone)
    BY <1>1, <1>2
  <2>2. CASE told' = told
    BY <2>2
  <2>3. CASE out /\ told' = gone
    BY <1>0, <2>3 DEF GemShape, ToldFields
  <2> HIDE DEF gone
  <2> QED
    BY <2>1, <2>2, <2>3
<1>5. told'.sent \in [GemCalls -> Nat]
  <2>1. out => k.call \in GemCalls
    BY <1>2 DEF out
  <2>2. CASE told'.sent = told.sent
    BY <1>0, <2>2 DEF GemTyped
  <2>3. CASE out /\ told'.sent = [told.sent EXCEPT ![k.call] = IF @ < 2 THEN @ + 1 ELSE @]
    <3>1. told.sent \in [GemCalls -> Nat] /\ k.call \in GemCalls
      BY <1>0, <2>1, <2>3 DEF GemTyped
    <3> QED
      BY <2>3, <3>1
  <2> QED
    BY <1>4, <2>2, <2>3
<1>6. SenderInv'
  <2>1. [at |-> "idle"] \in Senders /\ [at |-> "idle"].at # "sends"
    BY DEF Senders
  <2> QED
    BY <1>0, <1>1, <2>1, SenderStops
<1>7. SentInv'
  <2> SUFFICES ASSUME NEW d \in GemCalls, d \notin told'.abandoned
               PROVE  told'.sent[d] <= 1 /\ (told'.sent[d] = 1 => gem'.results[d] # 0 \/ d \in gem'.retired)
    BY DEF SentInv
  <2>1. d \notin told.abandoned /\ told'.sent[d] = told.sent[d]
    BY <1>0, <1>4 DEF GemTyped
  <2> QED
    BY <1>0, <1>3, <2>1 DEF SentInv
<1> QED
  BY <1>0, <1>3, <1>4, <1>5, <1>6, <1>7, GemFrame DEF GemTyped

-----------------------------------------------------------------------------
(* The theorems.                                                           *)

LEMMA GemStarts == GemInit => GemInv
<1> SUFFICES ASSUME GemInit PROVE GemInv
  OBVIOUS
<1>1. /\ gem.state = "new" /\ gem.captured = FALSE /\ gem.open = FALSE /\ gem.cancelled = <<>>
      /\ gem.owner = [c \in GemCalls |-> NoBatch] /\ gem.results = Zero /\ gem.retired = {}
      /\ told.bracket = "closed" /\ told.asked = Zero /\ told.retired = Zero /\ told.sent = Zero
      /\ told.revoked = {} /\ told.forgot = {} /\ told.sentRevoked = FALSE
      /\ senders = [s \in GemSenders |-> [at |-> "idle"]]
  BY DEF GemInit
<1>2. GemShape
  BY DEF GemInit, GemShape, GemFields, ToldFields
<1>3. GemTyped
  <2>1. <<>> \in Seq(GemRows) /\ Len(<<>>) = 0 /\ 0 <= MaxCancelled
    BY GeminiAssumption
  <2>2. Zero \in [GemCalls -> {0, 1, 2}] /\ Zero \in [GemCalls -> Nat]
    BY DEF Zero
  <2> QED
    BY <1>1, <1>2, <2>1, <2>2 DEF GemTyped
<1>4. BracketInv /\ CancelInv
  BY <1>1 DEF BracketInv, CancelInv
<1>5. AskInv
  BY <1>1 DEF AskInv, Zero
<1>6. SentInv
  BY <1>1 DEF SentInv, Zero
<1>7. SenderInv
  <2>1. [at |-> "idle"] \in Senders /\ [at |-> "idle"].at # "sends"
    BY DEF Senders
  <2> QED
    BY <1>1, <2>1 DEF SenderInv
<1> QED
  BY <1>3, <1>4, <1>5, <1>6, <1>7 DEF GemInv

LEMMA GemKeeps == GemInv /\ [GemNext]_gemVars => GemInv'
<1> SUFFICES ASSUME GemInv, [GemNext]_gemVars PROVE GemInv'
  OBVIOUS
<1>0. GemShape
  BY DEF GemInv, GemTyped
<1>1. CASE UNCHANGED gemVars
  <2>1. GemShape' /\ SenderInv'
    BY <1>0, <1>1, SendersStay DEF gemVars, GemShape, GemInv
  <2> QED
    BY <1>1, <2>1, GemQuiet DEF gemVars, GemInv, GemTyped
<1>2. CASE GemNext
  <2>1. GemShape'
    BY <1>0, <1>2, GemShapeKept
  <2>2. CASE GemConnect
    BY <2>1, <2>2, ConnectStep
  <2>3. CASE GemClose \/ GoAway \/ DoomIsRead \/ GemEnds \/ \E m \in Content : DelegationContent(m)
    BY <2>1, <2>3, QuietSteps
  <2>4. CASE (\E m \in Content : ServerContent(m)) \/ \E batch \in SUBSET GemCalls \ {{}} : ToolCall(batch)
    BY <2>1, <2>4, ResponseSteps
  <2>5. CASE \E batch \in SUBSET GemCalls \ {{}}, lead \in GemCalls : Delegation(lead, batch)
    BY <2>1, <2>5, DelegationStep
  <2>6. CASE \E c \in GemCalls : Cancellation(c)
    BY <2>1, <2>6, CancellationStep
  <2>7. CASE \E s \in GemSenders : Sends(s) \/ Encodes(s) \/ SenderDone(s) \/ SendBreaks(s)
    BY <2>1, <2>7, SendsStep, EncodesStep, DoneStep, BreaksStep
  <2> QED
    BY <1>2, <2>2, <2>3, <2>4, <2>5, <2>6, <2>7 DEF GemNext
<1> QED
  BY <1>1, <1>2

\* Whatever the provider sends and in whatever order its calls are cancelled, and however
\* many tasks retry: brackets match, a delegation is asked for once and retired once, and the
\* provider gets one result of it (talk_gemini_realtime.py, _decode_delegation,
\* _retire_delegations, _encode_delegation_commands).
THEOREM GeminiIsSafe == GemSpec => []GeminiSafe
<1>1. GemSpec => []GemInv
  BY GemStarts, GemKeeps, PTL DEF GemSpec
<1>2. GemInv => GeminiSafe
  <2> SUFFICES ASSUME GemInv PROVE GeminiSafe
    OBVIOUS
  <2>1. GemTypeOK
    BY DEF GemInv, GemTyped, GemTypeOK
  <2>2. BracketsMatch
    BY DEF GemInv, BracketInv, GemTyped, BracketsMatch
  <2>3. AskedOnce
    BY DEF GemInv, AskInv, AskedOnce
  <2>4. ResultOnce
    BY DEF GemInv, SentInv, CancelInv, ResultOnce
  <2> QED
    BY <2>1, <2>2, <2>3, <2>4 DEF GeminiSafe
<1> QED
  BY <1>1, <1>2, PTL

\* The words of the user are told before the response they belong to ends
\* (talk_gemini_realtime.py, _decode_server_content).
THEOREM WordsComeFirst == GemSpec => WordsBeforeEnd
<1>1. GemSpec => []GemInv
  BY GemStarts, GemKeeps, PTL DEF GemSpec
<1>2. GemInv /\ [GemNext]_gemVars => [gem.open /\ ~gem'.open => ~gem'.words]_gemVars
  <2> SUFFICES ASSUME GemInv, GemNext, gem.open, ~gem'.open
               PROVE  ~gem'.words
    BY DEF gemVars
  <2>0. GemShape
    BY DEF GemInv, GemTyped
  <2>1. ASSUME NEW m \in Content, ServerContent(m) PROVE ~gem'.words
    <3> DEFINE ends == (gem.open \/ Opens(m)) /\ (m.interrupted \/ m.generationComplete \/ m.turnComplete)
               open == gem.open \/ Opens(m)
               words == (gem.words \/ m.input) /\ ~m.interrupted /\ ~m.output /\ ~EndFlushes(m)
               trailing == /\ ~m.interrupted /\ ~m.turnComplete
                           /\ m.generationComplete \/ (gem.trailing /\ ~m.input)
    <3>1. gem' = [gem EXCEPT !.open = open /\ ~ends, !.words = words, !.trailing = trailing]
      BY <2>1 DEF ServerContent
    <3>2. ends => ~words
      BY DEF EndFlushes
    <3>3. open
      OBVIOUS
    <3> HIDE DEF ends, open, words, trailing
    <3>4. gem'.open = (open /\ ~ends) /\ gem'.words = words
      BY <2>0, <3>1 DEF GemShape, GemFields
    <3> QED
      BY <3>2, <3>3, <3>4
  <2>2. ASSUME NEW batch, ToolCall(batch) PROVE ~gem'.words
    BY <2>0, <2>2 DEF ToolCall, GemShape, GemFields
  <2> DEFINE rest == /\ ~ \E m \in Content : ServerContent(m)
                     /\ ~ \E batch \in SUBSET GemCalls \ {{}} : ToolCall(batch)
  <2>3. ASSUME rest PROVE gem'.open = gem.open
    <3>1. CASE GemConnect \/ GemClose \/ GoAway \/ DoomIsRead \/ GemEnds
      BY <2>0, <3>1 DEF GemConnect, GemClose, GoAway, Doom, DoomIsRead, GemEnds, GemShape, GemFields
    <3>2. ASSUME NEW m \in Content, DelegationContent(m) PROVE gem'.open = gem.open
      BY <2>0, <3>2 DEF DelegationContent, GemShape, GemFields
    <3>3. ASSUME NEW batch, NEW lead, Delegation(lead, batch) PROVE gem'.open = gem.open
      BY <2>0, <3>3 DEF Delegation, Doom, GemShape, GemFields
    <3>4. ASSUME NEW c, Cancellation(c) PROVE gem'.open = gem.open
      BY <2>0, <3>4 DEF Cancellation, Doom, GemShape, GemFields
    <3>5. ASSUME NEW s \in GemSenders, Sends(s) \/ Encodes(s) \/ SenderDone(s) \/ SendBreaks(s)
          PROVE  gem'.open = gem.open
      BY <2>0, <3>5 DEF Sends, Encodes, SenderDone, SendBreaks, GemShape, GemFields
    <3> QED
      BY <2>3, <3>1, <3>2, <3>3, <3>4, <3>5 DEF GemNext
  <2> QED
    BY <2>1, <2>2, <2>3
<1> QED
  BY <1>1, <1>2, PTL DEF GemSpec, WordsBeforeEnd
=============================================================================
